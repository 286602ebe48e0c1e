----------------------------- MODULE RetiredProofs -----------------------------
(***************************************************************************)
(* Proofs about the stores of retired/, for every set of processes,        *)
(* digests, workers, packers, attached assets and contents and every       *)
(* bound: workspace attachments, resolution, publication, work packs and   *)
(* the package store, one after another, and at the end what follows for   *)
(* RetiredSpec, of which each is a part.                                   *)
(*                                                                         *)
(* Every part has an inductive invariant of its own; RetiredInv says which *)
(* holds of the part that runs.                                            *)
(***************************************************************************)
EXTENDS MCRetired, FiniteSetTheorems, TLAPS

--------------------------------------------------------------------------------

(***************************************************************************)
(* Workspace attachments: what the lock, the record, the snapshots, the    *)
(* staging directory and the receipt say of each other at every line of    *)
(* every command, whoever crashed between two lines. That what is recorded *)
(* is stored, that a command changes one attachment and that a cleanup     *)
(* deletes what was approved follow from it.                               *)
(***************************************************************************)

\* The steps commands are made of.
StepNames == {"initial", "lock", "read", "verify", "store", "write", "found", "restore", "unplan", "rmdir", "recovered", "plan", "mkdir",
              "planfile", "move", "recheck", "delete", "pass", "partial"}

\* What a concatenation has at which place.
LEMMA Joined ==
  ASSUME NEW s \in Seq(StepNames), NEW t \in Seq(StepNames), NEW c, c = s \o t
  PROVE  /\ DOMAIN c = 1..(Len(s) + Len(t)) /\ Len(c) = Len(s) + Len(t)
         /\ \A i \in 1..Len(s) : c[i] = s[i]
         /\ \A i \in 1..Len(t) : c[Len(s) + i] = t[i]
OBVIOUS

\* The commands of the program, step by step.
LEMMA ProgramIs ==
  /\ \A s \in {Program.attach} : /\ DOMAIN s = 1..4 /\ Len(s) = 4 /\ s[1] = "lock" /\ s[2] = "read" /\ s[3] = "store" /\ s[4] = "write"
  /\ \A s \in {Program.enable, Program.rollback} :
       DOMAIN s = 1..4 /\ Len(s) = 4 /\ s[1] = "lock" /\ s[2] = "read" /\ s[3] = "verify" /\ s[4] = "write"
  /\ \A s \in {Program.disable, Program.remove} : DOMAIN s = 1..3 /\ Len(s) = 3 /\ s[1] = "lock" /\ s[2] = "read" /\ s[3] = "write"
  /\ \A s \in {Program.switch} :
       /\ DOMAIN s = 1..6 /\ Len(s) = 6 /\ s[1] = "initial" /\ s[2] = "lock" /\ s[3] = "read"
       /\ s[4] = "verify" /\ s[5] = "store" /\ s[6] = "write"
  /\ \A s \in {Program.preview} :
       /\ DOMAIN s = 1..7 /\ Len(s) = 7 /\ s[1] = "lock" /\ s[2] = "found" /\ s[3] = "restore" /\ s[4] = "unplan" /\ s[5] = "rmdir"
       /\ s[6] = "recovered" /\ s[7] = "plan"
  /\ \A s \in {Program.cleanup} :
       /\ DOMAIN s = 1..15 /\ Len(s) = 15 /\ s[1] = "lock" /\ s[2] = "found" /\ s[3] = "restore" /\ s[4] = "unplan" /\ s[5] = "rmdir"
       /\ s[6] = "recovered" /\ s[7] = "plan" /\ s[8] = "mkdir" /\ s[9] = "planfile" /\ s[10] = "move" /\ s[11] = "recheck"
       /\ s[12] = "delete" /\ s[13] = "unplan" /\ s[14] = "rmdir" /\ s[15] = "pass"
  /\ \A s \in {Program.unmove} : DOMAIN s = 1..3 /\ Len(s) = 3 /\ s[1] = "restore" /\ s[2] = "unplan" /\ s[3] = "rmdir"
  /\ \A s \in {Program.undelete} :
       DOMAIN s = 1..4 /\ Len(s) = 4 /\ s[1] = "restore" /\ s[2] = "unplan" /\ s[3] = "rmdir" /\ s[4] = "partial"
<1>1. Program.attach = <<"lock", "read">> \o Storing /\ Program.switch = <<"initial", "lock", "read", "verify">> \o Storing
  BY DEF Program
<1>2. Program.preview = <<"lock">> \o Recovery \o <<"plan">>
  BY DEF Program
<1>3. Program.cleanup =
        <<"lock">> \o Recovery \o <<"plan", "mkdir", "planfile", "move", "recheck", "delete", "unplan", "rmdir", "pass">>
  BY DEF Program
<1>4. Program.unmove = Undo /\ Program.undelete = Undo \o <<"partial">>
  BY DEF Program
<1>5. /\ Program.enable = <<"lock", "read", "verify", "write">> /\ Program.rollback = <<"lock", "read", "verify", "write">>
      /\ Program.disable = <<"lock", "read", "write">> /\ Program.remove = <<"lock", "read", "write">>
  BY DEF Program
<1>6. PICK r : r = <<"lock">> \o Recovery
  OBVIOUS
<1>7. /\ r \in Seq(StepNames) /\ Len(r) = 6 /\ r[1] = "lock" /\ r[2] = "found" /\ r[3] = "restore" /\ r[4] = "unplan" /\ r[5] = "rmdir"
      /\ r[6] = "recovered"
  <2>1. r \in Seq(StepNames)
    <3>1. <<"lock">> \in Seq(StepNames) /\ Recovery \in Seq(StepNames)
      BY DEF Recovery, StepNames
    <3>2. QED
      BY <1>6, <3>1
  <2>2. /\ Len(r) = 6 /\ r[1] = "lock" /\ r[2] = "found" /\ r[3] = "restore" /\ r[4] = "unplan" /\ r[5] = "rmdir"
        /\ r[6] = "recovered"
    BY <1>6 DEF Recovery
  <2>3. QED
    BY <2>1, <2>2
<1>8. PICK a : a = Program.attach
  OBVIOUS
<1>9. DOMAIN a = 1..4 /\ Len(a) = 4 /\ a[1] = "lock" /\ a[2] = "read" /\ a[3] = "store" /\ a[4] = "write"
  BY <1>1, <1>8 DEF Storing
<1>10. PICK w : w = Program.switch
  OBVIOUS
<1>11. /\ DOMAIN w = 1..6 /\ Len(w) = 6 /\ w[1] = "initial" /\ w[2] = "lock" /\ w[3] = "read"
       /\ w[4] = "verify" /\ w[5] = "store" /\ w[6] = "write"
  BY <1>1, <1>10 DEF Storing
<1>12. PICK v : v = Program.preview
  OBVIOUS
<1>13. /\ DOMAIN v = 1..7 /\ Len(v) = 7 /\ v[1] = "lock" /\ v[2] = "found" /\ v[3] = "restore" /\ v[4] = "unplan" /\ v[5] = "rmdir"
       /\ v[6] = "recovered" /\ v[7] = "plan"
  BY <1>2, <1>6, <1>7, <1>12, SMTT(20)
<1>14. PICK c : c = Program.cleanup
  OBVIOUS
<1>15. /\ DOMAIN c = 1..15 /\ Len(c) = 15 /\ c[1] = "lock" /\ c[2] = "found" /\ c[3] = "restore" /\ c[4] = "unplan" /\ c[5] = "rmdir"
       /\ c[6] = "recovered" /\ c[7] = "plan" /\ c[8] = "mkdir" /\ c[9] = "planfile" /\ c[10] = "move" /\ c[11] = "recheck"
       /\ c[12] = "delete" /\ c[13] = "unplan" /\ c[14] = "rmdir" /\ c[15] = "pass"
  <2>1. PICK t : t = <<"plan", "mkdir", "planfile", "move", "recheck", "delete", "unplan", "rmdir", "pass">>
    OBVIOUS
  <2> t \in Seq(StepNames)
    BY <2>1 DEF StepNames
  <2>2. /\ t \in Seq(StepNames) /\ Len(t) = 9 /\ t[1] = "plan" /\ t[2] = "mkdir" /\ t[3] = "planfile" /\ t[4] = "move"
        /\ t[5] = "recheck" /\ t[6] = "delete" /\ t[7] = "unplan" /\ t[8] = "rmdir" /\ t[9] = "pass"
    BY <2>1
  <2>3. c = r \o t
    BY <1>3, <1>6, <1>14, <2>1
  <2>4. /\ DOMAIN c = 1..15 /\ Len(c) = 15
        /\ \A i \in 1..6 : c[i] = r[i]
        /\ \A i \in 1..9 : c[6 + i] = t[i]
    <3>1. r \in Seq(StepNames)
      BY <1>7
    <3>2. t \in Seq(StepNames)
      BY <2>2
    <3>3. /\ DOMAIN c = 1..(Len(r) + Len(t)) /\ Len(c) = Len(r) + Len(t)
          /\ \A i \in 1..Len(r) : c[i] = r[i]
          /\ \A i \in 1..Len(t) : c[Len(r) + i] = t[i]
      BY ONLY <2>3, <3>1, <3>2
    <3>4. Len(r) = 6 /\ Len(t) = 9 /\ 6 + 9 = 15
      BY <1>7, <2>2
    <3>5. QED
      BY ONLY <3>3, <3>4
  <2>5. c[6 + 1] = t[1] /\ c[6 + 2] = t[2] /\ c[6 + 3] = t[3] /\ c[6 + 4] = t[4] /\ c[6 + 5] = t[5] /\ c[6 + 6] = t[6]
    BY ONLY <2>4
  <2>6. c[6 + 7] = t[7] /\ c[6 + 8] = t[8] /\ c[6 + 9] = t[9]
    BY ONLY <2>4
  <2>7. c[1] = r[1] /\ c[2] = r[2] /\ c[3] = r[3] /\ c[4] = r[4] /\ c[5] = r[5] /\ c[6] = r[6]
    BY ONLY <2>4
  <2>8. /\ c[7] = "plan" /\ c[8] = "mkdir" /\ c[9] = "planfile" /\ c[10] = "move" /\ c[11] = "recheck"
        /\ c[12] = "delete" /\ c[13] = "unplan" /\ c[14] = "rmdir" /\ c[15] = "pass"
    BY ONLY <2>2, <2>5, <2>6
  <2>9. QED
    BY <1>7, <2>4, <2>7, <2>8
<1>16. PICK u : u = Program.undelete
  OBVIOUS
<1>17. DOMAIN u = 1..4 /\ Len(u) = 4 /\ u[1] = "restore" /\ u[2] = "unplan" /\ u[3] = "rmdir" /\ u[4] = "partial"
  BY <1>4, <1>16 DEF Undo
<1>18. QED
  BY <1>4, <1>5, <1>8, <1>9, <1>10, <1>11, <1>12, <1>13, <1>14, <1>15, <1>16, <1>17 DEF Undo

\* The commands, and the two ways a cleanup that failed is undone.
Commands == {"attach", "enable", "disable", "switch", "rollback", "remove", "preview", "cleanup", "unmove", "undelete"}

\* The places of each step in the commands.
LEMMA Places ==
  ASSUME NEW c \in Commands, NEW i \in DOMAIN Program[c]
  PROVE  LET line == Program[c][i] IN
         /\ i \in 1..15
         /\ line = "initial" => c = "switch" /\ i = 1
         /\ line = "lock" => (c = "switch" /\ i = 2) \/ (c \notin {"switch", "unmove", "undelete"} /\ i = 1)
         /\ line = "read" => (c = "switch" /\ i = 3) \/ (c \in {"attach", "enable", "disable", "rollback", "remove"} /\ i = 2)
         /\ line = "verify" => (c = "switch" /\ i = 4) \/ (c \in {"enable", "rollback"} /\ i = 3)
         /\ line = "store" => (c = "switch" /\ i = 5) \/ (c = "attach" /\ i = 3)
         /\ line = "write" =>
              (c = "switch" /\ i = 6) \/ (c \in {"attach", "enable", "rollback"} /\ i = 4) \/ (c \in {"disable", "remove"} /\ i = 3)
         /\ line = "found" => c \in {"preview", "cleanup"} /\ i = 2
         /\ line = "restore" => (c \in {"preview", "cleanup"} /\ i = 3) \/ (c \in {"unmove", "undelete"} /\ i = 1)
         /\ line = "unplan" =>
              (c \in {"preview", "cleanup"} /\ i = 4) \/ (c = "cleanup" /\ i = 13) \/ (c \in {"unmove", "undelete"} /\ i = 2)
         /\ line = "rmdir" =>
              (c \in {"preview", "cleanup"} /\ i = 5) \/ (c = "cleanup" /\ i = 14) \/ (c \in {"unmove", "undelete"} /\ i = 3)
         /\ line = "recovered" => c \in {"preview", "cleanup"} /\ i = 6
         /\ line = "plan" => c \in {"preview", "cleanup"} /\ i = 7
         /\ line = "mkdir" => c = "cleanup" /\ i = 8
         /\ line = "planfile" => c = "cleanup" /\ i = 9
         /\ line = "move" => c = "cleanup" /\ i = 10
         /\ line = "recheck" => c = "cleanup" /\ i = 11
         /\ line = "delete" => c = "cleanup" /\ i = 12
         /\ line = "pass" => c = "cleanup" /\ i = 15
         /\ line = "partial" => c = "undelete" /\ i = 4
<1>1. PICK s : s = Program[c]
  OBVIOUS
<1>2. CASE c = "attach"
  <2>1. DOMAIN s = 1..4 /\ s[1] = "lock" /\ s[2] = "read" /\ s[3] = "store" /\ s[4] = "write"
    BY <1>1, <1>2, ProgramIs
  <2>2. i \in {1, 2, 3, 4}
    BY <1>1, <2>1
  <2>3. QED
    BY <1>1, <1>2, <2>1, <2>2
<1>3. CASE c \in {"enable", "rollback"}
  <2>1. DOMAIN s = 1..4 /\ s[1] = "lock" /\ s[2] = "read" /\ s[3] = "verify" /\ s[4] = "write"
    BY <1>1, <1>3, ProgramIs
  <2>2. i \in {1, 2, 3, 4}
    BY <1>1, <2>1
  <2>3. QED
    BY <1>1, <1>3, <2>1, <2>2
<1>4. CASE c \in {"disable", "remove"}
  <2>1. DOMAIN s = 1..3 /\ s[1] = "lock" /\ s[2] = "read" /\ s[3] = "write"
    BY <1>1, <1>4, ProgramIs
  <2>2. i \in {1, 2, 3}
    BY <1>1, <2>1
  <2>3. QED
    BY <1>1, <1>4, <2>1, <2>2
<1>5. CASE c = "switch"
  <2>1. /\ DOMAIN s = 1..6 /\ s[1] = "initial" /\ s[2] = "lock" /\ s[3] = "read"
        /\ s[4] = "verify" /\ s[5] = "store" /\ s[6] = "write"
    BY <1>1, <1>5, ProgramIs
  <2>2. i \in {1, 2, 3, 4, 5, 6}
    BY <1>1, <2>1
  <2>3. QED
    BY <1>1, <1>5, <2>1, <2>2
<1>6. CASE c = "preview"
  <2>1. /\ DOMAIN s = 1..7 /\ s[1] = "lock" /\ s[2] = "found" /\ s[3] = "restore" /\ s[4] = "unplan" /\ s[5] = "rmdir"
        /\ s[6] = "recovered" /\ s[7] = "plan"
    BY <1>1, <1>6, ProgramIs
  <2>2. i \in {1, 2, 3, 4, 5, 6, 7}
    BY <1>1, <2>1
  <2>3. QED
    BY <1>1, <1>6, <2>1, <2>2
<1>7. CASE c = "cleanup"
  <2>1. /\ DOMAIN s = 1..15 /\ s[1] = "lock" /\ s[2] = "found" /\ s[3] = "restore" /\ s[4] = "unplan" /\ s[5] = "rmdir"
        /\ s[6] = "recovered" /\ s[7] = "plan" /\ s[8] = "mkdir" /\ s[9] = "planfile" /\ s[10] = "move" /\ s[11] = "recheck"
        /\ s[12] = "delete" /\ s[13] = "unplan" /\ s[14] = "rmdir" /\ s[15] = "pass"
    BY <1>1, <1>7, ProgramIs
  <2>2. i \in {1, 2, 3, 4, 5, 6, 7} \/ i \in {8, 9, 10, 11, 12, 13, 14, 15}
    BY <1>1, <2>1
  <2>3. CASE i \in {1, 2, 3, 4, 5, 6, 7}
    BY <1>1, <1>7, <2>1, <2>3
  <2>4. CASE i \in {8, 9, 10, 11, 12, 13, 14, 15}
    BY <1>1, <1>7, <2>1, <2>4
  <2>5. QED
    BY <2>2, <2>3, <2>4
<1>8. CASE c = "unmove"
  <2>1. DOMAIN s = 1..3 /\ s[1] = "restore" /\ s[2] = "unplan" /\ s[3] = "rmdir"
    BY <1>1, <1>8, ProgramIs
  <2>2. i \in {1, 2, 3}
    BY <1>1, <2>1
  <2>3. QED
    BY <1>1, <1>8, <2>1, <2>2
<1>9. CASE c = "undelete"
  <2>1. DOMAIN s = 1..4 /\ s[1] = "restore" /\ s[2] = "unplan" /\ s[3] = "rmdir" /\ s[4] = "partial"
    BY <1>1, <1>9, ProgramIs
  <2>2. i \in {1, 2, 3, 4}
    BY <1>1, <2>1
  <2>3. QED
    BY <1>1, <1>9, <2>1, <2>2
<1>10. QED
  BY <1>2, <1>3, <1>4, <1>5, <1>6, <1>7, <1>8, <1>9 DEF Commands

(***************************************************************************)
(* The types.                                                              *)
(***************************************************************************)

AttachmentType == [asset : Digest, on : BOOLEAN, history : Seq(Digest)]

\* The records: attachments by id.
Maps == UNION {[S -> AttachmentType] : S \in SUBSET Nat}

\* What a preview offers.
Plans == [record : Maps, eligible : SUBSET Digest]

\* A staging directory: whether its plan is written, and what was moved into it.
Boxes == [written : BOOLEAN, files : SUBSET Digest]

\* Where a process stands with the lock: not there, blocked by it, taking it over, holding it, giving it up.
LockStates == {"out", "blocked", "stealing", "in", "leaving"}

\* A process and what it remembers.
Jobs == [pid : Nat, command : Commands \union {"none"}, at : Nat, lk : LockStates, arg : Digest \union {None}, id : Nat,
         was : AttachmentType \union Plans \union {None}, seen : Maps \union {None}, plan : Plans \union {None},
         todo : SUBSET Digest, moved : SUBSET Digest, deleted : SUBSET Digest, restored : SUBSET Digest]

\* A map of attachments is a function into them.
LEMMA MapIs ==
  ASSUME NEW f \in Maps
  PROVE  DOMAIN f \subseteq Nat /\ f \in [DOMAIN f -> AttachmentType]
<1>1. PICK S \in SUBSET Nat : f \in [S -> AttachmentType]
  BY DEF Maps
<1>2. QED
  BY <1>1

\* A function from numbers to attachments is a map of them.
LEMMA IsMap ==
  ASSUME NEW S, S \subseteq Nat, NEW f \in [S -> AttachmentType]
  PROVE  f \in Maps
BY DEF Maps

\* The empty record is a map.
LEMMA NoMap == <<>> \in Maps /\ DOMAIN <<>> = {}
<1>1. <<>> \in [{} -> AttachmentType]
  OBVIOUS
<1>2. {} \in SUBSET Nat
  OBVIOUS
<1>3. QED
  BY <1>1, <1>2 DEF Maps

\* What a process without a command remembers: nothing.
LEMMA IdleIs ==
  /\ Idle \in Jobs /\ Idle.pid = 0 /\ Idle.command = "none" /\ Idle.at = 0 /\ Idle.lk = "out" /\ Idle.arg = None /\ Idle.id = 0
  /\ Idle.was = None /\ Idle.seen = None /\ Idle.plan = None /\ Idle.todo = {} /\ Idle.moved = {} /\ Idle.deleted = {}
  /\ Idle.restored = {}
BY DEF Idle, Jobs, LockStates

\* A process goes on with what it has in memory.
LEMMA WentOn ==
  ASSUME job \in [Proc -> Jobs], NEW p \in Proc, NEW with \in Jobs, Goes(p, with)
  PROVE  LET j == job'[p] IN
         /\ job' \in [Proc -> Jobs] /\ \A q \in Proc \ {p} : job'[q] = job[q]
         /\ j \in Jobs /\ j.at = with.at + 1 /\ j.pid = with.pid /\ j.command = with.command /\ j.lk = with.lk /\ j.arg = with.arg
         /\ j.id = with.id /\ j.was = with.was /\ j.seen = with.seen /\ j.plan = with.plan /\ j.todo = with.todo
         /\ j.moved = with.moved /\ j.deleted = with.deleted /\ j.restored = with.restored
<1>1. PICK w : w = [with EXCEPT !.at = @ + 1]
  OBVIOUS
<1>2. /\ w \in Jobs /\ w.at = with.at + 1 /\ w.pid = with.pid /\ w.command = with.command /\ w.lk = with.lk /\ w.arg = with.arg
      /\ w.id = with.id /\ w.was = with.was /\ w.seen = with.seen /\ w.plan = with.plan /\ w.todo = with.todo
      /\ w.moved = with.moved /\ w.deleted = with.deleted /\ w.restored = with.restored
  BY <1>1 DEF Jobs
<1>3. job' = [job EXCEPT ![p] = w]
  BY <1>1 DEF Goes
<1>4. job' \in [Proc -> Jobs] /\ job'[p] = w /\ \A q \in Proc \ {p} : job'[q] = job[q]
  BY <1>2, <1>3
<1>5. QED
  BY <1>2, <1>4

(***************************************************************************)
(* What a process has in memory, and what it knows of the files while      *)
(* nobody has lost a lock.                                                 *)
(***************************************************************************)

\* The attachments of a record, none if there is no file.
Recorded(rec) == IF rec = None THEN <<>> ELSE rec

\* A command that changes the record has read it.
ReadDone(j) ==
  \/ j.command \in {"attach", "enable", "disable", "rollback", "remove"} /\ j.at \in {3, 4}
  \/ j.command = "switch" /\ j.at \in {4, 5, 6}

\* The record has been read and not been written back.
Unwritten(j) == ReadDone(j) /\ ~(j.command \in {"disable", "remove"} /\ j.at = 4)

\* A cleanup from its plan to its report.
IsCleaning(j) == j.command = "cleanup" /\ j.at \in {8, 9, 10, 11, 12, 13, 14, 15}

\* A cleanup that failed at a deletion and puts the rest back.
IsUndoing(j) == j.command = "undelete" /\ j.at \in {1, 2, 3, 4}

\* The memory of a process by itself: what it was started with, and how far it is.
MemoryFits(j, offered) ==
  /\ j.pid = 0 \/ j.command = "none" => j = Idle
  /\ j.command \in {"attach", "switch"} => j.arg \in Digest
  /\ ReadDone(j) =>
       /\ j.seen \in Maps /\ (j.command # "attach" => j.id \in DOMAIN j.seen)
       /\ j.command = "switch" => j.seen[j.id] = j.was
       /\ j.command = "rollback" => j.seen[j.id].history # <<>>
  /\ j.command = "cleanup" => j.was \in offered
  /\ IsCleaning(j) => j.plan = j.was /\ j.todo \subseteq j.plan.eligible /\ j.moved \subseteq j.plan.eligible /\ j.restored = {}
  /\ j.command = "cleanup" /\ j.at \in {1, 2, 3, 4, 5, 6, 7} => j.moved = {}
  /\ j.command = "cleanup" /\ j.at \in {1, 2, 7} => j.deleted = {} /\ j.restored = {}

\* A cleanup accounts for the snapshots of its plan, none of which the record refers to.
Cleaning(j, rec, st, sg) ==
  LET e == j.plan.eligible
      files == sg[j.plan].files
  IN /\ rec = j.plan.record /\ e \intersect Referenced(rec) = {}
     /\ j.at \in {8, 9} => j.todo = e /\ j.moved = {}
     /\ j.at \in {8, 9, 10, 11} => j.deleted = {}
     /\ j.at \in {9, 10, 11, 12} => j.plan \in DOMAIN sg
     /\ j.at \in {9, 10, 11} => files = j.moved
     /\ j.at = 10 => j.todo \union j.moved = e /\ j.moved \intersect st = {}
     /\ j.at \in {11, 12} => j.moved = e
     /\ j.at \in {11, 12, 13, 14, 15} => e \intersect st = {}
     /\ j.at = 12 => files = e \ j.deleted /\ j.todo = e \ j.deleted /\ j.deleted \subseteq e
     /\ j.at \in {13, 14, 15} => j.deleted = e

\* While a cleanup that failed at a deletion is undone: what was deleted stays gone, what was put back is stored.
Undoing(j, st, sg) ==
  LET e == j.plan.eligible
      files == sg[j.plan].files
  IN /\ j.deleted \intersect st = {} /\ j.restored \subseteq st
     /\ j.at = 1 => /\ j.plan \in DOMAIN sg /\ files = e \ (j.deleted \union j.restored)
                    /\ j.todo = e \ j.restored /\ j.deleted \subseteq e /\ j.restored \subseteq e
     /\ j.at \in {2, 3, 4} => j.deleted \union j.restored = e

\* What a process that holds the lock knows.
Knows(j, rec, st, sg) ==
  j.lk = "in" =>
    /\ Unwritten(j) => j.seen = Recorded(rec)
    /\ (j.command = "attach" /\ j.at = 4) \/ (j.command = "switch" /\ j.at = 6) => j.arg \in st
    /\ IsCleaning(j) => Cleaning(j, rec, st, sg)
    /\ IsUndoing(j) => Undoing(j, st, sg)

\* Every snapshot the record refers to is in the store.
Stored(rec, st) == Referenced(Recorded(rec)) \subseteq st

\* The types of what is on the disk.
FilesTyped ==
  /\ record \in Maps \union {None} /\ store \subseteq Digest
  /\ DOMAIN staging \subseteq Plans /\ staging \in [DOMAIN staging -> Boxes] /\ previews \subseteq Plans

\* The types, and that what a process remembers fits where it stands.
WorkspaceTyped ==
  /\ job \in [Proc -> Jobs] /\ FilesTyped /\ lock \in Nat /\ runs \in Nat /\ broken \in BOOLEAN
  /\ \A p \in Proc : MemoryFits(job[p], previews)

\* A process has a pid of its own.
PidsAreOwn ==
  /\ lock <= runs
  /\ \A p \in Proc : job[p].pid <= runs /\ \A q \in Proc : job[p].pid # 0 /\ job[q].pid = job[p].pid => p = q

\* Until a live process loses its lock, the lock names whoever is inside.
HolderIsNamed == \A p \in Proc : Inside(p) => lock = job[p].pid

\* What the process inside the lock remembers is true of the disk.
ProcessesKnow == \A p \in Proc : Knows(job[p], record, store, staging)

\* Who has started and is not inside has a step to take.
WaitersArePlaced == \A p \in Proc : job[p].pid # 0 /\ ~Inside(p) => job[p].at \in DOMAIN Steps(p) /\ job[p].command # "none"

\* The inductive invariant: one process is inside the lock, and unless a lock was broken it knows the disk.
WorkspaceKnows ==
  WorkspaceTyped /\ PidsAreOwn /\ WaitersArePlaced /\ (~broken => HolderIsNamed /\ ProcessesKnow /\ Stored(record, store))

\* One is inside at a time.
LEMMA InsideIsOne ==
  ASSUME WorkspaceKnows, ~broken, NEW p \in Proc, NEW q \in Proc, Inside(p), Inside(q)
  PROVE  p = q
<1>1. lock = job[p].pid /\ lock = job[q].pid
  BY DEF WorkspaceKnows, HolderIsNamed
<1>2. job[p].pid # 0
  <2>1. MemoryFits(job[p], previews)
    BY DEF WorkspaceKnows, WorkspaceTyped
  <2>2. job[p].pid = 0 => job[p].lk = "out"
    BY <2>1, IdleIs DEF MemoryFits
  <2>3. QED
    BY <2>2 DEF Inside
<1>3. QED
  BY <1>1, <1>2 DEF WorkspaceKnows, PidsAreOwn

\* Who takes a step of its command is inside the lock, at that place of the program.
LEMMA AtPlace ==
  ASSUME WorkspaceTyped, NEW p \in Proc, NEW line, At(p, line)
  PROVE  /\ job[p] \in Jobs /\ job[p].lk = "in" /\ job[p].command \in Commands /\ job[p].at \in DOMAIN Program[job[p].command]
         /\ Program[job[p].command][job[p].at] = line /\ MemoryFits(job[p], previews)
<1>1. job[p] \in Jobs /\ MemoryFits(job[p], previews)
  BY DEF WorkspaceTyped
<1>2. job[p].lk = "in" /\ job[p].at \in DOMAIN Program[job[p].command] /\ Program[job[p].command][job[p].at] = line
  BY DEF At, Steps
<1>3. job[p].command # "none"
  <2>1. job[p].command = "none" => job[p].lk = "out"
    BY <1>1, IdleIs DEF MemoryFits
  <2>2. QED
    BY <1>2, <2>1
<1>4. QED
  BY <1>1, <1>2, <1>3 DEF Jobs

\* What a step inside the lock leaves.
Proceeds(p) ==
  /\ job' \in [Proc -> Jobs] /\ \A q \in Proc \ {p} : job'[q] = job[q]
  /\ job[p].lk = "in" /\ job'[p].lk = "in" /\ job'[p].pid = job[p].pid
  /\ MemoryFits(job'[p], previews') /\ previews \subseteq previews' /\ FilesTyped'
  /\ UNCHANGED <<lock, runs, broken>>
  /\ Knows(job[p], record, store, staging) /\ Stored(record, store) =>
       Knows(job'[p], record', store', staging') /\ Stored(record', store')

\* A memory still fits when more plans have been offered.
LEMMA Offered ==
  ASSUME NEW j, NEW offered, NEW more, offered \subseteq more, MemoryFits(j, offered)
  PROVE  MemoryFits(j, more)
BY DEF MemoryFits

\* A step inside the lock that does what Proceeds allows keeps the invariant, also for the processes that wait.
LEMMA InsideStep ==
  ASSUME WorkspaceKnows, NEW p \in Proc, Proceeds(p)
  PROVE  WorkspaceKnows'
<1>1. WorkspaceTyped'
  <2>1. \A q \in Proc : MemoryFits(job'[q], previews')
    <3>1. ASSUME NEW q \in Proc, q # p PROVE MemoryFits(job'[q], previews')
      <4>1. MemoryFits(job[q], previews) /\ job'[q] = job[q] /\ previews \subseteq previews'
        BY <3>1 DEF Proceeds, WorkspaceKnows, WorkspaceTyped
      <4>2. QED
        BY <4>1, Offered
    <3>2. QED
      BY <3>1 DEF Proceeds
  <2>2. lock \in Nat /\ runs \in Nat /\ broken \in BOOLEAN
    BY DEF WorkspaceKnows, WorkspaceTyped
  <2>3. QED
    BY <2>1, <2>2 DEF Proceeds, WorkspaceTyped
<1>2. PidsAreOwn'
  BY DEF Proceeds, WorkspaceKnows, PidsAreOwn
<1>3. WaitersArePlaced'
  <2>1. ASSUME NEW q \in Proc, job'[q].pid # 0, ~Inside(q)' PROVE job'[q].at \in DOMAIN Program[job'[q].command] /\ job'[q].command # "none"
    <3>1. q # p /\ job'[q] = job[q] /\ ~Inside(q)
      BY <2>1 DEF Proceeds, Inside
    <3>2. QED
      BY <2>1, <3>1 DEF WorkspaceKnows, WaitersArePlaced, Steps
  <2>2. QED
    BY <2>1 DEF WaitersArePlaced, Steps
<1>4. ASSUME ~broken' PROVE HolderIsNamed' /\ ProcessesKnow' /\ Stored(record, store)'
  <2>1. ~broken
    BY <1>4 DEF Proceeds
  <2>2. HolderIsNamed /\ Knows(job[p], record, store, staging) /\ Stored(record, store)
    BY <2>1 DEF WorkspaceKnows, ProcessesKnow
  <2>3. HolderIsNamed'
    BY <2>2 DEF Proceeds, HolderIsNamed, Inside
  <2>4. Knows(job'[p], record', store', staging') /\ Stored(record', store')
    BY <2>2 DEF Proceeds
  <2>5. ASSUME NEW q \in Proc, q # p PROVE Knows(job'[q], record', store', staging')
    <3>1. job[q].lk # "in"
      <4>1. Inside(p)
        BY DEF Proceeds, Inside
      <4>2. ~Inside(q)
        BY <2>1, <2>5, <4>1, InsideIsOne
      <4>3. QED
        BY <4>2 DEF Inside
    <3>2. job'[q] = job[q]
      BY <2>5 DEF Proceeds
    <3>3. QED
      BY <3>1, <3>2 DEF Knows
  <2>6. QED
    BY <2>3, <2>4, <2>5 DEF ProcessesKnow
<1>5. QED
  BY <1>1, <1>2, <1>3, <1>4 DEF WorkspaceKnows

(***************************************************************************)
(* The steps that change the record.                                       *)
(***************************************************************************)

\* A process with a command has a pid.
LEMMA HasPid ==
  ASSUME NEW j, NEW offered, MemoryFits(j, offered), j.command # "none"
  PROVE  j.pid # 0
BY IdleIs DEF MemoryFits

\* Reading the record.
LEMMA ReadFile ==
  ASSUME WorkspaceTyped, NEW p \in Proc, Read(p)
  PROVE  Proceeds(p)
<1> DEFINE j == job[p]
<1>1. /\ j \in Jobs /\ j.lk = "in" /\ j.command \in Commands /\ j.at \in DOMAIN Program[j.command]
      /\ Program[j.command][j.at] = "read" /\ MemoryFits(j, previews)
  BY AtPlace DEF Read
<1>2. (j.command = "switch" /\ j.at = 3) \/ (j.command \in {"attach", "enable", "disable", "rollback", "remove"} /\ j.at = 2)
  BY <1>1, Places
<1>3. UNCHANGED <<lock, record, store, staging, receipt, previews, runs, crashes, broken>>
  BY DEF Read
<1>4. FilesTyped /\ job \in [Proc -> Jobs]
  BY DEF WorkspaceTyped
<1>5. PICK seen : seen = Recorded(record)
  OBVIOUS
<1>6. seen \in Maps
  <2>1. CASE record = None
    BY <1>5, <2>1, NoMap DEF Recorded
  <2>2. CASE record # None
    BY <1>4, <1>5, <2>2 DEF Recorded, FilesTyped
  <2>3. QED
    BY <2>1, <2>2
<1>7. PICK w : w = [j EXCEPT !.seen = seen]
  OBVIOUS
<1>8. Goes(p, w)
  BY <1>5, <1>7 DEF Read, Recorded
<1>9. w \in Jobs /\ w.at = j.at /\ w.pid = j.pid /\ w.command = j.command /\ w.lk = j.lk /\ w.arg = j.arg /\ w.id = j.id /\ w.was = j.was
      /\ w.seen = seen
  BY <1>1, <1>6, <1>7 DEF Jobs
<1>10. PICK n : n = job'[p]
  OBVIOUS
<1>11. /\ job' \in [Proc -> Jobs] /\ \A q \in Proc \ {p} : job'[q] = job[q]
       /\ n.at = j.at + 1 /\ n.pid = j.pid /\ n.command = j.command /\ n.lk = "in" /\ n.arg = j.arg /\ n.id = j.id /\ n.was = j.was
       /\ n.seen = seen
  BY <1>1, <1>4, <1>8, <1>9, <1>10, WentOn
<1>12. n.command # "attach" => n.id \in DOMAIN seen /\ seen = record
  <2>1. ASSUME j.command # "attach" PROVE j.id \in Ids
    BY <2>1 DEF Read
  <2>2. QED
    BY <1>5, <1>11, <2>1 DEF Ids, Recorded
<1>13. n.command = "switch" => seen[n.id] = n.was
  BY <1>11, <1>12 DEF Read, IsBound
<1>14. n.command = "rollback" => seen[n.id].history # <<>>
  BY <1>11, <1>12 DEF Read
<1>15. n.pid # 0 /\ n.command # "none"
  BY <1>1, <1>2, <1>11, HasPid
<1>16. n.command \in {"attach", "switch"} => n.arg \in Digest
  BY <1>1, <1>11 DEF MemoryFits
<1>17. n.command # "cleanup" /\ n.command # "undelete" /\ (n.command = "switch" => n.at = 4) /\ (n.command = "attach" => n.at = 3)
  BY <1>2, <1>11
<1>18. MemoryFits(n, previews')
  BY <1>6, <1>11, <1>12, <1>13, <1>14, <1>15, <1>16, <1>17 DEF MemoryFits, IsCleaning
<1>19. FilesTyped'
  BY <1>3, <1>4 DEF FilesTyped
<1>20. Knows(n, record', store', staging')
  BY <1>3, <1>5, <1>11, <1>17 DEF Knows, IsCleaning, IsUndoing
<1>21. QED
  BY <1>1, <1>3, <1>10, <1>11, <1>18, <1>19, <1>20 DEF Proceeds

\* Verifying the snapshots of the attachment that becomes active.
LEMMA VerifyAssets ==
  ASSUME WorkspaceTyped, NEW p \in Proc, Verify(p)
  PROVE  Proceeds(p)
<1> DEFINE j == job[p]
<1>1. /\ j \in Jobs /\ j.lk = "in" /\ j.command \in Commands /\ j.at \in DOMAIN Program[j.command]
      /\ Program[j.command][j.at] = "verify" /\ MemoryFits(j, previews)
  BY AtPlace DEF Verify
<1>2. (j.command = "switch" /\ j.at = 4) \/ (j.command \in {"enable", "rollback"} /\ j.at = 3)
  BY <1>1, Places
<1>3. UNCHANGED <<lock, record, store, staging, receipt, previews, runs, crashes, broken>> /\ Goes(p, j)
  BY DEF Verify
<1>4. FilesTyped /\ job \in [Proc -> Jobs]
  BY DEF WorkspaceTyped
<1>5. PICK n : n = job'[p]
  OBVIOUS
<1>6. /\ job' \in [Proc -> Jobs] /\ \A q \in Proc \ {p} : job'[q] = job[q]
      /\ n.at = j.at + 1 /\ n.pid = j.pid /\ n.command = j.command /\ n.lk = "in" /\ n.arg = j.arg /\ n.id = j.id /\ n.was = j.was
      /\ n.seen = j.seen
  BY <1>1, <1>3, <1>4, <1>5, WentOn
<1>7. ReadDone(j) /\ Unwritten(j)
  BY <1>2 DEF ReadDone, Unwritten
<1>8. n.pid # 0 /\ n.command # "none"
  BY <1>1, <1>2, <1>6, HasPid
<1>9. n.command \notin {"cleanup", "undelete", "attach"} /\ (n.command = "switch" => n.at = 5)
  BY <1>2, <1>6
<1>10. MemoryFits(n, previews')
  BY <1>1, <1>3, <1>6, <1>7, <1>8, <1>9 DEF MemoryFits, IsCleaning
<1>11. FilesTyped'
  BY <1>3, <1>4 DEF FilesTyped
<1>12. Knows(j, record, store, staging) => Knows(n, record', store', staging')
  BY <1>1, <1>3, <1>6, <1>7, <1>9 DEF Knows, IsCleaning, IsUndoing
<1>13. QED
  BY <1>1, <1>3, <1>5, <1>6, <1>10, <1>11, <1>12 DEF Proceeds

\* A snapshot is stored before the record refers to it.
LEMMA StoreSnapshot ==
  ASSUME WorkspaceTyped, NEW p \in Proc, Store(p)
  PROVE  Proceeds(p)
<1> DEFINE j == job[p]
<1>1. /\ j \in Jobs /\ j.lk = "in" /\ j.command \in Commands /\ j.at \in DOMAIN Program[j.command]
      /\ Program[j.command][j.at] = "store" /\ MemoryFits(j, previews)
  BY AtPlace DEF Store
<1>2. (j.command = "switch" /\ j.at = 5) \/ (j.command = "attach" /\ j.at = 3)
  BY <1>1, Places
<1>3. UNCHANGED <<lock, record, staging, receipt, previews, runs, crashes, broken>> /\ Goes(p, j) /\ store' = store \union {j.arg}
  BY DEF Store
<1>4. FilesTyped /\ job \in [Proc -> Jobs]
  BY DEF WorkspaceTyped
<1>5. PICK n : n = job'[p]
  OBVIOUS
<1>6. /\ job' \in [Proc -> Jobs] /\ \A q \in Proc \ {p} : job'[q] = job[q]
      /\ n.at = j.at + 1 /\ n.pid = j.pid /\ n.command = j.command /\ n.lk = "in" /\ n.arg = j.arg /\ n.id = j.id /\ n.was = j.was
      /\ n.seen = j.seen
  BY <1>1, <1>3, <1>4, <1>5, WentOn
<1>7. ReadDone(j) /\ Unwritten(j)
  BY <1>2 DEF ReadDone, Unwritten
<1>8. n.pid # 0 /\ n.command # "none" /\ j.arg \in Digest
  BY <1>1, <1>2, <1>6, HasPid DEF MemoryFits
<1>9. n.command \in {"switch", "attach"}
  BY <1>2, <1>6
<1>10. MemoryFits(n, previews')
  BY <1>1, <1>3, <1>6, <1>7, <1>8, <1>9 DEF MemoryFits, IsCleaning
<1>11. FilesTyped'
  BY <1>3, <1>4, <1>8 DEF FilesTyped
<1>12. Knows(j, record, store, staging) => Knows(n, record', store', staging')
  BY <1>1, <1>3, <1>6, <1>7, <1>9 DEF Knows, IsCleaning, IsUndoing
<1>13. Stored(record, store) => Stored(record', store')
  BY <1>3 DEF Stored
<1>14. QED
  BY <1>1, <1>3, <1>5, <1>6, <1>10, <1>11, <1>12, <1>13 DEF Proceeds

\* What an attachment uses, or would return to.
Uses(a) == {a.asset} \union Range(a.history)

\* An attachment rolled back uses nothing it did not use before.
LEMMA UsesOfReturned ==
  ASSUME NEW a \in AttachmentType, a.history # <<>>, NEW n, n = [a EXCEPT !.asset = Last(a.history), !.history = Front(a.history)]
  PROVE  n \in AttachmentType /\ Uses(n) \subseteq Uses(a)
<1>1. a.history \in Seq(Digest) /\ a.asset \in Digest
  BY DEF AttachmentType
<1>2. PICK h : h = Front(a.history)
  OBVIOUS
<1>3. PICK d : d = Last(a.history)
  OBVIOUS
<1>4. Len(a.history) \in DOMAIN a.history /\ d = a.history[Len(a.history)] /\ d \in Digest
  BY <1>1, <1>3 DEF Last
<1>5. /\ h \in Seq(Digest) /\ \A i \in DOMAIN h : i \in DOMAIN a.history /\ h[i] = a.history[i]
  BY <1>1, <1>2 DEF Front
<1>6. n = [a EXCEPT !.asset = d, !.history = h]
  BY <1>2, <1>3
<1>7. n \in AttachmentType /\ n.asset = d /\ n.history = h
  BY <1>1, <1>4, <1>5, <1>6 DEF AttachmentType
<1>8. QED
  BY <1>4, <1>5, <1>7 DEF Uses, Range

\* Enabling or disabling changes nothing an attachment uses.
LEMMA UsesOfSwitchedOn ==
  ASSUME NEW a \in AttachmentType, NEW b \in BOOLEAN, NEW n, n = [a EXCEPT !.on = b]
  PROVE  n \in AttachmentType /\ Uses(n) = Uses(a)
<1>1. n \in AttachmentType /\ n.asset = a.asset /\ n.history = a.history
  BY DEF AttachmentType
<1>2. QED
  BY <1>1 DEF Uses

\* A new attachment uses its digest.
LEMMA UsesOfNew ==
  ASSUME NEW d \in Digest
  PROVE  Attachment(d, <<>>) \in AttachmentType /\ Uses(Attachment(d, <<>>)) = {d}
<1>1. PICK n : n = Attachment(d, <<>>)
  OBVIOUS
<1>2. n \in AttachmentType /\ n.asset = d /\ n.history = <<>>
  BY <1>1 DEF Attachment, AttachmentType
<1>3. QED
  BY <1>1, <1>2 DEF Uses, Range

\* What a command writes: one attachment is another, which uses what is used already, or the stored snapshot.
LEMMA MutatedOnce ==
  ASSUME WorkspaceTyped, NEW p \in Proc, ReadDone(job[p])
  PROVE  LET j == job[p]
             m == Mutated(p)
         IN /\ m \in Maps
            /\ \A id \in DOMAIN m : Uses(m[id]) \subseteq Referenced(j.seen) \union (IF j.command \in {"attach", "switch"} THEN {j.arg} ELSE {})
            /\ \A id : id # j.id => /\ id \in DOMAIN m <=> id \in DOMAIN j.seen
                                    /\ id \in DOMAIN j.seen => m[id] = j.seen[id]
<1>1. PICK j : j = job[p]
  OBVIOUS
<1>2. /\ j \in Jobs /\ MemoryFits(j, previews) /\ ReadDone(j)
  BY <1>1 DEF WorkspaceTyped
<1>3. /\ j.seen \in Maps /\ (j.command # "attach" => j.id \in DOMAIN j.seen)
      /\ j.command = "rollback" => j.seen[j.id].history # <<>>
      /\ j.command \in {"attach", "switch"} => j.arg \in Digest
      /\ j.id \in Nat
  BY <1>2 DEF MemoryFits, Jobs
<1>4. PICK s : s = j.seen
  OBVIOUS
<1>5. DOMAIN s \subseteq Nat /\ s \in [DOMAIN s -> AttachmentType]
  BY <1>3, <1>4, MapIs
<1>6. \A id \in DOMAIN s : Uses(s[id]) \subseteq Referenced(s)
  BY DEF Uses, Referenced
<1>7. PICK m : m = Mutated(p)
  OBVIOUS
<1>8. PICK used : used = (IF j.command \in {"attach", "switch"} THEN {j.arg} ELSE {})
  OBVIOUS
<1>9. SUFFICES /\ m \in Maps
               /\ \A id \in DOMAIN m : Uses(m[id]) \subseteq Referenced(s) \union used
               /\ \A id : id # j.id => /\ id \in DOMAIN m <=> id \in DOMAIN s
                                       /\ id \in DOMAIN s => m[id] = s[id]
  BY <1>1, <1>4, <1>7, <1>8
<1>10. ASSUME NEW e \in AttachmentType, j.id \in DOMAIN s, m = [s EXCEPT ![j.id] = e], Uses(e) \subseteq Uses(s[j.id]) \union used
       PROVE  /\ m \in Maps
              /\ \A id \in DOMAIN m : Uses(m[id]) \subseteq Referenced(s) \union used
              /\ \A id : id # j.id => /\ id \in DOMAIN m <=> id \in DOMAIN s
                                      /\ id \in DOMAIN s => m[id] = s[id]
  <2>1. m \in [DOMAIN s -> AttachmentType] /\ m[j.id] = e /\ \A id \in DOMAIN s : id # j.id => m[id] = s[id]
    BY <1>5, <1>10
  <2>2. m \in Maps
    BY <1>5, <2>1, IsMap
  <2>3. Uses(s[j.id]) \subseteq Referenced(s)
    BY <1>6, <1>10
  <2>4. \A id \in DOMAIN m : Uses(m[id]) \subseteq Referenced(s) \union used
    BY <1>6, <1>10, <2>1, <2>3
  <2>5. QED
    BY <2>1, <2>2, <2>4
<1>11. CASE j.command \in {"enable", "disable"}
  <2>1. PICK b \in BOOLEAN : m = [s EXCEPT ![j.id].on = b]
    BY <1>1, <1>4, <1>7, <1>11 DEF Mutated
  <2>2. PICK e : e = [s[j.id] EXCEPT !.on = b]
    OBVIOUS
  <2>3. m = [s EXCEPT ![j.id] = e] /\ j.id \in DOMAIN s /\ s[j.id] \in AttachmentType
    BY <1>3, <1>4, <1>5, <1>11, <2>1, <2>2
  <2>4. e \in AttachmentType /\ Uses(e) = Uses(s[j.id])
    BY <2>2, <2>3, UsesOfSwitchedOn
  <2>5. QED
    BY <1>10, <2>3, <2>4
<1>12. CASE j.command = "switch"
  <2>1. PICK e : e = [s[j.id] EXCEPT !.asset = j.arg, !.history = Append(s[j.id].history, s[j.id].asset)]
    OBVIOUS
  <2>2. m = [s EXCEPT ![j.id] = e]
    BY <1>1, <1>4, <1>7, <1>12, <2>1 DEF Mutated
  <2>3. j.id \in DOMAIN s /\ s[j.id] \in AttachmentType /\ j.arg \in Digest /\ used = {j.arg}
    BY <1>3, <1>4, <1>5, <1>8, <1>12
  <2>4. e \in AttachmentType /\ Uses(e) \subseteq Uses(s[j.id]) \union used
    <3>1. PICK a \in AttachmentType : a = s[j.id]
      BY <2>3
    <3>2. PICK d \in Digest : d = j.arg
      BY <2>3
    <3>3. PICK h : h = Append(a.history, a.asset)
      OBVIOUS
    <3>4. e = [a EXCEPT !.asset = d, !.history = h]
      BY <2>1, <3>1, <3>2, <3>3
    <3>5. a.history \in Seq(Digest) /\ a.asset \in Digest
      BY ONLY <3>1 DEF AttachmentType
    <3>6. h \in Seq(Digest) /\ \A i \in DOMAIN h : h[i] = a.asset \/ (i \in DOMAIN a.history /\ h[i] = a.history[i])
      BY ONLY <3>3, <3>5
    <3>7. e \in AttachmentType /\ e.asset = d /\ e.history = h
      BY ONLY <3>1, <3>2, <3>4, <3>6 DEF AttachmentType
    <3>8. Uses(e) \subseteq Uses(a) \union {d}
      BY ONLY <3>6, <3>7 DEF Uses, Range
    <3>9. QED
      BY ONLY <2>3, <3>1, <3>2, <3>7, <3>8
  <2>5. QED
    BY <1>10, <2>2, <2>3, <2>4
<1>13. CASE j.command = "rollback"
  <2>1. PICK e : e = [s[j.id] EXCEPT !.asset = Last(s[j.id].history), !.history = Front(s[j.id].history)]
    OBVIOUS
  <2>2. m = [s EXCEPT ![j.id] = e]
    BY <1>1, <1>4, <1>7, <1>13, <2>1 DEF Mutated
  <2>3. j.id \in DOMAIN s /\ s[j.id] \in AttachmentType /\ s[j.id].history # <<>>
    BY <1>3, <1>4, <1>5, <1>13
  <2>4. e \in AttachmentType /\ Uses(e) \subseteq Uses(s[j.id])
    BY <2>1, <2>3, UsesOfReturned
  <2>5. QED
    BY <1>10, <2>2, <2>3, <2>4
<1>14. CASE j.command = "remove"
  <2>1. m = [id \in DOMAIN s \ {j.id} |-> s[id]]
    BY <1>1, <1>4, <1>7, <1>14 DEF Mutated
  <2>2. m \in [DOMAIN s \ {j.id} -> AttachmentType] /\ \A id \in DOMAIN s \ {j.id} : m[id] = s[id]
    BY <1>5, <2>1
  <2>3. m \in Maps
    BY <1>5, <2>2, IsMap
  <2>4. QED
    BY <1>6, <2>2, <2>3
<1>15. CASE j.command = "attach"
  <2>1. PICK e : e = Attachment(j.arg, <<>>)
    OBVIOUS
  <2>2. m = [id \in DOMAIN s \union {j.id} |-> IF id = j.id THEN Attachment(j.arg, <<>>) ELSE s[id]]
    BY <1>1, <1>4, <1>7, <1>15 DEF Mutated
  <2>3. m = [id \in DOMAIN s \union {j.id} |-> IF id = j.id THEN e ELSE s[id]]
    BY <2>1, <2>2
  <2>4. e \in AttachmentType /\ Uses(e) = {j.arg} /\ used = {j.arg}
    BY <1>3, <1>8, <1>15, <2>1, UsesOfNew
  <2>5. m \in [DOMAIN s \union {j.id} -> AttachmentType]
    BY <1>5, <2>3, <2>4
  <2>6. m[j.id] = e /\ \A id \in DOMAIN s : id # j.id => m[id] = s[id]
    BY <2>3
  <2>7. DOMAIN s \union {j.id} \subseteq Nat
    BY <1>3, <1>5
  <2>8. m \in Maps
    BY <2>5, <2>7, IsMap
  <2>9. \A id \in DOMAIN m : Uses(m[id]) \subseteq Referenced(s) \union used
    BY <1>6, <2>4, <2>5, <2>6
  <2>10. QED
    BY <2>5, <2>6, <2>8, <2>9
<1>16. QED
  BY <1>2, <1>11, <1>12, <1>13, <1>14, <1>15 DEF ReadDone

\* The record is written by a process that has read it, and refers to nothing that is not stored.
LEMMA WriteRecord ==
  ASSUME WorkspaceTyped, NEW p \in Proc, Write(p)
  PROVE  Proceeds(p) /\ ReadDone(job[p]) /\ Unwritten(job[p])
<1> DEFINE j == job[p]
<1>1. /\ j \in Jobs /\ j.lk = "in" /\ j.command \in Commands /\ j.at \in DOMAIN Program[j.command]
      /\ Program[j.command][j.at] = "write" /\ MemoryFits(j, previews)
  BY AtPlace DEF Write
<1>2. \/ j.command = "switch" /\ j.at = 6
      \/ j.command \in {"attach", "enable", "rollback"} /\ j.at = 4
      \/ j.command \in {"disable", "remove"} /\ j.at = 3
  BY <1>1, Places
<1>3. UNCHANGED <<lock, store, staging, receipt, previews, runs, crashes, broken>> /\ Goes(p, j) /\ record' = Mutated(p)
  BY DEF Write
<1>4. FilesTyped /\ job \in [Proc -> Jobs]
  BY DEF WorkspaceTyped
<1>5. PICK n : n = job'[p]
  OBVIOUS
<1>6. /\ job' \in [Proc -> Jobs] /\ \A q \in Proc \ {p} : job'[q] = job[q]
      /\ n.at = j.at + 1 /\ n.pid = j.pid /\ n.command = j.command /\ n.lk = "in" /\ n.arg = j.arg /\ n.id = j.id /\ n.was = j.was
      /\ n.seen = j.seen
  BY <1>1, <1>3, <1>4, <1>5, WentOn
<1>7. ReadDone(j) /\ Unwritten(j)
  BY <1>2 DEF ReadDone, Unwritten
<1>8. n.pid # 0 /\ n.command # "none"
  BY <1>1, <1>2, <1>6, HasPid
<1>9. n.command \notin {"cleanup", "undelete"} /\ ~Unwritten(n) /\ ~(n.command = "attach" /\ n.at = 4) /\ ~(n.command = "switch" /\ n.at = 6)
  BY <1>2, <1>6 DEF Unwritten, ReadDone
<1>10. MemoryFits(n, previews')
  BY <1>1, <1>3, <1>6, <1>7, <1>8, <1>9 DEF MemoryFits, IsCleaning
<1>11. PICK m : m = Mutated(p)
  OBVIOUS
<1>12. PICK used : used = (IF j.command \in {"attach", "switch"} THEN {j.arg} ELSE {})
  OBVIOUS
<1>13. m \in Maps /\ \A id \in DOMAIN m : Uses(m[id]) \subseteq Referenced(j.seen) \union used
  BY <1>7, <1>11, <1>12, MutatedOnce
<1>14. FilesTyped'
  BY <1>3, <1>4, <1>11, <1>13 DEF FilesTyped
<1>15. Knows(n, record', store', staging')
  BY <1>9 DEF Knows, IsCleaning, IsUndoing
<1>16. ASSUME Knows(j, record, store, staging), Stored(record, store) PROVE Stored(record', store')
  <2>1. j.seen = Recorded(record) /\ Referenced(j.seen) \subseteq store
    BY <1>1, <1>7, <1>16 DEF Knows, Stored
  <2>2. used \subseteq store
    BY <1>1, <1>2, <1>12, <1>16 DEF Knows
  <2>3. \A id \in DOMAIN m : Uses(m[id]) \subseteq store
    BY <1>13, <2>1, <2>2
  <2>4. Referenced(m) \subseteq store
    BY <2>3 DEF Referenced, Uses
  <2>5. Referenced(<<>>) = {}
    BY NoMap DEF Referenced
  <2>6. Recorded(record') = m \/ Recorded(record') = <<>>
    BY <1>3, <1>11 DEF Recorded
  <2>7. store' = store
    BY <1>3
  <2>8. QED
    BY <2>4, <2>5, <2>6, <2>7 DEF Stored
<1>17. QED
  BY <1>1, <1>3, <1>5, <1>6, <1>7, <1>10, <1>14, <1>15, <1>16 DEF Proceeds

(***************************************************************************)
(* The steps of a cleanup.                                                 *)
(***************************************************************************)

\* A command of the cleanups that has no plan to execute knows nothing of the files.
LEMMA KnowsNothing ==
  ASSUME NEW j, j.command \in {"preview", "cleanup", "unmove", "undelete"}, ~IsCleaning(j), ~IsUndoing(j), NEW rec, NEW st, NEW sg
  PROVE  Knows(j, rec, st, sg)
BY DEF Knows, Unwritten, ReadDone

\* At these places a command relies on nothing it has read.
LEMMA RemembersNothing ==
  ASSUME NEW j, j.pid # 0, j.command \in {"preview", "unmove", "undelete"}, NEW offered
  PROVE  MemoryFits(j, offered)
BY DEF MemoryFits, ReadDone, IsCleaning

\* The files that a staging directory has are others, or its plan is.
LEMMA Refiled ==
  ASSUME FilesTyped, NEW plan \in DOMAIN staging, NEW kept \in SUBSET Digest, staging' = [staging EXCEPT ![plan].files = kept]
  PROVE  /\ DOMAIN staging' = DOMAIN staging /\ staging' \in [DOMAIN staging' -> Boxes] /\ staging'[plan].files = kept
         /\ \A other \in DOMAIN staging \ {plan} : staging'[other] = staging[other]
<1>1. PICK b : b = [staging[plan] EXCEPT !.files = kept]
  OBVIOUS
<1>2. staging \in [DOMAIN staging -> Boxes] /\ staging[plan] \in Boxes
  BY DEF FilesTyped
<1>3. b \in Boxes /\ b.files = kept
  BY <1>1, <1>2 DEF Boxes
<1>4. staging' = [staging EXCEPT ![plan] = b]
  BY <1>1
<1>5. QED
  BY <1>2, <1>3, <1>4

\* Writing the plan of a staging directory leaves the files of all of them.
LEMMA Rewritten ==
  ASSUME FilesTyped, NEW plan \in DOMAIN staging, NEW whole \in BOOLEAN, staging' = [staging EXCEPT ![plan].written = whole]
  PROVE  /\ DOMAIN staging' = DOMAIN staging /\ staging' \in [DOMAIN staging' -> Boxes]
         /\ \A any \in DOMAIN staging : staging'[any].files = staging[any].files
<1>1. PICK b : b = [staging[plan] EXCEPT !.written = whole]
  OBVIOUS
<1>2. staging \in [DOMAIN staging -> Boxes] /\ staging[plan] \in Boxes
  BY DEF FilesTyped
<1>3. b \in Boxes /\ b.files = staging[plan].files
  BY <1>1, <1>2 DEF Boxes
<1>4. staging' = [staging EXCEPT ![plan] = b]
  BY <1>1
<1>5. QED
  BY <1>2, <1>3, <1>4

\* The fields of a plan.
LEMMA PlansAre == ASSUME NEW plan \in Plans PROVE plan.eligible \subseteq Digest /\ plan.record \in Maps
BY DEF Plans

\* Finding the staging directory a crashed cleanup has left.
LEMMA FindStaging ==
  ASSUME WorkspaceTyped, NEW p \in Proc, Found(p)
  PROVE  Proceeds(p)
<1> DEFINE j == job[p]
<1>1. /\ j \in Jobs /\ j.lk = "in" /\ j.command \in Commands /\ j.at \in DOMAIN Program[j.command]
      /\ Program[j.command][j.at] = "found" /\ MemoryFits(j, previews)
  BY AtPlace DEF Found
<1>2. j.command \in {"preview", "cleanup"} /\ j.at = 2 /\ j.pid # 0
  BY <1>1, Places, HasPid
<1>3. UNCHANGED <<lock, record, store, staging, receipt, previews, runs, crashes, broken>>
  BY DEF Found
<1>4. FilesTyped /\ job \in [Proc -> Jobs]
  BY DEF WorkspaceTyped
<1>5. PICK n : n = job'[p]
  OBVIOUS
<1>6. /\ job' \in [Proc -> Jobs] /\ \A q \in Proc \ {p} : job'[q] = job[q]
      /\ n.at \in {3, 7} /\ n.pid = j.pid /\ n.command = j.command /\ n.lk = "in" /\ n.was = j.was
      /\ n.moved = j.moved /\ n.deleted = j.deleted /\ n.restored = j.restored
  <2>1. CASE staging = <<>>
    <3>1. job' = [job EXCEPT ![p].at = @ + Len(Recovery)]
      BY <2>1 DEF Found
    <3>2. PICK w : w = [j EXCEPT !.at = 7]
      OBVIOUS
    <3>3. Len(Recovery) = 5
      BY DEF Recovery
    <3>4. job' = [job EXCEPT ![p] = w]
      BY <1>2, <3>1, <3>2, <3>3
    <3>5. /\ w \in Jobs /\ w.at = 7 /\ w.pid = j.pid /\ w.command = j.command /\ w.lk = "in" /\ w.was = j.was
          /\ w.moved = j.moved /\ w.deleted = j.deleted /\ w.restored = j.restored
      BY <1>1, <3>2 DEF Jobs
    <3>6. QED
      BY <1>4, <1>5, <3>4, <3>5
  <2>2. CASE staging # <<>>
    <3>1. PICK plan \in DOMAIN staging : Goes(p, [job[p] EXCEPT !.plan = plan, !.todo = plan.eligible])
      BY <2>2 DEF Found
    <3>2. plan \in Plans /\ plan.eligible \in SUBSET Digest
      BY <1>4, PlansAre DEF FilesTyped
    <3>3. PICK e \in SUBSET Digest : e = plan.eligible
      BY <3>2
    <3>4. PICK v : v = [j EXCEPT !.plan = plan]
      OBVIOUS
    <3>5. /\ v \in Jobs /\ v.at = j.at /\ v.pid = j.pid /\ v.command = j.command /\ v.lk = "in" /\ v.was = j.was
          /\ v.moved = j.moved /\ v.deleted = j.deleted /\ v.restored = j.restored
      BY <1>1, <3>2, <3>4 DEF Jobs
    <3>6. PICK w : w = [v EXCEPT !.todo = e]
      OBVIOUS
    <3>7. /\ w \in Jobs /\ w.at = j.at /\ w.pid = j.pid /\ w.command = j.command /\ w.lk = "in" /\ w.was = j.was
          /\ w.moved = j.moved /\ w.deleted = j.deleted /\ w.restored = j.restored
      BY <3>5, <3>6 DEF Jobs
    <3>8. Goes(p, w)
      BY <3>1, <3>3, <3>4, <3>6
    <3>9. QED
      BY <1>2, <1>4, <1>5, <3>7, <3>8, WentOn
  <2>3. QED
    BY <2>1, <2>2
<1>7. MemoryFits(n, previews')
  BY <1>1, <1>2, <1>3, <1>6 DEF MemoryFits, ReadDone, IsCleaning
<1>8. Knows(n, record', store', staging')
  <2>1. ~IsCleaning(n) /\ ~IsUndoing(n)
    BY <1>2, <1>6 DEF IsCleaning, IsUndoing
  <2>2. QED
    BY <1>2, <1>6, <2>1, KnowsNothing
<1>9. FilesTyped' /\ (Stored(record, store) => Stored(record', store'))
  BY <1>3, <1>4 DEF FilesTyped
<1>10. QED
  BY <1>1, <1>3, <1>5, <1>6, <1>7, <1>8, <1>9 DEF Proceeds

\* One snapshot is put back: a cleanup that undoes its deletions still accounts for all of its plan.
LEMMA RestoreOne ==
  ASSUME WorkspaceTyped, NEW p \in Proc, At(p, "restore"), IsThere(p),
         NEW d \in job[p].todo \intersect Staged(p).files, d \notin store, store' = store \union {d},
         staging' = [staging EXCEPT ![job[p].plan].files = @ \ {d}],
         job' = [job EXCEPT ![p] = [job[p] EXCEPT !.todo = @ \ {d}, !.restored = @ \union {d}]],
         UNCHANGED <<lock, record, receipt, previews, runs, crashes, broken>>
  PROVE  Proceeds(p)
<1> DEFINE j == job[p]
<1>1. /\ j \in Jobs /\ j.lk = "in" /\ j.command \in Commands /\ j.at \in DOMAIN Program[j.command]
      /\ Program[j.command][j.at] = "restore" /\ MemoryFits(j, previews)
  BY AtPlace
<1>2. (j.command \in {"preview", "cleanup"} /\ j.at = 3) \/ (j.command \in {"unmove", "undelete"} /\ j.at = 1)
  BY <1>1, Places
<1>3. FilesTyped /\ job \in [Proc -> Jobs] /\ j.plan \in DOMAIN staging /\ d \in j.todo /\ d \in staging[j.plan].files
  BY DEF WorkspaceTyped, IsThere, Staged
<1>4. staging[j.plan].files \in SUBSET Digest /\ d \in Digest
  BY <1>3 DEF FilesTyped, Boxes
<1>5. PICK left \in SUBSET Digest : left = staging[j.plan].files \ {d}
  BY <1>4
<1>6. staging' = [staging EXCEPT ![j.plan].files = left]
  BY <1>5
<1>7. DOMAIN staging' = DOMAIN staging /\ staging' \in [DOMAIN staging' -> Boxes] /\ staging'[j.plan].files = left
  BY <1>3, <1>6, Refiled
<1>8. PICK todo \in SUBSET Digest : todo = j.todo \ {d}
  BY <1>1 DEF Jobs
<1>9. PICK restored \in SUBSET Digest : restored = j.restored \union {d}
  BY <1>1, <1>4 DEF Jobs
<1>10. PICK v : v = [j EXCEPT !.todo = todo]
  OBVIOUS
<1>11. /\ v \in Jobs /\ v.todo = todo /\ v.at = j.at /\ v.pid = j.pid /\ v.command = j.command /\ v.lk = "in" /\ v.was = j.was
       /\ v.plan = j.plan /\ v.moved = j.moved /\ v.deleted = j.deleted /\ v.restored = j.restored
  BY <1>1, <1>10 DEF Jobs
<1>12. PICK w : w = [v EXCEPT !.restored = restored]
  OBVIOUS
<1>13. /\ w \in Jobs /\ w.todo = todo /\ w.at = j.at /\ w.pid = j.pid /\ w.command = j.command /\ w.lk = "in" /\ w.was = j.was
       /\ w.plan = j.plan /\ w.moved = j.moved /\ w.deleted = j.deleted /\ w.restored = restored
  BY <1>11, <1>12 DEF Jobs
<1>14. job' = [job EXCEPT ![p] = w]
  BY <1>8, <1>9, <1>10, <1>11, <1>12
<1>15. job' \in [Proc -> Jobs] /\ job'[p] = w /\ \A q \in Proc \ {p} : job'[q] = job[q]
  BY <1>3, <1>13, <1>14
<1>16. FilesTyped'
  BY <1>3, <1>4, <1>7 DEF FilesTyped
<1>17. j.pid # 0
  BY <1>1, <1>2, HasPid
<1>18. MemoryFits(w, previews')
  BY <1>1, <1>2, <1>13, <1>17 DEF MemoryFits, ReadDone, IsCleaning
<1>19. Stored(record, store) => Stored(record', store')
  BY DEF Stored
<1>20. ASSUME Knows(j, record, store, staging) PROVE Knows(w, record', store', staging')
  <2>1. CASE j.command = "undelete"
    <3>1. j.at = 1 /\ Undoing(j, store, staging)
      BY <1>1, <1>2, <1>20, <2>1 DEF Knows, IsUndoing
    <3>2. /\ j.deleted \intersect store = {} /\ j.restored \subseteq store
          /\ staging[j.plan].files = j.plan.eligible \ (j.deleted \union j.restored)
          /\ j.todo = j.plan.eligible \ j.restored /\ j.deleted \subseteq j.plan.eligible /\ j.restored \subseteq j.plan.eligible
      BY <3>1 DEF Undoing
    <3>3. Undoing(w, store', staging')
      <4>1. w.deleted \intersect store' = {} /\ w.restored \subseteq store'
        BY <1>3, <1>9, <1>13, <3>2
      <4>2. w.plan \in DOMAIN staging' /\ staging'[w.plan].files = left
        BY <1>3, <1>7, <1>13
      <4>3. left = w.plan.eligible \ (w.deleted \union w.restored)
        BY <1>5, <1>9, <1>13, <3>2
      <4>4. w.todo = w.plan.eligible \ w.restored /\ w.deleted \subseteq w.plan.eligible /\ w.restored \subseteq w.plan.eligible
        BY <1>3, <1>8, <1>9, <1>13, <3>2
      <4>5. w.at = 1
        BY <1>13, <3>1
      <4>6. QED
        BY <4>1, <4>2, <4>3, <4>4, <4>5 DEF Undoing
    <3>4. QED
      BY <1>13, <2>1, <3>3 DEF Knows, Unwritten, ReadDone, IsCleaning
  <2>2. CASE j.command # "undelete"
    <3>1. ~IsCleaning(w) /\ ~IsUndoing(w)
      BY <1>2, <1>13, <2>2 DEF IsCleaning, IsUndoing
    <3>2. QED
      BY <1>2, <1>13, <3>1, KnowsNothing
  <2>3. QED
    BY <2>1, <2>2
<1>21. QED
  BY <1>1, <1>13, <1>15, <1>16, <1>18, <1>19, <1>20 DEF Proceeds

\* Nothing that is staged is left to put back.
LEMMA RestoreDone ==
  ASSUME WorkspaceTyped, NEW p \in Proc, At(p, "restore"), IsThere(p), job[p].todo \intersect Staged(p).files = {},
         Goes(p, IF job[p].command \in {"preview", "cleanup"} THEN [job[p] EXCEPT !.deleted = @ \union job[p].todo, !.todo = {}]
                 ELSE [job[p] EXCEPT !.todo = {}]),
         UNCHANGED <<lock, record, store, staging, receipt, previews, runs, crashes, broken>>
  PROVE  Proceeds(p)
<1> DEFINE j == job[p]
<1>1. /\ j \in Jobs /\ j.lk = "in" /\ j.command \in Commands /\ j.at \in DOMAIN Program[j.command]
      /\ Program[j.command][j.at] = "restore" /\ MemoryFits(j, previews)
  BY AtPlace
<1>2. (j.command \in {"preview", "cleanup"} /\ j.at = 3) \/ (j.command \in {"unmove", "undelete"} /\ j.at = 1)
  BY <1>1, Places
<1>3. FilesTyped /\ job \in [Proc -> Jobs] /\ j.pid # 0
  BY <1>1, <1>2, HasPid DEF WorkspaceTyped
<1>4. PICK n : n = job'[p]
  OBVIOUS
<1>5. /\ job' \in [Proc -> Jobs] /\ \A q \in Proc \ {p} : job'[q] = job[q]
      /\ n.at = j.at + 1 /\ n.pid = j.pid /\ n.command = j.command /\ n.lk = "in" /\ n.was = j.was /\ n.plan = j.plan
      /\ n.moved = j.moved /\ n.restored = j.restored /\ (n.command \in {"unmove", "undelete"} => n.deleted = j.deleted)
  <2>1. CASE j.command \in {"preview", "cleanup"}
    <3>1. PICK deleted \in SUBSET Digest : deleted = j.deleted \union j.todo
      BY <1>1 DEF Jobs
    <3>2. PICK v : v = [j EXCEPT !.deleted = deleted]
      OBVIOUS
    <3>3. /\ v \in Jobs /\ v.at = j.at /\ v.pid = j.pid /\ v.command = j.command /\ v.lk = "in" /\ v.was = j.was /\ v.plan = j.plan
          /\ v.moved = j.moved /\ v.restored = j.restored
      BY <1>1, <3>2 DEF Jobs
    <3>4. PICK w : w = [v EXCEPT !.todo = {}]
      OBVIOUS
    <3>5. /\ w \in Jobs /\ w.at = j.at /\ w.pid = j.pid /\ w.command = j.command /\ w.lk = "in" /\ w.was = j.was /\ w.plan = j.plan
          /\ w.moved = j.moved /\ w.restored = j.restored
      BY <3>3, <3>4 DEF Jobs
    <3>6. Goes(p, w)
      BY <2>1, <3>1, <3>2, <3>4
    <3>7. QED
      BY <1>3, <1>4, <2>1, <3>5, <3>6, WentOn
  <2>2. CASE j.command \notin {"preview", "cleanup"}
    <3>1. PICK w : w = [j EXCEPT !.todo = {}]
      OBVIOUS
    <3>2. /\ w \in Jobs /\ w.at = j.at /\ w.pid = j.pid /\ w.command = j.command /\ w.lk = "in" /\ w.was = j.was /\ w.plan = j.plan
          /\ w.moved = j.moved /\ w.restored = j.restored /\ w.deleted = j.deleted
      BY <1>1, <3>1 DEF Jobs
    <3>3. Goes(p, w)
      BY <2>2, <3>1
    <3>4. QED
      BY <1>3, <1>4, <2>2, <3>2, <3>3, WentOn
  <2>3. QED
    BY <2>1, <2>2
<1>6. MemoryFits(n, previews')
  BY <1>1, <1>2, <1>3, <1>5, SMTT(20) DEF MemoryFits, ReadDone, IsCleaning
<1>7. FilesTyped' /\ (Stored(record, store) => Stored(record', store'))
  BY <1>3 DEF FilesTyped
<1>8. ASSUME Knows(j, record, store, staging) PROVE Knows(n, record', store', staging')
  <2>1. CASE j.command = "undelete"
    <3>1. j.at = 1 /\ Undoing(j, store, staging)
      BY <1>1, <1>2, <1>8, <2>1 DEF Knows, IsUndoing
    <3>2. /\ j.deleted \intersect store = {} /\ j.restored \subseteq store
          /\ staging[j.plan].files = j.plan.eligible \ (j.deleted \union j.restored)
          /\ j.todo = j.plan.eligible \ j.restored /\ j.deleted \subseteq j.plan.eligible /\ j.restored \subseteq j.plan.eligible
      BY <3>1 DEF Undoing
    <3>3. j.todo \intersect staging[j.plan].files = {}
      BY DEF Staged
    <3>4. j.deleted \union j.restored = j.plan.eligible
      BY <3>2, <3>3
    <3>5. n.at = 2 /\ n.deleted = j.deleted
      BY <1>5, <2>1, <3>1
    <3>6. Undoing(n, store', staging')
      BY <1>5, <3>2, <3>4, <3>5 DEF Undoing
    <3>7. QED
      BY <1>5, <2>1, <3>6 DEF Knows, Unwritten, ReadDone, IsCleaning
  <2>2. CASE j.command # "undelete"
    <3>1. ~IsCleaning(n) /\ ~IsUndoing(n)
      BY <1>2, <1>5, <2>2 DEF IsCleaning, IsUndoing
    <3>2. QED
      BY <1>2, <1>5, <3>1, KnowsNothing
  <2>3. QED
    BY <2>1, <2>2
<1>9. QED
  BY <1>1, <1>4, <1>5, <1>6, <1>7, <1>8 DEF Proceeds

\* Moving one snapshot from the staging directory back.
LEMMA RestoreSnapshots ==
  ASSUME WorkspaceTyped, NEW p \in Proc, Restore(p)
  PROVE  Proceeds(p)
<1>1. At(p, "restore") /\ IsThere(p) /\ UNCHANGED <<lock, record, receipt, previews, runs, crashes, broken>>
  BY DEF Restore
<1>2. CASE \E d \in job[p].todo \intersect Staged(p).files :
             /\ d \notin store /\ store' = store \union {d}
             /\ staging' = [staging EXCEPT ![job[p].plan].files = @ \ {d}]
             /\ job' = [job EXCEPT ![p] = [job[p] EXCEPT !.todo = @ \ {d}, !.restored = @ \union {d}]]
  BY <1>1, <1>2, RestoreOne
<1>3. CASE /\ job[p].todo \intersect Staged(p).files = {}
           /\ Goes(p, IF job[p].command \in {"preview", "cleanup"} THEN [job[p] EXCEPT !.deleted = @ \union job[p].todo, !.todo = {}]
                      ELSE [job[p] EXCEPT !.todo = {}])
           /\ UNCHANGED <<store, staging>>
  <2>1. UNCHANGED <<lock, record, store, staging, receipt, previews, runs, crashes, broken>>
    BY <1>1, <1>3
  <2>2. QED
    BY <1>1, <1>3, <2>1, RestoreDone
<1>4. QED
  BY <1>2, <1>3 DEF Restore

\* Removing the plan of a staging directory.
LEMMA RemovePlan ==
  ASSUME WorkspaceTyped, NEW p \in Proc, Unplan(p)
  PROVE  Proceeds(p)
<1> DEFINE j == job[p]
<1>1. /\ j \in Jobs /\ j.lk = "in" /\ j.command \in Commands /\ j.at \in DOMAIN Program[j.command]
      /\ Program[j.command][j.at] = "unplan" /\ MemoryFits(j, previews)
  BY AtPlace DEF Unplan
<1>2. (j.command \in {"preview", "cleanup"} /\ j.at = 4) \/ (j.command = "cleanup" /\ j.at = 13) \/ (j.command \in {"unmove", "undelete"} /\ j.at = 2)
  BY <1>1, Places
<1>3. UNCHANGED <<lock, record, store, receipt, previews, runs, crashes, broken>> /\ Goes(p, j) /\ j.plan \in DOMAIN staging
  BY DEF Unplan, IsThere
<1>4. FilesTyped /\ job \in [Proc -> Jobs] /\ j.pid # 0
  BY <1>1, <1>2, HasPid DEF WorkspaceTyped
<1>5. staging' = [staging EXCEPT ![j.plan].written = FALSE]
  BY DEF Unplan
<1>6. DOMAIN staging' = DOMAIN staging /\ staging' \in [DOMAIN staging' -> Boxes]
  BY <1>3, <1>4, <1>5, Rewritten
<1>7. PICK n : n = job'[p]
  OBVIOUS
<1>8. /\ job' \in [Proc -> Jobs] /\ \A q \in Proc \ {p} : job'[q] = job[q]
      /\ n.at = j.at + 1 /\ n.pid = j.pid /\ n.command = j.command /\ n.lk = "in" /\ n.was = j.was /\ n.plan = j.plan
      /\ n.todo = j.todo /\ n.moved = j.moved /\ n.restored = j.restored /\ n.deleted = j.deleted
  BY <1>1, <1>3, <1>4, <1>7, WentOn
<1>9. MemoryFits(n, previews')
  BY <1>1, <1>2, <1>3, <1>4, <1>8 DEF MemoryFits, ReadDone, IsCleaning
<1>10. FilesTyped' /\ (Stored(record, store) => Stored(record', store'))
  BY <1>3, <1>4, <1>6 DEF FilesTyped
<1>11. ASSUME Knows(j, record, store, staging) PROVE Knows(n, record', store', staging')
  <2>1. CASE j.command = "undelete"
    <3>1. j.at = 2 /\ Undoing(j, store, staging)
      BY <1>1, <1>2, <1>11, <2>1 DEF Knows, IsUndoing
    <3>2. n.at = 3 /\ j.deleted \union j.restored = j.plan.eligible /\ j.deleted \intersect store = {} /\ j.restored \subseteq store
      BY <1>8, <3>1 DEF Undoing
    <3>3. Undoing(n, store', staging')
      BY <1>3, <1>8, <3>2 DEF Undoing
    <3>4. QED
      BY <1>8, <2>1, <3>3 DEF Knows, Unwritten, ReadDone, IsCleaning
  <2>2. CASE j.command = "cleanup" /\ j.at = 13
    <3>1. Cleaning(j, record, store, staging)
      BY <1>1, <1>11, <2>2 DEF Knows, IsCleaning
    <3>2. /\ n.at = 14 /\ record = j.plan.record /\ j.plan.eligible \intersect Referenced(record) = {}
          /\ j.plan.eligible \intersect store = {} /\ j.deleted = j.plan.eligible
      BY <1>8, <2>2, <3>1 DEF Cleaning
    <3>3. Cleaning(n, record', store', staging')
      BY <1>3, <1>8, <3>2 DEF Cleaning
    <3>4. QED
      BY <1>8, <2>2, <3>3 DEF Knows, Unwritten, ReadDone, IsUndoing
  <2>3. CASE ~(j.command = "undelete") /\ ~(j.command = "cleanup" /\ j.at = 13)
    <3>1. ~IsCleaning(n) /\ ~IsUndoing(n)
      BY <1>2, <1>8, <2>3 DEF IsCleaning, IsUndoing
    <3>2. QED
      BY <1>2, <1>8, <3>1, KnowsNothing
  <2>4. QED
    BY <2>1, <2>2, <2>3
<1>12. QED
  BY <1>1, <1>3, <1>7, <1>8, <1>9, <1>10, <1>11 DEF Proceeds

\* Removing an emptied staging directory.
LEMMA RemoveStaging ==
  ASSUME WorkspaceTyped, NEW p \in Proc, Rmdir(p)
  PROVE  Proceeds(p)
<1> DEFINE j == job[p]
<1>1. /\ j \in Jobs /\ j.lk = "in" /\ j.command \in Commands /\ j.at \in DOMAIN Program[j.command]
      /\ Program[j.command][j.at] = "rmdir" /\ MemoryFits(j, previews)
  BY AtPlace DEF Rmdir
<1>2. (j.command \in {"preview", "cleanup"} /\ j.at = 5) \/ (j.command = "cleanup" /\ j.at = 14) \/ (j.command \in {"unmove", "undelete"} /\ j.at = 3)
  BY <1>1, Places
<1>3. UNCHANGED <<lock, record, store, receipt, previews, runs, crashes, broken>> /\ Goes(p, j)
  BY DEF Rmdir
<1>4. FilesTyped /\ job \in [Proc -> Jobs] /\ j.pid # 0
  BY <1>1, <1>2, HasPid DEF WorkspaceTyped
<1>5. staging' = [plan \in DOMAIN staging \ {j.plan} |-> staging[plan]]
  BY DEF Rmdir
<1>6. DOMAIN staging' \subseteq DOMAIN staging /\ staging' \in [DOMAIN staging' -> Boxes]
  BY <1>4, <1>5 DEF FilesTyped
<1>7. PICK n : n = job'[p]
  OBVIOUS
<1>8. /\ job' \in [Proc -> Jobs] /\ \A q \in Proc \ {p} : job'[q] = job[q]
      /\ n.at = j.at + 1 /\ n.pid = j.pid /\ n.command = j.command /\ n.lk = "in" /\ n.was = j.was /\ n.plan = j.plan
      /\ n.todo = j.todo /\ n.moved = j.moved /\ n.restored = j.restored /\ n.deleted = j.deleted
  BY <1>1, <1>3, <1>4, <1>7, WentOn
<1>9. MemoryFits(n, previews')
  BY <1>1, <1>2, <1>3, <1>4, <1>8 DEF MemoryFits, ReadDone, IsCleaning
<1>10. FilesTyped' /\ (Stored(record, store) => Stored(record', store'))
  BY <1>3, <1>4, <1>6 DEF FilesTyped
<1>11. ASSUME Knows(j, record, store, staging) PROVE Knows(n, record', store', staging')
  <2>1. CASE j.command = "undelete"
    <3>1. j.at = 3 /\ Undoing(j, store, staging)
      BY <1>1, <1>2, <1>11, <2>1 DEF Knows, IsUndoing
    <3>2. n.at = 4 /\ j.deleted \union j.restored = j.plan.eligible /\ j.deleted \intersect store = {} /\ j.restored \subseteq store
      BY <1>8, <3>1 DEF Undoing
    <3>3. Undoing(n, store', staging')
      BY <1>3, <1>8, <3>2 DEF Undoing
    <3>4. QED
      BY <1>8, <2>1, <3>3 DEF Knows, Unwritten, ReadDone, IsCleaning
  <2>2. CASE j.command = "cleanup" /\ j.at = 14
    <3>1. Cleaning(j, record, store, staging)
      BY <1>1, <1>11, <2>2 DEF Knows, IsCleaning
    <3>2. /\ n.at = 15 /\ record = j.plan.record /\ j.plan.eligible \intersect Referenced(record) = {}
          /\ j.plan.eligible \intersect store = {} /\ j.deleted = j.plan.eligible
      BY <1>8, <2>2, <3>1 DEF Cleaning
    <3>3. Cleaning(n, record', store', staging')
      BY <1>3, <1>8, <3>2 DEF Cleaning
    <3>4. QED
      BY <1>8, <2>2, <3>3 DEF Knows, Unwritten, ReadDone, IsUndoing
  <2>3. CASE ~(j.command = "undelete") /\ ~(j.command = "cleanup" /\ j.at = 14)
    <3>1. ~IsCleaning(n) /\ ~IsUndoing(n)
      BY <1>2, <1>8, <2>3 DEF IsCleaning, IsUndoing
    <3>2. QED
      BY <1>2, <1>8, <3>1, KnowsNothing
  <2>4. QED
    BY <2>1, <2>2, <2>3
<1>12. QED
  BY <1>1, <1>3, <1>7, <1>8, <1>9, <1>10, <1>11 DEF Proceeds

\* The report of a cleanup that has deleted all its plan, or put back the rest, accounts for the plan.
LEMMA ReportCleanup ==
  ASSUME WorkspaceTyped, NEW p \in Proc, Report(p)
  PROVE  /\ Proceeds(p)
         /\ Knows(job[p], record, store, staging) /\ receipt'.status \in {"pass", "partial"} =>
              /\ receipt'.deleted \intersect store' = {} /\ receipt'.restored \subseteq store'
              /\ receipt'.deleted \union receipt'.restored = receipt'.plan.eligible
<1> DEFINE j == job[p]
<1>1. PICK status \in {"recovered", "pass", "partial"} :
        /\ At(p, status)
        /\ receipt' = [status |-> status, plan |-> j.plan, deleted |-> j.deleted, restored |-> j.restored]
  BY DEF Report
<1>2. /\ j \in Jobs /\ j.lk = "in" /\ j.command \in Commands /\ j.at \in DOMAIN Program[j.command]
      /\ Program[j.command][j.at] = status /\ MemoryFits(j, previews)
  BY <1>1, AtPlace
<1>3. /\ status = "recovered" => j.command \in {"preview", "cleanup"} /\ j.at = 6
      /\ status = "pass" => j.command = "cleanup" /\ j.at = 15
      /\ status = "partial" => j.command = "undelete" /\ j.at = 4
  BY <1>2, Places
<1>4. UNCHANGED <<lock, record, store, staging, previews, runs, crashes, broken>>
  BY DEF Report
<1>5. FilesTyped /\ job \in [Proc -> Jobs] /\ j.pid # 0 /\ j.command \in {"preview", "cleanup", "undelete"}
  BY <1>1, <1>2, <1>3, HasPid DEF WorkspaceTyped
<1>6. PICK u : u = [j EXCEPT !.plan = None]
  OBVIOUS
<1>7. /\ u \in Jobs /\ u.at = j.at /\ u.pid = j.pid /\ u.command = j.command /\ u.lk = "in" /\ u.was = j.was /\ u.moved = j.moved
  BY <1>2, <1>6 DEF Jobs
<1>8. PICK v : v = [u EXCEPT !.deleted = {}]
  OBVIOUS
<1>9. /\ v \in Jobs /\ v.at = j.at /\ v.pid = j.pid /\ v.command = j.command /\ v.lk = "in" /\ v.was = j.was /\ v.moved = j.moved
      /\ v.deleted = {}
  BY <1>7, <1>8 DEF Jobs
<1>10. PICK w : w = [v EXCEPT !.restored = {}]
  OBVIOUS
<1>11. /\ w \in Jobs /\ w.at = j.at /\ w.pid = j.pid /\ w.command = j.command /\ w.lk = "in" /\ w.was = j.was /\ w.moved = j.moved
       /\ w.deleted = {} /\ w.restored = {}
  BY <1>9, <1>10 DEF Jobs
<1>12. Goes(p, w)
  BY <1>6, <1>8, <1>10 DEF Report
<1>13. PICK n : n = job'[p]
  OBVIOUS
<1>14. /\ job' \in [Proc -> Jobs] /\ \A q \in Proc \ {p} : job'[q] = job[q]
       /\ n.at = j.at + 1 /\ n.pid = j.pid /\ n.command = j.command /\ n.lk = "in" /\ n.was = j.was /\ n.moved = j.moved
       /\ n.deleted = {} /\ n.restored = {}
  BY <1>5, <1>11, <1>12, <1>13, WentOn
<1>15. MemoryFits(n, previews')
  BY <1>1, <1>2, <1>3, <1>4, <1>5, <1>14 DEF MemoryFits, ReadDone, IsCleaning
<1>16. FilesTyped' /\ (Stored(record, store) => Stored(record', store'))
  BY <1>4, <1>5 DEF FilesTyped
<1>17. Knows(n, record', store', staging')
  <2>1. ~IsCleaning(n) /\ ~IsUndoing(n)
    BY <1>1, <1>3, <1>14 DEF IsCleaning, IsUndoing
  <2>2. QED
    BY <1>5, <1>14, <2>1, KnowsNothing
<1>18. Proceeds(p)
  BY <1>2, <1>4, <1>13, <1>14, <1>15, <1>16, <1>17 DEF Proceeds
<1>19. /\ receipt'.status = status /\ receipt'.plan = j.plan /\ receipt'.deleted = j.deleted /\ receipt'.restored = j.restored
  BY <1>1
<1>20. ASSUME Knows(j, record, store, staging), status = "pass"
       PROVE  j.deleted \intersect store = {} /\ j.restored \subseteq store /\ j.deleted \union j.restored = j.plan.eligible
  <2>1. IsCleaning(j)
    BY <1>3, <1>20 DEF IsCleaning
  <2>2. Cleaning(j, record, store, staging) /\ j.restored = {}
    BY <1>2, <1>20, <2>1 DEF Knows, MemoryFits
  <2>3. j.deleted = j.plan.eligible /\ j.plan.eligible \intersect store = {}
    BY <1>3, <1>20, <2>2 DEF Cleaning
  <2>4. QED
    BY <2>2, <2>3
<1>21. ASSUME Knows(j, record, store, staging), status = "partial"
       PROVE  j.deleted \intersect store = {} /\ j.restored \subseteq store /\ j.deleted \union j.restored = j.plan.eligible
  <2>1. IsUndoing(j)
    BY <1>3, <1>21 DEF IsUndoing
  <2>2. Undoing(j, store, staging)
    BY <1>2, <1>21, <2>1 DEF Knows
  <2>3. QED
    BY <1>3, <1>21, <2>2 DEF Undoing
<1>22. QED
  BY <1>4, <1>18, <1>19, <1>20, <1>21

\* A plan names what the record does not refer to.
LEMMA MakePlan ==
  ASSUME WorkspaceTyped, NEW p \in Proc, Plan(p)
  PROVE  Proceeds(p)
<1> DEFINE j == job[p]
<1>1. /\ j \in Jobs /\ j.lk = "in" /\ j.command \in Commands /\ j.at \in DOMAIN Program[j.command]
      /\ Program[j.command][j.at] = "plan" /\ MemoryFits(j, previews)
  BY AtPlace DEF Plan
<1>2. j.command \in {"preview", "cleanup"} /\ j.at = 7 /\ j.pid # 0
  BY <1>1, Places, HasPid
<1>3. UNCHANGED <<lock, record, store, staging, receipt, runs, crashes, broken>> /\ record # None
  BY DEF Plan
<1>4. FilesTyped /\ job \in [Proc -> Jobs]
  BY DEF WorkspaceTyped
<1>5. PICK e \in SUBSET Digest : e = store \ Referenced(record)
  BY <1>4 DEF FilesTyped
<1>6. PICK plan : plan = [record |-> record, eligible |-> e]
  OBVIOUS
<1>7. plan \in Plans /\ plan.record = record /\ plan.eligible = e
  BY <1>3, <1>4, <1>6 DEF Plans, FilesTyped
<1>8. PICK v : v = [j EXCEPT !.plan = plan]
  OBVIOUS
<1>9. /\ v \in Jobs /\ v.at = j.at /\ v.pid = j.pid /\ v.command = j.command /\ v.lk = "in" /\ v.was = j.was /\ v.plan = plan
      /\ v.moved = j.moved /\ v.deleted = j.deleted /\ v.restored = j.restored
  BY <1>1, <1>7, <1>8 DEF Jobs
<1>10. PICK w : w = [v EXCEPT !.todo = e]
  OBVIOUS
<1>11. /\ w \in Jobs /\ w.at = j.at /\ w.pid = j.pid /\ w.command = j.command /\ w.lk = "in" /\ w.was = j.was /\ w.plan = plan
       /\ w.todo = e /\ w.moved = j.moved /\ w.deleted = j.deleted /\ w.restored = j.restored
  BY <1>9, <1>10 DEF Jobs
<1>12. /\ IsApproved(p, plan) /\ previews' = (IF j.command = "preview" THEN previews \union {plan} ELSE previews)
       /\ Goes(p, [j EXCEPT !.plan = plan, !.todo = plan.eligible])
  BY <1>5, <1>6 DEF Plan
<1>13. Goes(p, w)
  BY <1>7, <1>8, <1>10, <1>12
<1>14. PICK n : n = job'[p]
  OBVIOUS
<1>15. /\ job' \in [Proc -> Jobs] /\ \A q \in Proc \ {p} : job'[q] = job[q]
       /\ n.at = j.at + 1 /\ n.pid = j.pid /\ n.command = j.command /\ n.lk = "in" /\ n.was = j.was /\ n.plan = plan
       /\ n.todo = e /\ n.moved = j.moved /\ n.deleted = j.deleted /\ n.restored = j.restored
  BY <1>4, <1>11, <1>13, <1>14, WentOn
<1>16. n.at = 8
  BY <1>2, <1>15
<1>17. previews \subseteq previews' /\ previews' \subseteq Plans
  BY <1>4, <1>7, <1>12 DEF FilesTyped
<1>18. FilesTyped' /\ (Stored(record, store) => Stored(record', store'))
  BY <1>3, <1>4, <1>17 DEF FilesTyped
<1>19. CASE j.command = "preview"
  <2>1. MemoryFits(n, previews')
    BY <1>2, <1>15, <1>19, RemembersNothing
  <2>2. ~IsCleaning(n) /\ ~IsUndoing(n)
    BY <1>15, <1>19 DEF IsCleaning, IsUndoing
  <2>3. Knows(n, record', store', staging')
    BY <1>15, <1>19, <2>2, KnowsNothing
  <2>4. QED
    BY <1>1, <1>3, <1>14, <1>15, <1>17, <1>18, <2>1, <2>3 DEF Proceeds
<1>20. CASE j.command = "cleanup"
  <2>1. plan = j.was
    BY <1>12, <1>20 DEF IsApproved
  <2>2. j.was \in previews /\ j.moved = {} /\ j.deleted = {} /\ j.restored = {}
    BY <1>1, <1>2, <1>20 DEF MemoryFits
  <2>3. MemoryFits(n, previews')
    BY <1>2, <1>7, <1>15, <1>16, <1>17, <1>20, <2>1, <2>2 DEF MemoryFits, ReadDone
  <2>4. Cleaning(n, record', store', staging')
    <3>1. n.plan.eligible = e /\ n.plan.record = record /\ record' = record
      BY <1>3, <1>7, <1>15
    <3>2. e \intersect Referenced(record) = {}
      BY <1>5
    <3>3. n.todo = e /\ n.moved = {} /\ n.deleted = {} /\ n.at = 8
      BY <1>15, <1>16, <2>2
    <3>4. QED
      BY <3>1, <3>2, <3>3 DEF Cleaning
  <2>5. Knows(n, record', store', staging')
    BY <1>15, <1>20, <2>4 DEF Knows, Unwritten, ReadDone, IsUndoing
  <2>6. QED
    BY <1>1, <1>3, <1>14, <1>15, <1>17, <1>18, <2>3, <2>5 DEF Proceeds
<1>21. QED
  BY <1>2, <1>19, <1>20

\* A cleanup goes on with its plan, in a step that leaves its memory alone.
LEMMA CleanedOn ==
  ASSUME WorkspaceTyped, NEW p \in Proc, job[p].lk = "in", job[p].command = "cleanup", job[p].at \in {8, 9, 10, 11, 12},
         job' \in [Proc -> Jobs], \A q \in Proc \ {p} : job'[q] = job[q],
         NEW n, n = job'[p], n.command = "cleanup", n.lk = "in", n.pid = job[p].pid, n.was = job[p].was, n.plan = job[p].plan,
         n.at \in {8, 9, 10, 11, 12, 13}, n.todo \subseteq n.plan.eligible, n.moved \subseteq n.plan.eligible, n.restored = job[p].restored,
         UNCHANGED <<lock, previews, runs, broken>>, FilesTyped',
         Cleaning(job[p], record, store, staging) /\ Stored(record, store) =>
           Cleaning(n, record', store', staging') /\ Stored(record', store')
  PROVE  Proceeds(p)
<1> DEFINE j == job[p]
<1>1. MemoryFits(j, previews)
  BY DEF WorkspaceTyped
<1>2. IsCleaning(j) /\ IsCleaning(n)
  BY DEF IsCleaning
<1>3. j.pid # 0
  BY <1>1, HasPid
<1>4. MemoryFits(n, previews')
  BY <1>1, <1>2, <1>3 DEF MemoryFits, ReadDone
<1>5. Knows(j, record, store, staging) => Cleaning(j, record, store, staging)
  BY <1>2 DEF Knows
<1>6. Cleaning(n, record', store', staging') => Knows(n, record', store', staging')
  BY DEF Knows, Unwritten, ReadDone, IsUndoing
<1>7. QED
  BY <1>4, <1>5, <1>6 DEF Proceeds

\* The place and the memory of a cleanup that carries out its plan.
LEMMA CleanupAt ==
  ASSUME WorkspaceTyped, NEW p \in Proc, NEW line \in {"mkdir", "planfile", "move", "recheck", "delete"}, At(p, line)
  PROVE  /\ FilesTyped /\ job \in [Proc -> Jobs] /\ job[p] \in Jobs /\ job[p].lk = "in" /\ job[p].command = "cleanup"
         /\ line = "mkdir" => job[p].at = 8
         /\ line = "planfile" => job[p].at = 9
         /\ line = "move" => job[p].at = 10
         /\ line = "recheck" => job[p].at = 11
         /\ line = "delete" => job[p].at = 12
         /\ job[p].plan = job[p].was /\ job[p].plan \in previews /\ job[p].plan \in Plans /\ job[p].restored = {}
         /\ job[p].todo \subseteq job[p].plan.eligible /\ job[p].moved \subseteq job[p].plan.eligible
<1> DEFINE j == job[p]
<1>1. /\ j \in Jobs /\ j.lk = "in" /\ j.command \in Commands /\ j.at \in DOMAIN Program[j.command]
      /\ Program[j.command][j.at] = line /\ MemoryFits(j, previews)
  BY AtPlace
<1>2. /\ j.command = "cleanup" /\ (line = "mkdir" => j.at = 8) /\ (line = "planfile" => j.at = 9)
      /\ (line = "move" => j.at = 10) /\ (line = "recheck" => j.at = 11) /\ (line = "delete" => j.at = 12)
  BY <1>1, Places
<1>3. IsCleaning(j)
  BY <1>2 DEF IsCleaning
<1>4. /\ j.was \in previews /\ j.plan = j.was /\ j.todo \subseteq j.plan.eligible /\ j.moved \subseteq j.plan.eligible /\ j.restored = {}
  BY <1>1, <1>2, <1>3 DEF MemoryFits
<1>5. FilesTyped /\ job \in [Proc -> Jobs] /\ previews \subseteq Plans
  BY DEF WorkspaceTyped, FilesTyped
<1>6. QED
  BY <1>1, <1>2, <1>4, <1>5

\* Making the staging directory.
LEMMA StageDirectory ==
  ASSUME WorkspaceTyped, NEW p \in Proc, MakeStaging(p)
  PROVE  Proceeds(p)
<1> DEFINE j == job[p]
<1>1. /\ FilesTyped /\ job \in [Proc -> Jobs] /\ j \in Jobs /\ j.lk = "in" /\ j.command = "cleanup" /\ j.at = 8 /\ j.plan \in Plans
      /\ j.todo \subseteq j.plan.eligible /\ j.moved \subseteq j.plan.eligible
  BY CleanupAt DEF MakeStaging
<1>2. UNCHANGED <<lock, record, store, receipt, previews, runs, crashes, broken>> /\ Goes(p, j)
  BY DEF MakeStaging
<1>3. PICK b : b = [written |-> FALSE, files |-> {}]
  OBVIOUS
<1>4. b \in Boxes /\ b.files = {}
  BY <1>3 DEF Boxes
<1>5. staging' = [plan \in DOMAIN staging \union {j.plan} |-> IF plan = j.plan THEN b ELSE staging[plan]]
  BY <1>3 DEF MakeStaging
<1>6. staging \in [DOMAIN staging -> Boxes]
  BY <1>1 DEF FilesTyped
<1>7. DOMAIN staging' = DOMAIN staging \union {j.plan} /\ staging'[j.plan] = b /\ staging' \in [DOMAIN staging' -> Boxes]
  BY <1>4, <1>5, <1>6
<1>8. FilesTyped'
  BY <1>1, <1>2, <1>7 DEF FilesTyped
<1>9. PICK n : n = job'[p]
  OBVIOUS
<1>10. /\ job' \in [Proc -> Jobs] /\ \A q \in Proc \ {p} : job'[q] = job[q]
       /\ n.at = 9 /\ n.pid = j.pid /\ n.command = "cleanup" /\ n.lk = "in" /\ n.was = j.was /\ n.plan = j.plan
       /\ n.todo = j.todo /\ n.moved = j.moved /\ n.deleted = j.deleted /\ n.restored = j.restored
  BY <1>1, <1>2, <1>9, WentOn
<1>11. ASSUME Cleaning(j, record, store, staging) PROVE Cleaning(n, record', store', staging')
  <2>1. /\ record = j.plan.record /\ j.plan.eligible \intersect Referenced(record) = {}
        /\ j.todo = j.plan.eligible /\ j.moved = {} /\ j.deleted = {}
    BY <1>1, <1>11 DEF Cleaning
  <2>2. n.plan \in DOMAIN staging' /\ staging'[n.plan].files = n.moved
    BY <1>4, <1>7, <1>10, <2>1
  <2>3. QED
    BY <1>2, <1>10, <2>1, <2>2 DEF Cleaning
<1>12. Stored(record, store) => Stored(record', store')
  BY <1>2
<1>13. QED
  BY <1>1, <1>2, <1>8, <1>9, <1>10, <1>11, <1>12, CleanedOn

\* Writing the plan into it.
LEMMA StagePlan ==
  ASSUME WorkspaceTyped, NEW p \in Proc, WritePlan(p)
  PROVE  Proceeds(p)
<1> DEFINE j == job[p]
<1>1. /\ FilesTyped /\ job \in [Proc -> Jobs] /\ j \in Jobs /\ j.lk = "in" /\ j.command = "cleanup" /\ j.at = 9 /\ j.plan \in Plans
      /\ j.todo \subseteq j.plan.eligible /\ j.moved \subseteq j.plan.eligible
  BY CleanupAt DEF WritePlan
<1>2. UNCHANGED <<lock, record, store, receipt, previews, runs, crashes, broken>> /\ Goes(p, j) /\ j.plan \in DOMAIN staging
  BY DEF WritePlan, IsThere
<1>3. staging' = [staging EXCEPT ![j.plan].written = TRUE]
  BY DEF WritePlan
<1>4. DOMAIN staging' = DOMAIN staging /\ staging' \in [DOMAIN staging' -> Boxes] /\ staging'[j.plan].files = staging[j.plan].files
  BY <1>1, <1>2, <1>3, Rewritten
<1>5. FilesTyped'
  BY <1>1, <1>2, <1>4 DEF FilesTyped
<1>6. PICK n : n = job'[p]
  OBVIOUS
<1>7. /\ job' \in [Proc -> Jobs] /\ \A q \in Proc \ {p} : job'[q] = job[q]
      /\ n.at = 10 /\ n.pid = j.pid /\ n.command = "cleanup" /\ n.lk = "in" /\ n.was = j.was /\ n.plan = j.plan
      /\ n.todo = j.todo /\ n.moved = j.moved /\ n.deleted = j.deleted /\ n.restored = j.restored
  BY <1>1, <1>2, <1>6, WentOn
<1>8. ASSUME Cleaning(j, record, store, staging) PROVE Cleaning(n, record', store', staging')
  <2>1. /\ record = j.plan.record /\ j.plan.eligible \intersect Referenced(record) = {} /\ staging[j.plan].files = j.moved
        /\ j.todo = j.plan.eligible /\ j.moved = {} /\ j.deleted = {}
    BY <1>1, <1>8 DEF Cleaning
  <2>2. n.plan \in DOMAIN staging' /\ staging'[n.plan].files = n.moved
    BY <1>2, <1>4, <1>7, <2>1
  <2>3. QED
    BY <1>2, <1>7, <2>1, <2>2 DEF Cleaning
<1>9. Stored(record, store) => Stored(record', store')
  BY <1>2
<1>10. QED
  BY <1>1, <1>2, <1>5, <1>6, <1>7, <1>8, <1>9, CleanedOn

\* What is moved into the staging directory is not referred to.
LEMMA MoveSnapshots ==
  ASSUME WorkspaceTyped, NEW p \in Proc, Move(p)
  PROVE  Proceeds(p)
<1> DEFINE j == job[p]
<1>1. /\ FilesTyped /\ job \in [Proc -> Jobs] /\ j \in Jobs /\ j.lk = "in" /\ j.command = "cleanup" /\ j.at = 10 /\ j.plan \in Plans
      /\ j.todo \subseteq j.plan.eligible /\ j.moved \subseteq j.plan.eligible
  BY CleanupAt DEF Move
<1>2. UNCHANGED <<lock, record, receipt, previews, runs, crashes, broken>> /\ j.plan \in DOMAIN staging
  BY DEF Move, IsThere
<1>3. CASE job[p].todo = {} /\ Goes(p, job[p]) /\ UNCHANGED <<store, staging>>
  <2>1. PICK n : n = job'[p]
    OBVIOUS
  <2>2. /\ job' \in [Proc -> Jobs] /\ \A q \in Proc \ {p} : job'[q] = job[q]
        /\ n.at = 11 /\ n.pid = j.pid /\ n.command = "cleanup" /\ n.lk = "in" /\ n.was = j.was /\ n.plan = j.plan
        /\ n.todo = j.todo /\ n.moved = j.moved /\ n.deleted = j.deleted /\ n.restored = j.restored
    BY <1>1, <1>3, <2>1, WentOn
  <2>3. FilesTyped'
    BY <1>1, <1>2, <1>3 DEF FilesTyped
  <2>4. ASSUME Cleaning(j, record, store, staging) PROVE Cleaning(n, record', store', staging')
    <3>1. /\ record = j.plan.record /\ j.plan.eligible \intersect Referenced(record) = {} /\ staging[j.plan].files = j.moved
          /\ j.todo \union j.moved = j.plan.eligible /\ j.moved \intersect store = {} /\ j.deleted = {}
      BY <1>1, <2>4 DEF Cleaning
    <3>2. j.moved = j.plan.eligible /\ j.plan.eligible \intersect store = {}
      BY <1>3, <3>1
    <3>3. QED
      BY <1>2, <1>3, <2>2, <3>1, <3>2 DEF Cleaning
  <2>5. Stored(record, store) => Stored(record', store')
    BY <1>2, <1>3
  <2>6. QED
    BY <1>1, <1>2, <2>1, <2>2, <2>3, <2>4, <2>5, CleanedOn
<1>4. ASSUME NEW d \in job[p].todo \intersect store,
             /\ store' = store \ {d} /\ staging' = [staging EXCEPT ![job[p].plan].files = @ \union {d}]
             /\ job' = [job EXCEPT ![p] = [job[p] EXCEPT !.todo = @ \ {d}, !.moved = @ \union {d}]]
      PROVE  Proceeds(p)
  <2>1. staging[j.plan].files \in SUBSET Digest /\ d \in Digest
    BY <1>1, <1>2 DEF FilesTyped, Boxes
  <2>2. PICK kept \in SUBSET Digest : kept = staging[j.plan].files \union {d}
    BY <2>1
  <2>3. staging' = [staging EXCEPT ![j.plan].files = kept]
    BY <1>4, <2>2
  <2>4. DOMAIN staging' = DOMAIN staging /\ staging' \in [DOMAIN staging' -> Boxes] /\ staging'[j.plan].files = kept
    BY <1>1, <1>2, <2>3, Refiled
  <2>5. PICK todo \in SUBSET Digest : todo = j.todo \ {d}
    BY <1>1 DEF Jobs
  <2>6. PICK moved \in SUBSET Digest : moved = j.moved \union {d}
    BY <1>1, <2>1 DEF Jobs
  <2>7. PICK v : v = [j EXCEPT !.todo = todo]
    OBVIOUS
  <2>8. /\ v \in Jobs /\ v.todo = todo /\ v.at = j.at /\ v.pid = j.pid /\ v.command = j.command /\ v.lk = "in" /\ v.was = j.was
        /\ v.plan = j.plan /\ v.moved = j.moved /\ v.deleted = j.deleted /\ v.restored = j.restored
    BY <1>1, <2>7 DEF Jobs
  <2>9. PICK w : w = [v EXCEPT !.moved = moved]
    OBVIOUS
  <2>10. /\ w \in Jobs /\ w.todo = todo /\ w.at = 10 /\ w.pid = j.pid /\ w.command = "cleanup" /\ w.lk = "in" /\ w.was = j.was
         /\ w.plan = j.plan /\ w.moved = moved /\ w.deleted = j.deleted /\ w.restored = j.restored
    BY <1>1, <2>8, <2>9 DEF Jobs
  <2>11. job' = [job EXCEPT ![p] = w]
    BY <1>4, <2>5, <2>6, <2>7, <2>8, <2>9
  <2>12. job' \in [Proc -> Jobs] /\ job'[p] = w /\ \A q \in Proc \ {p} : job'[q] = job[q]
    BY <1>1, <2>10, <2>11
  <2>13. FilesTyped'
    BY <1>1, <1>2, <1>4, <2>4 DEF FilesTyped
  <2>14. w.todo \subseteq w.plan.eligible /\ w.moved \subseteq w.plan.eligible
    BY <1>1, <1>4, <2>5, <2>6, <2>10
  <2>15. ASSUME Cleaning(j, record, store, staging), Stored(record, store)
         PROVE  Cleaning(w, record', store', staging') /\ Stored(record', store')
    <3>1. /\ record = j.plan.record /\ j.plan.eligible \intersect Referenced(record) = {} /\ staging[j.plan].files = j.moved
          /\ j.todo \union j.moved = j.plan.eligible /\ j.moved \intersect store = {} /\ j.deleted = {}
      BY <1>1, <2>15 DEF Cleaning
    <3>2. w.todo \union w.moved = w.plan.eligible /\ w.moved \intersect store' = {}
      BY <1>4, <2>5, <2>6, <2>10, <3>1
    <3>3. staging'[w.plan].files = w.moved /\ w.plan \in DOMAIN staging'
      BY <1>2, <2>2, <2>4, <2>6, <2>10, <3>1
    <3>4. Cleaning(w, record', store', staging')
      BY <1>2, <2>10, <3>1, <3>2, <3>3 DEF Cleaning
    <3>5. d \notin Referenced(record)
      BY <1>1, <3>1
    <3>6. Referenced(<<>>) = {}
      BY NoMap DEF Referenced
    <3>7. d \notin Referenced(Recorded(record))
      BY <3>5, <3>6 DEF Recorded
    <3>8. Stored(record', store')
      BY <1>2, <1>4, <2>15, <3>7 DEF Stored
    <3>9. QED
      BY <3>4, <3>8
  <2>16. QED
    BY <1>1, <1>2, <2>10, <2>12, <2>13, <2>14, <2>15, CleanedOn
<1>5. QED
  BY <1>3, <1>4 DEF Move

\* Reading the record again once all is moved.
LEMMA RecheckRecord ==
  ASSUME WorkspaceTyped, NEW p \in Proc, Recheck(p)
  PROVE  Proceeds(p)
<1> DEFINE j == job[p]
<1>1. /\ FilesTyped /\ job \in [Proc -> Jobs] /\ j \in Jobs /\ j.lk = "in" /\ j.command = "cleanup" /\ j.at = 11 /\ j.plan \in Plans
      /\ j.todo \subseteq j.plan.eligible /\ j.moved \subseteq j.plan.eligible
  BY CleanupAt DEF Recheck
<1>2. UNCHANGED <<lock, record, store, staging, receipt, previews, runs, crashes, broken>>
  BY DEF Recheck
<1>3. PICK moved \in SUBSET Digest : moved = j.moved
  BY <1>1 DEF Jobs
<1>4. PICK w : w = [j EXCEPT !.todo = moved]
  OBVIOUS
<1>5. /\ w \in Jobs /\ w.todo = j.moved /\ w.at = j.at /\ w.pid = j.pid /\ w.command = j.command /\ w.lk = "in" /\ w.was = j.was
      /\ w.plan = j.plan /\ w.moved = j.moved /\ w.deleted = j.deleted /\ w.restored = j.restored
  BY <1>1, <1>3, <1>4 DEF Jobs
<1>6. Goes(p, w)
  BY <1>3, <1>4 DEF Recheck
<1>7. PICK n : n = job'[p]
  OBVIOUS
<1>8. /\ job' \in [Proc -> Jobs] /\ \A q \in Proc \ {p} : job'[q] = job[q]
      /\ n.at = 12 /\ n.pid = j.pid /\ n.command = "cleanup" /\ n.lk = "in" /\ n.was = j.was /\ n.plan = j.plan
      /\ n.todo = j.moved /\ n.moved = j.moved /\ n.deleted = j.deleted /\ n.restored = j.restored
  BY <1>1, <1>5, <1>6, <1>7, WentOn
<1>9. FilesTyped'
  BY <1>1, <1>2 DEF FilesTyped
<1>10. ASSUME Cleaning(j, record, store, staging) PROVE Cleaning(n, record', store', staging')
  <2>1. /\ record = j.plan.record /\ j.plan.eligible \intersect Referenced(record) = {} /\ staging[j.plan].files = j.moved
        /\ j.moved = j.plan.eligible /\ j.plan.eligible \intersect store = {} /\ j.deleted = {} /\ j.plan \in DOMAIN staging
    BY <1>1, <1>10 DEF Cleaning
  <2>2. QED
    BY <1>2, <1>8, <2>1 DEF Cleaning
<1>11. Stored(record, store) => Stored(record', store')
  BY <1>2
<1>12. QED
  BY <1>1, <1>2, <1>7, <1>8, <1>9, <1>10, <1>11, CleanedOn

\* Deleting what was moved.
LEMMA DeleteSnapshots ==
  ASSUME WorkspaceTyped, NEW p \in Proc, Delete(p)
  PROVE  Proceeds(p)
<1> DEFINE j == job[p]
<1>1. /\ FilesTyped /\ job \in [Proc -> Jobs] /\ j \in Jobs /\ j.lk = "in" /\ j.command = "cleanup" /\ j.at = 12 /\ j.plan \in Plans
      /\ j.todo \subseteq j.plan.eligible /\ j.moved \subseteq j.plan.eligible
  BY CleanupAt DEF Delete
<1>2. UNCHANGED <<lock, record, store, receipt, previews, runs, crashes, broken>> /\ j.plan \in DOMAIN staging
  BY DEF Delete, IsThere
<1>3. CASE job[p].todo = {} /\ Goes(p, job[p]) /\ UNCHANGED staging
  <2>1. PICK n : n = job'[p]
    OBVIOUS
  <2>2. /\ job' \in [Proc -> Jobs] /\ \A q \in Proc \ {p} : job'[q] = job[q]
        /\ n.at = 13 /\ n.pid = j.pid /\ n.command = "cleanup" /\ n.lk = "in" /\ n.was = j.was /\ n.plan = j.plan
        /\ n.todo = j.todo /\ n.moved = j.moved /\ n.deleted = j.deleted /\ n.restored = j.restored
    BY <1>1, <1>3, <2>1, WentOn
  <2>3. FilesTyped'
    BY <1>1, <1>2, <1>3 DEF FilesTyped
  <2>4. ASSUME Cleaning(j, record, store, staging) PROVE Cleaning(n, record', store', staging')
    <3>1. /\ record = j.plan.record /\ j.plan.eligible \intersect Referenced(record) = {} /\ j.plan.eligible \intersect store = {}
          /\ j.todo = j.plan.eligible \ j.deleted /\ j.deleted \subseteq j.plan.eligible
      BY <1>1, <2>4 DEF Cleaning
    <3>2. j.deleted = j.plan.eligible
      BY <1>3, <3>1
    <3>3. QED
      BY <1>2, <1>3, <2>2, <3>1, <3>2 DEF Cleaning
  <2>5. Stored(record, store) => Stored(record', store')
    BY <1>2
  <2>6. QED
    BY <1>1, <1>2, <2>1, <2>2, <2>3, <2>4, <2>5, CleanedOn
<1>4. ASSUME NEW d \in job[p].todo \intersect Staged(p).files,
             /\ staging' = [staging EXCEPT ![job[p].plan].files = @ \ {d}]
             /\ job' = [job EXCEPT ![p] = [job[p] EXCEPT !.todo = @ \ {d}, !.deleted = @ \union {d}]]
      PROVE  Proceeds(p)
  <2>1. staging[j.plan].files \in SUBSET Digest /\ d \in staging[j.plan].files /\ d \in Digest
    BY <1>1, <1>2, <1>4 DEF FilesTyped, Boxes, Staged
  <2>2. PICK kept \in SUBSET Digest : kept = staging[j.plan].files \ {d}
    BY <2>1
  <2>3. staging' = [staging EXCEPT ![j.plan].files = kept]
    BY <1>4, <2>2
  <2>4. DOMAIN staging' = DOMAIN staging /\ staging' \in [DOMAIN staging' -> Boxes] /\ staging'[j.plan].files = kept
    BY <1>1, <1>2, <2>3, Refiled
  <2>5. PICK todo \in SUBSET Digest : todo = j.todo \ {d}
    BY <1>1 DEF Jobs
  <2>6. PICK deleted \in SUBSET Digest : deleted = j.deleted \union {d}
    BY <1>1, <2>1 DEF Jobs
  <2>7. PICK v : v = [j EXCEPT !.todo = todo]
    OBVIOUS
  <2>8. /\ v \in Jobs /\ v.todo = todo /\ v.at = j.at /\ v.pid = j.pid /\ v.command = j.command /\ v.lk = "in" /\ v.was = j.was
        /\ v.plan = j.plan /\ v.moved = j.moved /\ v.deleted = j.deleted /\ v.restored = j.restored
    BY <1>1, <2>7 DEF Jobs
  <2>9. PICK w : w = [v EXCEPT !.deleted = deleted]
    OBVIOUS
  <2>10. /\ w \in Jobs /\ w.todo = todo /\ w.at = 12 /\ w.pid = j.pid /\ w.command = "cleanup" /\ w.lk = "in" /\ w.was = j.was
         /\ w.plan = j.plan /\ w.moved = j.moved /\ w.deleted = deleted /\ w.restored = j.restored
    BY <1>1, <2>8, <2>9 DEF Jobs
  <2>11. job' = [job EXCEPT ![p] = w]
    BY <1>4, <2>5, <2>6, <2>7, <2>8, <2>9
  <2>12. job' \in [Proc -> Jobs] /\ job'[p] = w /\ \A q \in Proc \ {p} : job'[q] = job[q]
    BY <1>1, <2>10, <2>11
  <2>13. FilesTyped'
    BY <1>1, <1>2, <2>4 DEF FilesTyped
  <2>14. w.todo \subseteq w.plan.eligible /\ w.moved \subseteq w.plan.eligible
    BY <1>1, <2>5, <2>10
  <2>15. ASSUME Cleaning(j, record, store, staging) PROVE Cleaning(w, record', store', staging')
    <3>1. /\ record = j.plan.record /\ j.plan.eligible \intersect Referenced(record) = {} /\ j.plan.eligible \intersect store = {}
          /\ j.todo = j.plan.eligible \ j.deleted /\ j.deleted \subseteq j.plan.eligible
          /\ staging[j.plan].files = j.plan.eligible \ j.deleted /\ j.moved = j.plan.eligible
      BY <1>1, <2>15 DEF Cleaning
    <3>2. d \in j.plan.eligible
      BY <1>1, <1>4
    <3>3. w.todo = w.plan.eligible \ w.deleted /\ w.deleted \subseteq w.plan.eligible
      BY <2>5, <2>6, <2>10, <3>1, <3>2
    <3>4. staging'[w.plan].files = w.plan.eligible \ w.deleted /\ w.plan \in DOMAIN staging'
      BY <1>2, <2>2, <2>4, <2>6, <2>10, <3>1
    <3>5. QED
      BY <1>2, <2>10, <3>1, <3>3, <3>4 DEF Cleaning
  <2>16. Stored(record, store) => Stored(record', store')
    BY <1>2
  <2>17. QED
    BY <1>1, <1>2, <2>10, <2>12, <2>13, <2>14, <2>15, <2>16, CleanedOn
<1>5. QED
  BY <1>3, <1>4 DEF Delete

(***************************************************************************)
(* The lock.                                                               *)
(***************************************************************************)

LEMMA IdleFits == ASSUME NEW offered PROVE MemoryFits(Idle, offered)
BY IdleIs DEF MemoryFits, ReadDone, IsCleaning

\* Who is inside or waits has a pid and a command.
LEMMA HasCommand ==
  ASSUME WorkspaceKnows, NEW p \in Proc, job[p].pid # 0 \/ job[p].lk # "out"
  PROVE  job[p] \in Jobs /\ MemoryFits(job[p], previews) /\ job[p].pid # 0 /\ job[p].command \in Commands
<1>1. job[p] \in Jobs /\ MemoryFits(job[p], previews)
  BY DEF WorkspaceKnows, WorkspaceTyped
<1>2. job[p].pid = 0 => job[p].lk = "out"
  BY <1>1, IdleIs DEF MemoryFits
<1>3. job[p].command = "none" => job[p].pid = 0
  BY <1>1, IdleIs DEF MemoryFits
<1>4. QED
  BY <1>1, <1>2, <1>3 DEF Jobs

\* A process that takes or leaves the lock remembers the same.
LEMMA Relocked ==
  ASSUME NEW j \in Jobs, NEW offered, MemoryFits(j, offered), j.pid # 0, j.command # "none", NEW lk \in LockStates,
         NEW n, n = [j EXCEPT !.lk = lk]
  PROVE  /\ n \in Jobs /\ MemoryFits(n, offered) /\ n.lk = lk /\ n.pid = j.pid /\ n.command = j.command /\ n.at = j.at
         /\ n.arg = j.arg /\ n.id = j.id /\ n.was = j.was /\ n.seen = j.seen /\ n.plan = j.plan /\ n.todo = j.todo
         /\ n.moved = j.moved /\ n.deleted = j.deleted /\ n.restored = j.restored
<1>1. /\ n \in Jobs /\ n.lk = lk /\ n.pid = j.pid /\ n.command = j.command /\ n.at = j.at
      /\ n.arg = j.arg /\ n.id = j.id /\ n.was = j.was /\ n.seen = j.seen /\ n.plan = j.plan /\ n.todo = j.todo
      /\ n.moved = j.moved /\ n.deleted = j.deleted /\ n.restored = j.restored
  BY DEF Jobs
<1>2. ReadDone(n) <=> ReadDone(j)
  BY <1>1 DEF ReadDone
<1>3. IsCleaning(n) <=> IsCleaning(j)
  BY <1>1 DEF IsCleaning
<1>4. MemoryFits(n, offered)
  BY <1>1, <1>2, <1>3 DEF MemoryFits
<1>5. QED
  BY <1>1, <1>4

\* What a step of the lock leaves.
LEMMA LockStep ==
  ASSUME WorkspaceKnows, NEW p \in Proc, NEW n \in Jobs, job' = [job EXCEPT ![p] = n], UNCHANGED <<record, store, staging, previews>>,
         MemoryFits(n, previews), n.pid # 0 /\ n.lk \notin {"in", "leaving"} => n.at \in DOMAIN Program[n.command] /\ n.command # "none",
         lock' \in Nat, runs' \in Nat, lock' <= runs', runs <= runs', broken' \in BOOLEAN, broken => broken',
         n.pid \in {0, job[p].pid} \/ (runs < n.pid /\ n.pid <= runs'),
         ~broken' => /\ Knows(n, record, store, staging) /\ (n.lk \in {"in", "leaving"} => lock' = n.pid)
                     /\ \A q \in Proc \ {p} : Inside(q) => lock' = job[q].pid
  PROVE  WorkspaceKnows'
<1>1. job \in [Proc -> Jobs] /\ FilesTyped /\ runs \in Nat /\ \A q \in Proc : MemoryFits(job[q], previews)
  BY DEF WorkspaceKnows, WorkspaceTyped
<1>2. job' \in [Proc -> Jobs] /\ job'[p] = n /\ \A q \in Proc \ {p} : job'[q] = job[q]
  BY <1>1
<1>3. FilesTyped'
  BY <1>1 DEF FilesTyped
<1>4. WorkspaceTyped'
  <2>1. \A q \in Proc : MemoryFits(job'[q], previews')
    BY <1>1, <1>2
  <2>2. QED
    BY <1>2, <1>3, <2>1 DEF WorkspaceTyped
<1>5. PidsAreOwn'
  <2>1. \A q \in Proc : job[q].pid \in Nat /\ job[q].pid <= runs
    BY <1>1 DEF WorkspaceKnows, PidsAreOwn, Jobs
  <2>2. n.pid \in Nat
    BY DEF Jobs
  <2>3. \A q \in Proc : job'[q].pid <= runs'
    BY <1>1, <1>2, <2>1, <2>2
  <2>4. ASSUME NEW q \in Proc, NEW r \in Proc, job'[q].pid # 0, job'[r].pid = job'[q].pid PROVE q = r
    <3>1. CASE q # p /\ r # p
      BY <1>2, <2>4, <3>1 DEF WorkspaceKnows, PidsAreOwn
    <3>2. CASE q = p /\ r # p
      <4>1. job[r].pid = n.pid /\ n.pid # 0
        BY <1>2, <2>4, <3>2
      <4>2. n.pid = job[p].pid
        BY <1>1, <2>1, <2>2, <4>1
      <4>3. QED
        BY <3>2, <4>1, <4>2 DEF WorkspaceKnows, PidsAreOwn
    <3>3. CASE q # p /\ r = p
      <4>1. job[q].pid = n.pid /\ n.pid # 0
        BY <1>2, <2>4, <3>3
      <4>2. n.pid = job[p].pid
        BY <1>1, <2>1, <2>2, <4>1
      <4>3. QED
        BY <3>3, <4>1, <4>2 DEF WorkspaceKnows, PidsAreOwn
    <3>4. QED
      BY <3>1, <3>2, <3>3
  <2>5. QED
    BY <2>3, <2>4 DEF PidsAreOwn
<1>6. WaitersArePlaced'
  <2>1. ASSUME NEW q \in Proc, job'[q].pid # 0, job'[q].lk \notin {"in", "leaving"}
        PROVE  job'[q].at \in DOMAIN Program[job'[q].command] /\ job'[q].command # "none"
    <3>1. CASE q = p
      BY <1>2, <2>1, <3>1
    <3>2. CASE q # p
      BY <1>2, <2>1, <3>2 DEF WorkspaceKnows, WaitersArePlaced, Steps, Inside
    <3>3. QED
      BY <3>1, <3>2
  <2>2. QED
    BY <2>1 DEF WaitersArePlaced, Steps, Inside
<1>7. ASSUME ~broken' PROVE HolderIsNamed' /\ ProcessesKnow' /\ Stored(record, store)'
  <2>1. ProcessesKnow /\ Stored(record, store)
    BY <1>7 DEF WorkspaceKnows
  <2>2. ASSUME NEW q \in Proc, job'[q].lk \in {"in", "leaving"} PROVE lock' = job'[q].pid
    <3>1. CASE q = p
      BY <1>2, <1>7, <2>2, <3>1
    <3>2. CASE q # p
      BY <1>2, <1>7, <2>2, <3>2 DEF Inside
    <3>3. QED
      BY <3>1, <3>2
  <2>3. \A q \in Proc : Knows(job'[q], record', store', staging')
    BY <1>2, <1>7, <2>1 DEF ProcessesKnow
  <2>4. QED
    BY <2>1, <2>2, <2>3 DEF HolderIsNamed, ProcessesKnow, Inside, Stored
<1>8. QED
  BY <1>4, <1>5, <1>6, <1>7 DEF WorkspaceKnows

\* The commands a user starts.
Started == {"attach", "enable", "disable", "switch", "rollback", "remove", "preview", "cleanup"}

\* Each of them has a first step.
LEMMA FirstPlace == ASSUME NEW c \in Started PROVE 1 \in DOMAIN Program[c] /\ c \in Commands
<1>1. c \in Commands
  BY DEF Started, Commands
<1>2. PICK s : s = Program[c]
  OBVIOUS
<1>3. DOMAIN s = 1..3 \/ DOMAIN s = 1..4 \/ DOMAIN s = 1..6 \/ DOMAIN s = 1..7 \/ DOMAIN s = 1..15
  BY <1>2, ProgramIs DEF Started
<1>4. QED
  BY <1>1, <1>2, <1>3

\* A process that begins a command knows nothing yet.
LEMMA BeginCommand ==
  ASSUME WorkspaceKnows, NEW p \in Proc, NEW c \in Started, NEW id \in Nat, NEW arg \in Digest \union {None},
         NEW was \in AttachmentType \union Plans \union {None}, Begins(p, c, id, arg, was),
         c \in {"attach", "switch"} => arg \in Digest, c = "cleanup" => was \in previews
  PROVE  WorkspaceKnows'
<1>1. job[p] = Idle /\ runs' = runs + 1 /\ UNCHANGED <<lock, record, store, staging, receipt, previews, crashes, broken>>
  BY DEF Begins
<1>2. runs \in Nat /\ lock \in Nat /\ lock <= runs /\ broken \in BOOLEAN
  BY DEF WorkspaceKnows, WorkspaceTyped, PidsAreOwn
<1>3. PICK n : n = [Idle EXCEPT !.pid = runs + 1, !.at = 1, !.command = c, !.id = id, !.arg = arg, !.was = was]
  OBVIOUS
<1>4. /\ n.pid = runs + 1 /\ n.at = 1 /\ n.command = c /\ n.id = id /\ n.arg = arg /\ n.was = was /\ n.lk = "out"
      /\ n.seen = None /\ n.plan = None /\ n.todo = {} /\ n.moved = {} /\ n.deleted = {} /\ n.restored = {}
  BY <1>3 DEF Idle
<1>5. c \in Commands /\ 1 \in DOMAIN Program[c]
  BY FirstPlace
<1>6. n \in Jobs
  <2>1. PICK a : a = [Idle EXCEPT !.pid = runs + 1]
    OBVIOUS
  <2>2. a \in Jobs
    BY <1>2, <2>1, IdleIs DEF Jobs
  <2>3. PICK b : b = [a EXCEPT !.at = 1]
    OBVIOUS
  <2>4. b \in Jobs
    BY <2>2, <2>3 DEF Jobs
  <2>5. PICK d : d = [b EXCEPT !.command = c]
    OBVIOUS
  <2>6. d \in Jobs
    BY <1>5, <2>4, <2>5 DEF Jobs
  <2>7. PICK e : e = [d EXCEPT !.id = id]
    OBVIOUS
  <2>8. e \in Jobs
    BY <2>6, <2>7 DEF Jobs
  <2>9. PICK f : f = [e EXCEPT !.arg = arg]
    OBVIOUS
  <2>10. f \in Jobs
    BY <2>8, <2>9 DEF Jobs
  <2>11. n = [f EXCEPT !.was = was]
    BY <1>3, <2>1, <2>3, <2>5, <2>7, <2>9
  <2>12. QED
    BY <2>10, <2>11 DEF Jobs
<1>7. job' = [job EXCEPT ![p] = n]
  BY <1>3 DEF Begins
<1>8. c # "none" /\ n.pid # 0
  BY <1>2, <1>4 DEF Started
<1>9. MemoryFits(n, previews)
  BY <1>4, <1>8 DEF MemoryFits, ReadDone, IsCleaning
<1>10. Knows(n, record, store, staging)
  BY <1>4 DEF Knows
<1>11. \A q \in Proc : ~broken' /\ Inside(q) => lock' = job[q].pid
  BY <1>1 DEF WorkspaceKnows, HolderIsNamed
<1>12. n.pid # 0 /\ n.lk \notin {"in", "leaving"} => n.at \in DOMAIN Program[n.command] /\ n.command # "none"
  BY <1>4, <1>5, <1>8
<1>13. lock' \in Nat /\ runs' \in Nat /\ lock' <= runs' /\ runs <= runs' /\ broken' \in BOOLEAN /\ (broken => broken')
  BY <1>1, <1>2
<1>14. runs < n.pid /\ n.pid <= runs'
  BY <1>1, <1>2, <1>4
<1>15. n.lk \notin {"in", "leaving"}
  BY <1>4
<1>16. UNCHANGED <<record, store, staging, previews>>
  BY <1>1
<1>17. QED
  BY <1>6, <1>7, <1>9, <1>10, <1>11, <1>12, <1>13, <1>14, <1>15, <1>16, LockStep

\* A command starts.
LEMMA CommandStarts ==
  ASSUME WorkspaceKnows, NEW p \in Proc, Starts(p)
  PROVE  WorkspaceKnows'
<1>1. runs \in Nat /\ FilesTyped /\ previews \subseteq Plans
  BY DEF WorkspaceKnows, WorkspaceTyped, FilesTyped
<1>2. Ids \subseteq Nat
  <2>1. CASE record = None
    BY <2>1 DEF Ids
  <2>2. CASE record # None
    BY <1>1, <2>2, MapIs DEF Ids, FilesTyped
  <2>3. QED
    BY <2>1, <2>2
<1>3. CASE StartAttach(p)
  <2>1. PICK d \in Digest : Begins(p, "attach", runs + 1, d, None)
    BY <1>3 DEF StartAttach, Prepared
  <2>2. "attach" \in Started /\ runs + 1 \in Nat
    BY <1>1 DEF Started
  <2>3. QED
    BY <2>1, <2>2, BeginCommand
<1>4. CASE StartSwitch(p)
  <2>1. PICK id \in Ids, d \in Digest : Begins(p, "switch", id, d, None)
    BY <1>4 DEF StartSwitch, Prepared
  <2>2. "switch" \in Started /\ id \in Nat
    BY <1>2 DEF Started
  <2>3. QED
    BY <2>1, <2>2, BeginCommand
<1>5. CASE StartMutation(p)
  <2>1. PICK id \in Ids, c \in {"enable", "disable", "rollback", "remove"} : Begins(p, c, id, None, None)
    BY <1>5 DEF StartMutation
  <2>2. c \in Started /\ id \in Nat /\ c \notin {"attach", "switch"} /\ c # "cleanup"
    BY <1>2 DEF Started
  <2>3. QED
    BY <2>1, <2>2, BeginCommand
<1>6. CASE StartCleanup(p)
  <2>1. CASE Begins(p, "preview", 0, None, None)
    <3>1. "preview" \in Started /\ 0 \in Nat
      BY DEF Started
    <3>2. QED
      BY <2>1, <3>1, BeginCommand
  <2>2. CASE \E plan \in previews : Begins(p, "cleanup", 0, None, plan)
    <3>1. PICK plan \in previews : Begins(p, "cleanup", 0, None, plan)
      BY <2>2
    <3>2. "cleanup" \in Started /\ 0 \in Nat /\ plan \in Plans
      BY <1>1 DEF Started
    <3>3. QED
      BY <3>1, <3>2, BeginCommand
  <2>3. QED
    BY <1>6, <2>1, <2>2 DEF StartCleanup
<1>7. QED
  BY <1>3, <1>4, <1>5, <1>6 DEF Starts

\* The place of a command before its lock.
LEMMA BeforePlace ==
  ASSUME WorkspaceKnows, NEW p \in Proc, NEW line, Before(p, line)
  PROVE  /\ job[p] \in Jobs /\ MemoryFits(job[p], previews) /\ job[p].pid # 0 /\ job[p].lk = "out" /\ job[p].command \in Commands
         /\ job[p].at \in DOMAIN Program[job[p].command] /\ Program[job[p].command][job[p].at] = line
<1>1. job[p].pid # 0 /\ job[p].lk = "out" /\ Steps(p)[job[p].at] = line
  BY DEF Before
<1>2. job[p] \in Jobs /\ MemoryFits(job[p], previews) /\ job[p].command \in Commands
  BY <1>1, HasCommand
<1>3. job[p].at \in DOMAIN Steps(p)
  BY <1>1 DEF WorkspaceKnows, WaitersArePlaced, Inside
<1>4. QED
  BY <1>1, <1>2, <1>3 DEF Steps

\* A switch goes on after its first step.
LEMMA SecondPlace == 2 \in DOMAIN Program["switch"]
<1>1. PICK s : s = Program["switch"]
  OBVIOUS
<1>2. DOMAIN s = 1..6
  BY <1>1, ProgramIs
<1>3. QED
  BY <1>1, <1>2

\* The verification a switch makes before it takes the lock.
LEMMA InitialStep ==
  ASSUME WorkspaceKnows, NEW p \in Proc, Initial(p)
  PROVE  WorkspaceKnows'
<1> DEFINE j == job[p]
<1>1. /\ j \in Jobs /\ MemoryFits(j, previews) /\ j.pid # 0 /\ j.lk = "out" /\ j.command \in Commands
      /\ j.at \in DOMAIN Program[j.command] /\ Program[j.command][j.at] = "initial"
  BY BeforePlace DEF Initial
<1>2. j.command = "switch" /\ j.at = 1
  BY <1>1, Places
<1>3. UNCHANGED <<lock, record, store, staging, receipt, previews, runs, crashes, broken>> /\ j.id \in Ids
  BY DEF Initial
<1>4. job \in [Proc -> Jobs] /\ FilesTyped /\ runs \in Nat /\ lock \in Nat /\ lock <= runs /\ broken \in BOOLEAN
  BY DEF WorkspaceKnows, WorkspaceTyped, PidsAreOwn
<1>5. record \in Maps /\ j.id \in DOMAIN record
  BY <1>3, <1>4 DEF Ids, FilesTyped
<1>6. PICK a \in AttachmentType : a = record[j.id]
  BY <1>5, MapIs
<1>7. PICK w : w = [j EXCEPT !.was = a]
  OBVIOUS
<1>8. /\ w \in Jobs /\ w.at = 1 /\ w.pid = j.pid /\ w.command = "switch" /\ w.lk = "out" /\ w.arg = j.arg
  BY <1>1, <1>2, <1>7 DEF Jobs
<1>9. PICK n : n = [w EXCEPT !.at = @ + 1]
  OBVIOUS
<1>10. n \in Jobs /\ n.at = 2 /\ n.pid = j.pid /\ n.command = "switch" /\ n.lk = "out" /\ n.arg = j.arg
  BY <1>8, <1>9 DEF Jobs
<1>11. job' = [job EXCEPT ![p] = n]
  BY <1>6, <1>7, <1>9 DEF Initial, Goes
<1>12. MemoryFits(n, previews)
  BY <1>1, <1>2, <1>10 DEF MemoryFits, ReadDone, IsCleaning
<1>13. Knows(n, record, store, staging)
  BY <1>10 DEF Knows
<1>14. \A q \in Proc : ~broken' /\ Inside(q) => lock' = job[q].pid
  BY <1>3 DEF WorkspaceKnows, HolderIsNamed
<1>15. n.at \in DOMAIN Program[n.command] /\ n.command # "none" /\ n.lk \notin {"in", "leaving"}
  BY <1>10, SecondPlace
<1>16. UNCHANGED <<record, store, staging, previews>> /\ runs' = runs /\ lock' = lock /\ broken' = broken
  BY <1>3
<1>17. lock' \in Nat /\ runs' \in Nat /\ lock' <= runs' /\ runs <= runs' /\ broken' \in BOOLEAN /\ (broken => broken')
  BY <1>4, <1>16
<1>18. QED
  BY <1>10, <1>11, <1>12, <1>13, <1>14, <1>15, <1>16, <1>17, LockStep

\* Linking the lock file: it succeeds for one process only.
LEMMA LinkLock ==
  ASSUME WorkspaceKnows, NEW p \in Proc, Link(p)
  PROVE  WorkspaceKnows'
<1> DEFINE j == job[p]
<1>1. /\ j \in Jobs /\ MemoryFits(j, previews) /\ j.pid # 0 /\ j.lk = "out" /\ j.command \in Commands
      /\ j.at \in DOMAIN Program[j.command] /\ Program[j.command][j.at] = "lock"
  BY BeforePlace DEF Link
<1>2. (j.command = "switch" /\ j.at = 2) \/ (j.command \notin {"switch", "unmove", "undelete"} /\ j.at = 1)
  BY <1>1, Places
<1>3. UNCHANGED <<record, store, staging, receipt, previews, runs, crashes, broken>>
  BY DEF Link
<1>4. job \in [Proc -> Jobs] /\ runs \in Nat /\ lock \in Nat /\ lock <= runs /\ j.pid <= runs /\ broken \in BOOLEAN
  BY DEF WorkspaceKnows, WorkspaceTyped, PidsAreOwn
<1>5. j.command # "none" /\ {"in", "blocked"} \subseteq LockStates
  BY <1>1 DEF Commands, LockStates
<1>6. CASE lock = 0
  <2>1. PICK w : w = [j EXCEPT !.lk = "in"]
    OBVIOUS
  <2>2. /\ w \in Jobs /\ MemoryFits(w, previews) /\ w.lk = "in" /\ w.pid = j.pid /\ w.command = j.command /\ w.at = j.at
        /\ w.arg = j.arg /\ w.was = j.was /\ w.moved = j.moved /\ w.deleted = j.deleted /\ w.restored = j.restored
    BY <1>1, <1>5, <2>1, Relocked
  <2>3. PICK n : n = [w EXCEPT !.at = @ + 1]
    OBVIOUS
  <2>4. /\ n \in Jobs /\ n.lk = "in" /\ n.pid = j.pid /\ n.command = j.command /\ n.at = j.at + 1
        /\ n.arg = j.arg /\ n.was = j.was /\ n.moved = j.moved /\ n.deleted = j.deleted /\ n.restored = j.restored
    BY <2>2, <2>3 DEF Jobs
  <2>5. job' = [job EXCEPT ![p] = n] /\ lock' = j.pid
    BY <1>6, <2>1, <2>3 DEF Link, Goes
  <2>6. ~ReadDone(n) /\ ~IsCleaning(n) /\ ~IsUndoing(n)
    BY <1>2, <2>4 DEF ReadDone, IsCleaning, IsUndoing
  <2>7. MemoryFits(n, previews)
    BY <1>1, <1>2, <1>5, <2>4, <2>6 DEF MemoryFits
  <2>8. Knows(n, record, store, staging)
    BY <1>2, <2>4, <2>6 DEF Knows, Unwritten
  <2>9. ASSUME ~broken', NEW q \in Proc, Inside(q) PROVE FALSE
    <3>1. job[q].pid = 0
      BY <1>3, <1>6, <2>9 DEF WorkspaceKnows, HolderIsNamed
    <3>2. job[q].pid # 0
      BY <2>9, HasCommand DEF Inside
    <3>3. QED
      BY <3>1, <3>2
  <2>10. lock' \in Nat /\ runs' \in Nat /\ lock' <= runs' /\ runs <= runs' /\ broken' \in BOOLEAN /\ (broken => broken')
    BY <1>1, <1>3, <1>4, <2>5 DEF Jobs
  <2>11. n.pid \in {0, j.pid} /\ lock' = n.pid
    BY <2>4, <2>5
  <2>12. UNCHANGED <<record, store, staging, previews>>
    BY <1>3
  <2>13. QED
    BY <2>4, <2>5, <2>7, <2>8, <2>9, <2>10, <2>11, <2>12, LockStep
<1>7. CASE lock # 0
  <2>1. PICK n : n = [j EXCEPT !.lk = "blocked"]
    OBVIOUS
  <2>2. n \in Jobs /\ MemoryFits(n, previews) /\ n.lk = "blocked" /\ n.pid = j.pid /\ n.command = j.command /\ n.at = j.at
    BY <1>1, <1>5, <2>1, Relocked
  <2>3. job' = [job EXCEPT ![p] = n] /\ lock' = lock
    BY <1>7, <2>1 DEF Link
  <2>4. Knows(n, record, store, staging)
    BY <2>2 DEF Knows
  <2>5. n.at \in DOMAIN Program[n.command] /\ n.command # "none"
    BY <1>1, <1>5, <2>2
  <2>6. \A q \in Proc : ~broken' /\ Inside(q) => lock' = job[q].pid
    BY <1>3, <2>3 DEF WorkspaceKnows, HolderIsNamed
  <2>7. lock' \in Nat /\ runs' \in Nat /\ lock' <= runs' /\ runs <= runs' /\ broken' \in BOOLEAN /\ (broken => broken')
    BY <1>3, <1>4, <2>3
  <2>8. n.pid \in {0, j.pid} /\ n.lk \notin {"in", "leaving"}
    BY <2>2
  <2>9. UNCHANGED <<record, store, staging, previews>>
    BY <1>3
  <2>10. QED
    BY <2>2, <2>3, <2>4, <2>5, <2>6, <2>7, <2>8, <2>9, LockStep
<1>8. QED
  BY <1>6, <1>7

\* A command ends without the lock: it has given it up, or never had it.
LEMMA EndCommand ==
  ASSUME WorkspaceKnows, NEW p \in Proc, job' = [job EXCEPT ![p] = Idle], UNCHANGED <<record, store, staging, previews, runs>>,
         lock' = lock \/ lock' = 0, broken' \in BOOLEAN, broken => broken',
         ~broken' => \A q \in Proc \ {p} : Inside(q) => lock' = job[q].pid
  PROVE  WorkspaceKnows'
<1>1. runs \in Nat /\ lock \in Nat /\ lock <= runs
  BY DEF WorkspaceKnows, WorkspaceTyped, PidsAreOwn
<1>2. Idle \in Jobs /\ MemoryFits(Idle, previews) /\ Idle.pid = 0 /\ Idle.lk = "out"
  BY IdleIs, IdleFits
<1>3. Knows(Idle, record, store, staging)
  BY <1>2 DEF Knows
<1>4. lock' \in Nat /\ runs' \in Nat /\ lock' <= runs' /\ runs <= runs'
  BY <1>1
<1>5. PICK n \in Jobs : n = Idle
  BY <1>2
<1>6. /\ MemoryFits(n, previews) /\ n.pid = 0 /\ n.lk \notin {"in", "leaving"} /\ Knows(n, record, store, staging)
      /\ job' = [job EXCEPT ![p] = n]
  BY <1>2, <1>3, <1>5
<1>7. n.pid \in {0, job[p].pid}
  BY <1>6
<1>8. UNCHANGED <<record, store, staging, previews>>
  OBVIOUS
<1>9. QED
  BY <1>4, <1>6, <1>7, <1>8, LockStep

\* Looking at who owns the lock.
LEMMA InspectOwner ==
  ASSUME WorkspaceKnows, NEW p \in Proc, InspectLock(p)
  PROVE  WorkspaceKnows'
<1> DEFINE j == job[p]
<1>1. j.lk = "blocked" /\ UNCHANGED <<lock, record, store, staging, receipt, previews, runs, crashes, broken>>
  BY DEF InspectLock
<1>2. j \in Jobs /\ MemoryFits(j, previews) /\ j.pid # 0 /\ j.command \in Commands
  BY <1>1, HasCommand
<1>3. j.at \in DOMAIN Program[j.command] /\ j.command # "none"
  BY <1>1, <1>2 DEF WorkspaceKnows, WaitersArePlaced, Steps, Inside
<1>4. runs \in Nat /\ lock \in Nat /\ lock <= runs /\ broken \in BOOLEAN
  BY DEF WorkspaceKnows, WorkspaceTyped, PidsAreOwn
<1>5. \A q \in Proc : ~broken' /\ Inside(q) => lock' = job[q].pid
  BY <1>1 DEF WorkspaceKnows, HolderIsNamed
<1>6. lock' \in Nat /\ runs' \in Nat /\ lock' <= runs' /\ runs <= runs' /\ broken' \in BOOLEAN /\ (broken => broken')
  BY <1>1, <1>4
<1>7. CASE lock # 0 /\ ~ProcessIsAlive(lock)
  <2>1. PICK n : n = [j EXCEPT !.lk = "stealing"]
    OBVIOUS
  <2>2. n \in Jobs /\ MemoryFits(n, previews) /\ n.lk = "stealing" /\ n.pid = j.pid /\ n.command = j.command /\ n.at = j.at
    <3>1. "stealing" \in LockStates
      BY DEF LockStates
    <3>2. QED
      BY <1>2, <1>3, <2>1, <3>1, Relocked
  <2>3. job' = [job EXCEPT ![p] = n]
    BY <1>7, <2>1 DEF InspectLock
  <2>4. Knows(n, record, store, staging)
    BY <2>2 DEF Knows
  <2>5. n.at \in DOMAIN Program[n.command] /\ n.command # "none"
    BY <1>3, <2>2
  <2>6. n.pid \in {0, j.pid} /\ n.lk \notin {"in", "leaving"}
    BY <2>2
  <2>7. UNCHANGED <<record, store, staging, previews>>
    BY <1>1
  <2>8. QED
    BY <1>5, <1>6, <2>2, <2>3, <2>4, <2>5, <2>6, <2>7, LockStep
<1>8. CASE ~(lock # 0 /\ ~ProcessIsAlive(lock))
  <2>1. job' = [job EXCEPT ![p] = Idle]
    BY <1>8 DEF InspectLock
  <2>2. QED
    BY <1>1, <1>5, <1>6, <2>1, EndCommand
<1>9. QED
  BY <1>7, <1>8

\* Taking over a lock: its owner is dead, or the lock is broken from here on.
LEMMA StealOwned ==
  ASSUME WorkspaceKnows, NEW p \in Proc, StealLock(p)
  PROVE  WorkspaceKnows'
<1> DEFINE j == job[p]
<1>1. /\ j.lk = "stealing" /\ UNCHANGED <<record, store, staging, receipt, previews, runs, crashes>> /\ lock' = 0
      /\ broken' = (broken \/ (lock # 0 /\ ProcessIsAlive(lock)))
  BY DEF StealLock
<1>2. j \in Jobs /\ MemoryFits(j, previews) /\ j.pid # 0 /\ j.command \in Commands
  BY <1>1, HasCommand
<1>3. j.at \in DOMAIN Program[j.command] /\ j.command # "none"
  BY <1>1, <1>2 DEF WorkspaceKnows, WaitersArePlaced, Steps, Inside
<1>4. runs \in Nat
  BY DEF WorkspaceKnows, WorkspaceTyped, PidsAreOwn
<1>5. ASSUME ~broken', NEW q \in Proc, Inside(q) PROVE FALSE
  <2>1. ~broken /\ ~(lock # 0 /\ ProcessIsAlive(lock))
    BY <1>1, <1>5
  <2>2. lock = job[q].pid
    BY <1>5, <2>1 DEF WorkspaceKnows, HolderIsNamed
  <2>3. job[q].pid # 0
    BY <1>5, HasCommand DEF Inside
  <2>4. QED
    BY <2>1, <2>2, <2>3 DEF ProcessIsAlive
<1>6. lock' \in Nat /\ runs' \in Nat /\ lock' <= runs' /\ runs <= runs'
  BY <1>1, <1>4
<1>7. broken' \in BOOLEAN /\ (broken => broken')
  BY <1>1
<1>8. PICK n : n = [j EXCEPT !.lk = "out"]
  OBVIOUS
<1>9. n \in Jobs /\ MemoryFits(n, previews) /\ n.lk = "out" /\ n.pid = j.pid /\ n.command = j.command /\ n.at = j.at
  <2>1. "out" \in LockStates
    BY DEF LockStates
  <2>2. QED
    BY <1>2, <1>3, <1>8, <2>1, Relocked
<1>10. job' = [job EXCEPT ![p] = n]
  BY <1>8 DEF StealLock
<1>11. Knows(n, record, store, staging)
  BY <1>9 DEF Knows
<1>12. n.at \in DOMAIN Program[n.command] /\ n.command # "none" /\ n.pid \in {0, j.pid} /\ n.lk \notin {"in", "leaving"}
  BY <1>3, <1>9
<1>13. UNCHANGED <<record, store, staging, previews>>
  BY <1>1
<1>14. QED
  BY <1>5, <1>6, <1>7, <1>9, <1>10, <1>11, <1>12, <1>13, LockStep

\* Giving the lock up.
LEMMA LockLeft ==
  ASSUME WorkspaceKnows, NEW p \in Proc, Leave(p)
  PROVE  WorkspaceKnows'
<1>1. /\ job[p].lk \in {"in", "leaving"} /\ lock' = 0 /\ broken' = (broken \/ lock \notin {0, job[p].pid})
      /\ job' = [job EXCEPT ![p] = Idle] /\ UNCHANGED <<record, store, staging, receipt, previews, runs, crashes>>
  BY DEF Leave
<1>2. ASSUME ~broken', NEW q \in Proc, Inside(q), q # p PROVE FALSE
  <2>1. ~broken
    BY <1>1, <1>2
  <2>2. Inside(p)
    BY <1>1 DEF Inside
  <2>3. QED
    BY <1>2, <2>1, <2>2, InsideIsOne
<1>3. broken' \in BOOLEAN /\ (broken => broken')
  BY <1>1
<1>4. QED
  BY <1>1, <1>2, <1>3, EndCommand

\* A crash leaves the lock to a pid nobody has, and the disk as it is.
LEMMA CrashIs ==
  ASSUME WorkspaceKnows, NEW p \in Proc, Crash(p)
  PROVE  WorkspaceKnows'
<1>1. job' = [job EXCEPT ![p] = Idle] /\ UNCHANGED <<lock, record, store, staging, receipt, previews, runs, broken>>
  BY DEF Crash
<1>2. \A q \in Proc : ~broken' /\ Inside(q) => lock' = job[q].pid
  BY <1>1 DEF WorkspaceKnows, HolderIsNamed
<1>3. broken' \in BOOLEAN /\ (broken => broken')
  BY <1>1 DEF WorkspaceKnows, WorkspaceTyped
<1>4. QED
  BY <1>1, <1>2, <1>3, EndCommand

\* A call that fails: a cleanup that has deleted some of its plan puts back the rest.
LEMMA FailCall ==
  ASSUME WorkspaceKnows, NEW p \in Proc, Fail(p)
  PROVE  WorkspaceKnows'
<1> DEFINE j == job[p]
           Undone(how) == [j EXCEPT !.command = how, !.at = 1, !.todo = j.moved, !.restored = {}]
<1>1. j.pid # 0 /\ j.lk \in {"in", "out"} /\ UNCHANGED <<lock, record, store, staging, receipt, previews, runs, crashes, broken>>
  BY DEF Fail
<1>2. j \in Jobs /\ MemoryFits(j, previews) /\ j.command \in Commands /\ j.command # "none"
  BY <1>1, HasCommand DEF Commands
<1>3. runs \in Nat /\ lock \in Nat /\ lock <= runs /\ broken \in BOOLEAN /\ WorkspaceTyped
  BY DEF WorkspaceKnows, WorkspaceTyped, PidsAreOwn
<1>4. \A q \in Proc : ~broken' /\ Inside(q) => lock' = job[q].pid
  BY <1>1 DEF WorkspaceKnows, HolderIsNamed
<1>5. lock' \in Nat /\ runs' \in Nat /\ lock' <= runs' /\ runs <= runs' /\ broken' \in BOOLEAN /\ (broken => broken')
  BY <1>1, <1>3
<1>6. UNCHANGED <<record, store, staging, previews>>
  BY <1>1
<1>7. CASE j.lk = "out"
  <2>1. job' = [job EXCEPT ![p] = Idle]
    BY <1>7 DEF Fail
  <2>2. QED
    BY <1>1, <1>4, <1>5, <2>1, EndCommand
<1>8. ASSUME NEW how \in {"unmove", "undelete"}, NEW n, n = Undone(how)
      PROVE  /\ n \in Jobs /\ n.pid = j.pid /\ n.lk = j.lk /\ n.command = how /\ n.at = 1 /\ n.todo = j.moved /\ n.restored = {}
             /\ n.plan = j.plan /\ n.deleted = j.deleted /\ MemoryFits(n, previews)
  <2>1. /\ n.pid = j.pid /\ n.lk = j.lk /\ n.command = how /\ n.at = 1 /\ n.todo = j.moved /\ n.restored = {}
        /\ n.plan = j.plan /\ n.deleted = j.deleted
    BY <1>2, <1>8 DEF Jobs
  <2>2. n \in Jobs
    <3>1. PICK moved \in SUBSET Digest : moved = j.moved
      BY <1>2 DEF Jobs
    <3>2. PICK a : a = [j EXCEPT !.command = how]
      OBVIOUS
    <3>3. a \in Jobs
      BY <1>2, <1>8, <3>2 DEF Jobs, Commands
    <3>4. PICK b : b = [a EXCEPT !.at = 1]
      OBVIOUS
    <3>5. b \in Jobs
      BY <3>3, <3>4 DEF Jobs
    <3>6. PICK c : c = [b EXCEPT !.todo = moved]
      OBVIOUS
    <3>7. c \in Jobs
      BY <3>5, <3>6 DEF Jobs
    <3>8. n = [c EXCEPT !.restored = {}]
      BY <1>8, <3>1, <3>2, <3>4, <3>6
    <3>9. QED
      BY <3>7, <3>8 DEF Jobs
  <2>3. MemoryFits(n, previews)
    BY <1>1, <1>8, <2>1, RemembersNothing
  <2>4. QED
    BY <2>1, <2>2, <2>3
<1>9. CASE j.lk = "in" /\ (At(p, "move") \/ At(p, "recheck"))
  <2>1. PICK n : n = Undone("unmove")
    OBVIOUS
  <2>2. job' = [job EXCEPT ![p] = n]
    BY <1>9, <2>1 DEF Fail
  <2>3. n \in Jobs /\ n.pid = j.pid /\ n.lk = "in" /\ n.command = "unmove" /\ n.at = 1 /\ MemoryFits(n, previews)
    BY <1>8, <1>9, <2>1
  <2>4. ~IsCleaning(n) /\ ~IsUndoing(n)
    BY <2>3 DEF IsCleaning, IsUndoing
  <2>5. Knows(n, record, store, staging)
    BY <2>3, <2>4, KnowsNothing
  <2>6. n.pid \in {0, j.pid} /\ (n.pid # 0 /\ n.lk \notin {"in", "leaving"} => n.at \in DOMAIN Program[n.command] /\ n.command # "none")
    BY <2>3
  <2>7. ~broken' => lock' = n.pid
    BY <1>4, <1>9, <2>3 DEF Inside
  <2>8. QED
    BY <1>4, <1>5, <1>6, <2>2, <2>3, <2>5, <2>6, <2>7, LockStep
<1>10. CASE j.lk = "in" /\ At(p, "delete") /\ ~(At(p, "move") \/ At(p, "recheck"))
  <2>1. PICK n : n = Undone("undelete")
    OBVIOUS
  <2>2. job' = [job EXCEPT ![p] = n]
    BY <1>10, <2>1 DEF Fail
  <2>3. /\ n \in Jobs /\ n.pid = j.pid /\ n.lk = "in" /\ n.command = "undelete" /\ n.at = 1 /\ n.todo = j.moved /\ n.restored = {}
        /\ n.plan = j.plan /\ n.deleted = j.deleted /\ MemoryFits(n, previews)
    BY <1>8, <1>10, <2>1
  <2>4. j.command = "cleanup" /\ j.at = 12
    BY <1>3, <1>10, CleanupAt
  <2>5. ASSUME ~broken PROVE Knows(n, record, store, staging)
    <3>1. Cleaning(j, record, store, staging)
      BY <1>10, <2>4, <2>5 DEF WorkspaceKnows, ProcessesKnow, Knows, IsCleaning
    <3>2. /\ j.plan \in DOMAIN staging /\ staging[j.plan].files = j.plan.eligible \ j.deleted /\ j.deleted \subseteq j.plan.eligible
          /\ j.moved = j.plan.eligible /\ j.plan.eligible \intersect store = {}
      BY <2>4, <3>1 DEF Cleaning
    <3>3. Undoing(n, store, staging)
      BY <2>3, <3>2 DEF Undoing
    <3>4. QED
      BY <2>3, <3>3 DEF Knows, Unwritten, ReadDone, IsCleaning
  <2>6. n.pid \in {0, j.pid} /\ (n.pid # 0 /\ n.lk \notin {"in", "leaving"} => n.at \in DOMAIN Program[n.command] /\ n.command # "none")
    BY <2>3
  <2>7. ~broken' => lock' = n.pid
    BY <1>4, <1>10, <2>3 DEF Inside
  <2>8. QED
    BY <1>1, <1>4, <1>5, <1>6, <2>2, <2>3, <2>5, <2>6, <2>7, LockStep
<1>11. CASE j.lk = "in" /\ ~(At(p, "move") \/ At(p, "recheck")) /\ ~At(p, "delete")
  <2>1. PICK n : n = [j EXCEPT !.lk = "leaving"]
    OBVIOUS
  <2>2. job' = [job EXCEPT ![p] = n]
    BY <1>11, <2>1 DEF Fail
  <2>3. n \in Jobs /\ n.pid = j.pid /\ n.lk = "leaving" /\ MemoryFits(n, previews)
    <3>1. "leaving" \in LockStates
      BY DEF LockStates
    <3>2. QED
      BY <1>1, <1>2, <2>1, <3>1, Relocked
  <2>4. Knows(n, record, store, staging)
    BY <2>3 DEF Knows
  <2>5. n.pid \in {0, j.pid} /\ (n.pid # 0 /\ n.lk \notin {"in", "leaving"} => n.at \in DOMAIN Program[n.command] /\ n.command # "none")
    BY <2>3
  <2>6. ~broken' => lock' = n.pid
    BY <1>4, <1>11, <2>3 DEF Inside
  <2>7. QED
    BY <1>4, <1>5, <1>6, <2>2, <2>3, <2>4, <2>5, <2>6, LockStep
<1>12. QED
  BY <1>1, <1>7, <1>9, <1>10, <1>11

(***************************************************************************)
(* All the steps, and what follows.                                        *)
(***************************************************************************)

LEMMA WorkspaceStart ==
  ASSUME WorkspaceInit
  PROVE  WorkspaceKnows
<1>1. /\ job = [p \in Proc |-> Idle] /\ lock = 0 /\ staging = <<>> /\ receipt = NoReceipt
      /\ previews = {} /\ runs = 0 /\ crashes = 0 /\ broken = FALSE
  BY DEF WorkspaceInit
<1>2. (record \in Maps \union {None}) /\ store \subseteq Digest /\ Stored(record, store)
  <2>1. Referenced(<<>>) = {}
    BY NoMap DEF Referenced
  <2>2. CASE record = None /\ store = {}
    BY <2>1, <2>2 DEF Stored, Recorded
  <2>3. CASE record = <<>> /\ store = Digest
    <3>1. Recorded(record) = <<>>
      BY <2>3 DEF Recorded
    <3>2. Stored(record, store)
      BY <2>1, <3>1 DEF Stored
    <3>3. QED
      BY <2>3, <3>2, NoMap
  <2>4. ASSUME NEW new \in Digest, NEW old \in Digest, record = [id \in {0} |-> Attachment(new, <<old>>)], store = {new, old}
        PROVE  record \in Maps /\ store \subseteq Digest /\ Stored(record, store)
    <3>1. PICK h : h = <<old>>
      OBVIOUS
    <3>2. h \in Seq(Digest) /\ \A i \in DOMAIN h : h[i] = old
      BY <3>1
    <3>3. PICK a : a = Attachment(new, h)
      OBVIOUS
    <3>4. a \in AttachmentType /\ a.asset = new /\ a.history = h
      BY <3>2, <3>3 DEF Attachment, AttachmentType
    <3>5. record = [id \in {0} |-> a]
      BY <2>4, <3>1, <3>3
    <3>6. record \in [{0} -> AttachmentType] /\ DOMAIN record = {0} /\ record[0] = a
      BY <3>4, <3>5
    <3>7. record \in Maps
      <4>1. {0} \subseteq Nat
        OBVIOUS
      <4>2. QED
        BY <3>6, <4>1, IsMap
    <3>8. Uses(a) \subseteq store
      BY <2>4, <3>2, <3>4 DEF Uses, Range
    <3>9. Referenced(record) \subseteq store
      BY <3>6, <3>8 DEF Referenced, Uses
    <3>10. Stored(record, store)
      <4>1. Recorded(record) = record \/ Recorded(record) = <<>>
        BY DEF Recorded
      <4>2. QED
        BY <2>1, <3>9, <4>1 DEF Stored
    <3>11. QED
      BY <2>4, <3>7, <3>10
  <2>5. QED
    BY <2>2, <2>3, <2>4 DEF WorkspaceInit
<1>3. DOMAIN staging = {} /\ staging \in [{} -> Boxes]
  BY <1>1
<1>4. FilesTyped
  BY <1>1, <1>2, <1>3 DEF FilesTyped
<1>5. job \in [Proc -> Jobs] /\ \A p \in Proc : job[p] = Idle
  BY <1>1, IdleIs
<1>6. \A p \in Proc : MemoryFits(job[p], previews)
  BY <1>5, IdleFits
<1>7. WorkspaceTyped
  BY <1>1, <1>4, <1>5, <1>6 DEF WorkspaceTyped
<1>8. PidsAreOwn
  BY <1>1, <1>5, IdleIs DEF PidsAreOwn
<1>9. WaitersArePlaced
  BY <1>5, IdleIs DEF WaitersArePlaced
<1>10. HolderIsNamed
  BY <1>5, IdleIs DEF HolderIsNamed, Inside
<1>11. ProcessesKnow
  BY <1>5, IdleIs DEF ProcessesKnow, Knows
<1>12. QED
  BY <1>2, <1>7, <1>8, <1>9, <1>10, <1>11 DEF WorkspaceKnows

\* A step of the world that touches neither processes nor disk.
LEMMA WorkspaceIdles ==
  ASSUME WorkspaceKnows, UNCHANGED <<job, lock, record, store, staging, previews, runs, broken>>
  PROVE  WorkspaceKnows'
<1>1. WorkspaceTyped'
  BY DEF WorkspaceKnows, WorkspaceTyped, FilesTyped
<1>2. PidsAreOwn'
  BY DEF WorkspaceKnows, PidsAreOwn
<1>3. WaitersArePlaced'
  BY DEF WorkspaceKnows, WaitersArePlaced, Steps, Inside
<1>4. ASSUME ~broken' PROVE HolderIsNamed' /\ ProcessesKnow' /\ Stored(record, store)'
  BY <1>4 DEF WorkspaceKnows, HolderIsNamed, ProcessesKnow, Inside
<1>5. QED
  BY <1>1, <1>2, <1>3, <1>4 DEF WorkspaceKnows

\* Every step keeps the invariant.
LEMMA WorkspaceStep ==
  ASSUME WorkspaceKnows, WorkspaceNext \/ UNCHANGED workspaceVars
  PROVE  WorkspaceKnows'
<1>1. WorkspaceTyped
  BY DEF WorkspaceKnows
<1>2. CASE UNCHANGED workspaceVars \/ AllEnded
  <2>1. UNCHANGED workspaceVars
    BY <1>2 DEF AllEnded
  <2>2. UNCHANGED <<job, lock, record, store, staging, previews, runs, broken>>
    BY <2>1 DEF workspaceVars
  <2>3. QED
    BY <2>2, WorkspaceIdles
<1>3. ASSUME NEW p \in Proc, Locks(p) PROVE WorkspaceKnows'
  BY <1>3, CommandStarts, InitialStep, LinkLock, InspectOwner, StealOwned, LockLeft, FailCall, CrashIs DEF Locks
<1>4. ASSUME NEW p \in Proc, Mutates(p) PROVE WorkspaceKnows'
  <2>1. Proceeds(p)
    BY <1>1, <1>4, ReadFile, VerifyAssets, StoreSnapshot, WriteRecord DEF Mutates
  <2>2. QED
    BY <2>1, InsideStep
<1>5. ASSUME NEW p \in Proc, Cleans(p) PROVE WorkspaceKnows'
  <2>1. CASE Progress(p)
    <3>1. UNCHANGED <<job, lock, record, store, staging, previews, runs, broken>>
      BY <2>1 DEF Progress
    <3>2. QED
      BY <3>1, WorkspaceIdles
  <2>2. CASE ~Progress(p)
    <3>1. Proceeds(p)
      BY <1>1, <1>5, <2>2, FindStaging, RestoreSnapshots, RemovePlan, RemoveStaging, ReportCleanup, MakePlan, StageDirectory, StagePlan,
         MoveSnapshots, RecheckRecord, DeleteSnapshots DEF Cleans
    <3>2. QED
      BY <3>1, InsideStep
  <2>3. QED
    BY <2>1, <2>2
<1>6. QED
  BY <1>2, <1>3, <1>4, <1>5 DEF WorkspaceNext

\* The invariant says what the run checks.
LEMMA WorkspaceTells ==
  ASSUME WorkspaceKnows
  PROVE  WorkspaceInv
<1>1. CASE broken \/ record = None
  BY <1>1 DEF WorkspaceInv, ReferencedIsStored
<1>2. CASE ~broken /\ record # None
  <2>1. Referenced(record) \subseteq store
    BY <1>2 DEF WorkspaceKnows, Stored, Recorded
  <2>2. QED
    BY <2>1 DEF Referenced, WorkspaceInv, ReferencedIsStored
<1>3. QED
  BY <1>1, <1>2 DEF WorkspaceKnows, WorkspaceTyped

\* Only a write changes the record.
LEMMA WhoWrites ==
  ASSUME WorkspaceNext \/ UNCHANGED workspaceVars, record' # record
  PROVE  \E p \in Proc : Write(p)
<1>1. \A p \in Proc : Locks(p) => UNCHANGED record
  BY DEF Locks, Starts, StartAttach, StartSwitch, StartMutation, StartCleanup, Begins, Initial, Link, InspectLock, StealLock, Leave,
         Fail, Crash
<1>2. \A p \in Proc : Read(p) \/ Verify(p) \/ Store(p) => UNCHANGED record
  BY DEF Read, Verify, Store
<1>3. \A p \in Proc : Cleans(p) => UNCHANGED record
  BY DEF Cleans, Found, Restore, Unplan, Rmdir, Report, Plan, MakeStaging, WritePlan, Move, Recheck, Delete, Progress
<1>4. AllEnded => UNCHANGED record
  BY DEF AllEnded, workspaceVars
<1>5. QED
  BY <1>1, <1>2, <1>3, <1>4 DEF WorkspaceNext, Mutates, workspaceVars

\* No step changes two attachments, and a switch only the one its user was shown.
LEMMA RecordMoves ==
  ASSUME WorkspaceKnows, WorkspaceNext \/ UNCHANGED workspaceVars
  PROVE  RecordChangesByOne
<1> DEFINE Has(attachments, id) == id \in DOMAIN attachments
           changed == {id \in DOMAIN record \union DOMAIN record' : ~Has(record, id) \/ ~Has(record', id) \/ record[id] # record'[id]}
<1>1. SUFFICES ASSUME ~broken, record' # record, record # None
               PROVE  /\ Cardinality(changed) = 1
                      /\ \A id \in changed : \A q \in Proc : At(q, "write") /\ job[q].command = "switch" => record[id] = job[q].was
  BY DEF RecordChangesByOne
<1>2. PICK p \in Proc : Write(p)
  BY <1>1, WhoWrites
<1>3. WorkspaceTyped
  BY DEF WorkspaceKnows
<1>4. PICK j : j = job[p]
  OBVIOUS
<1>5. ReadDone(j) /\ Unwritten(j) /\ j.lk = "in" /\ MemoryFits(j, previews)
  BY <1>2, <1>3, <1>4, WriteRecord, AtPlace DEF Write
<1>6. j.seen = record
  BY <1>1, <1>4, <1>5 DEF WorkspaceKnows, ProcessesKnow, Knows, Recorded
<1>7. /\ record' \in Maps
      /\ \A id : id # j.id => (id \in DOMAIN record' <=> id \in DOMAIN record) /\ (id \in DOMAIN record => record'[id] = record[id])
  <2>1. record' = Mutated(p)
    BY <1>2 DEF Write
  <2>2. QED
    BY <1>2, <1>3, <1>4, <1>5, <1>6, <2>1, MutatedOnce
<1>8. record \in Maps
  BY <1>1, <1>3 DEF WorkspaceTyped, FilesTyped
<1>9. changed \subseteq {j.id}
  <2>1. ASSUME NEW x, x # j.id, x \in DOMAIN record \/ x \in DOMAIN record'
        PROVE  x \in DOMAIN record /\ x \in DOMAIN record' /\ record[x] = record'[x]
    BY ONLY <1>7, <2>1
  <2>2. QED
    BY <2>1
<1>10. changed # {}
  <2>1. ASSUME changed = {} PROVE FALSE
    <3>1. \A id \in DOMAIN record \union DOMAIN record' : id \in DOMAIN record /\ id \in DOMAIN record' /\ record[id] = record'[id]
      BY <2>1
    <3>2. DOMAIN record = DOMAIN record' /\ \A id \in DOMAIN record : record[id] = record'[id]
      BY <3>1
    <3>3. record \in [DOMAIN record -> AttachmentType] /\ record' \in [DOMAIN record' -> AttachmentType]
      BY <1>7, <1>8, MapIs
    <3>4. record = record'
      BY <3>2, <3>3
    <3>5. QED
      BY <1>1, <3>4
  <2>2. QED
    BY <2>1
<1>11. changed = {j.id}
  BY <1>9, <1>10
<1>12. Cardinality(changed) = 1
  <2> HIDE DEF changed
  <2>1. QED
    BY <1>11, FS_Singleton
<1>13. ASSUME NEW id \in changed, NEW q \in Proc, At(q, "write"), job[q].command = "switch" PROVE record[id] = job[q].was
  <2>1. q = p
    BY <1>1, <1>4, <1>5, <1>13, InsideIsOne DEF Inside, At
  <2>2. j.seen[j.id] = j.was
    BY <1>4, <1>5, <1>13, <2>1 DEF MemoryFits
  <2>3. QED
    BY <1>4, <1>6, <1>11, <1>13, <2>1, <2>2
<1>14. QED
  BY <1>12, <1>13

\* A step leaves what is on the disk there, but for a deletion of what its user has seen.
LEMMA Deleted ==
  ASSUME WorkspaceKnows, NEW p \in Proc, Delete(p), NEW d, d \in OnDisk, d \notin OnDisk'
  PROVE  job[p].was \in previews /\ d \in job[p].was.eligible /\ (broken \/ record = job[p].was.record)
<1> DEFINE j == job[p]
<1>1. WorkspaceTyped
  BY DEF WorkspaceKnows
<1>2. /\ FilesTyped /\ j \in Jobs /\ j.lk = "in" /\ j.command = "cleanup" /\ j.at = 12 /\ j.plan = j.was /\ j.plan \in previews
      /\ j.todo \subseteq j.plan.eligible
  BY <1>1, CleanupAt DEF Delete
<1>3. j.plan \in DOMAIN staging /\ store' = store
  BY DEF Delete, IsThere
<1>4. staging' # staging
  BY <1>3 DEF OnDisk
<1>5. PICK e \in j.todo \intersect staging[j.plan].files : staging' = [staging EXCEPT ![j.plan].files = @ \ {e}]
  BY <1>4 DEF Delete, Staged
<1>6. staging[j.plan].files \in SUBSET Digest
  BY <1>2, <1>3 DEF FilesTyped, Boxes
<1>7. PICK kept \in SUBSET Digest : kept = staging[j.plan].files \ {e}
  BY <1>6
<1>8. staging' = [staging EXCEPT ![j.plan].files = kept]
  BY <1>5, <1>7
<1>9. /\ DOMAIN staging' = DOMAIN staging /\ staging'[j.plan].files = kept
      /\ \A other \in DOMAIN staging \ {j.plan} : staging'[other] = staging[other]
  BY <1>2, <1>3, <1>8, Refiled
<1>10. d = e
  <2>1. d \notin store /\ \A plan \in DOMAIN staging : d \notin staging'[plan].files
    BY <1>3, <1>9 DEF OnDisk
  <2>2. PICK plan \in DOMAIN staging : d \in staging[plan].files
    BY <2>1 DEF OnDisk
  <2>3. plan = j.plan
    BY <1>9, <2>1, <2>2
  <2>4. d \notin kept
    BY <1>3, <1>9, <2>1
  <2>5. QED
    BY <1>7, <2>2, <2>3, <2>4
<1>11. ASSUME ~broken PROVE record = j.plan.record
  <2>1. Knows(j, record, store, staging)
    BY <1>11 DEF WorkspaceKnows, ProcessesKnow
  <2>2. Cleaning(j, record, store, staging)
    BY <1>2, <2>1 DEF Knows, IsCleaning
  <2>3. QED
    BY <2>2 DEF Cleaning
<1>12. QED
  BY <1>2, <1>5, <1>10, <1>11

\* Only a deletion takes a snapshot off the disk.
LEMMA DiskKept ==
  ASSUME WorkspaceKnows, WorkspaceNext \/ UNCHANGED workspaceVars, NEW d, d \in OnDisk, d \notin OnDisk'
  PROVE  \E p \in Proc : Delete(p)
<1>1. FilesTyped
  BY DEF WorkspaceKnows, WorkspaceTyped
<1>2. ASSUME UNCHANGED <<store, staging>> PROVE FALSE
  BY <1>2 DEF OnDisk
<1>3. \A p \in Proc : Locks(p) => UNCHANGED <<store, staging>>
  BY DEF Locks, Starts, StartAttach, StartSwitch, StartMutation, StartCleanup, Begins, Initial, Link, InspectLock, StealLock, Leave,
         Fail, Crash
<1>4. \A p \in Proc : Read(p) \/ Verify(p) \/ Write(p) => UNCHANGED <<store, staging>>
  BY DEF Read, Verify, Write
<1>5. \A p \in Proc : Found(p) \/ Report(p) \/ Plan(p) \/ Recheck(p) \/ Progress(p) => UNCHANGED <<store, staging>>
  BY DEF Found, Report, Plan, Recheck, Progress
<1>6. ASSUME NEW p \in Proc, Store(p) PROVE FALSE
  BY <1>6 DEF Store, OnDisk
<1>7. ASSUME NEW p \in Proc, Unplan(p) \/ WritePlan(p) PROVE FALSE
  <2>1. job[p].plan \in DOMAIN staging /\ store' = store
    BY <1>7 DEF Unplan, WritePlan, IsThere
  <2>2. PICK whole \in BOOLEAN : staging' = [staging EXCEPT ![job[p].plan].written = whole]
    BY <1>7 DEF Unplan, WritePlan
  <2>3. DOMAIN staging' = DOMAIN staging /\ \A any \in DOMAIN staging : staging'[any].files = staging[any].files
    BY <1>1, <2>1, <2>2, Rewritten
  <2>4. QED
    BY <2>1, <2>3 DEF OnDisk
<1>8. ASSUME NEW p \in Proc, Rmdir(p) PROVE FALSE
  <2>1. /\ staging[job[p].plan].files = {} /\ store' = store
        /\ staging' = [plan \in DOMAIN staging \ {job[p].plan} |-> staging[plan]]
    BY <1>8 DEF Rmdir, Staged
  <2>2. QED
    BY <2>1 DEF OnDisk
<1>9. ASSUME NEW p \in Proc, MakeStaging(p) PROVE FALSE
  <2>1. job[p].plan \notin DOMAIN staging /\ store' = store
    BY <1>9 DEF MakeStaging
  <2>2. PICK b : b = [written |-> FALSE, files |-> {}]
    OBVIOUS
  <2>3. staging' = [plan \in DOMAIN staging \union {job[p].plan} |-> IF plan = job[p].plan THEN b ELSE staging[plan]]
    BY <1>9, <2>2 DEF MakeStaging
  <2>4. DOMAIN staging \subseteq DOMAIN staging' /\ \A plan \in DOMAIN staging : staging'[plan] = staging[plan]
    BY <2>1, <2>3
  <2>5. QED
    BY <2>1, <2>4 DEF OnDisk
<1>10. ASSUME NEW p \in Proc, Restore(p) PROVE FALSE
  <2>1. PICK e \in staging[job[p].plan].files :
          store' = store \union {e} /\ staging' = [staging EXCEPT ![job[p].plan].files = @ \ {e}] /\ job[p].plan \in DOMAIN staging
    BY <1>2, <1>10 DEF Restore, Staged, IsThere
  <2>2. staging[job[p].plan].files \in SUBSET Digest
    BY <1>1, <2>1 DEF FilesTyped, Boxes
  <2>3. PICK kept \in SUBSET Digest : kept = staging[job[p].plan].files \ {e}
    BY <2>2
  <2>4. staging' = [staging EXCEPT ![job[p].plan].files = kept]
    BY <2>1, <2>3
  <2>5. /\ DOMAIN staging' = DOMAIN staging /\ staging'[job[p].plan].files = kept
        /\ \A other \in DOMAIN staging \ {job[p].plan} : staging'[other] = staging[other]
    BY <1>1, <2>1, <2>4, Refiled
  <2>6. d \notin store /\ d # e /\ \A plan \in DOMAIN staging : d \notin staging'[plan].files
    BY <2>1, <2>5 DEF OnDisk
  <2>7. PICK plan \in DOMAIN staging : d \in staging[plan].files
    BY <2>6 DEF OnDisk
  <2>8. QED
    BY <2>1, <2>3, <2>5, <2>6, <2>7
<1>11. ASSUME NEW p \in Proc, Move(p) PROVE FALSE
  <2>1. PICK e \in store :
          store' = store \ {e} /\ staging' = [staging EXCEPT ![job[p].plan].files = @ \union {e}] /\ job[p].plan \in DOMAIN staging
    BY <1>2, <1>11 DEF Move, IsThere
  <2>2. staging[job[p].plan].files \in SUBSET Digest /\ e \in Digest
    BY <1>1, <2>1 DEF FilesTyped, Boxes
  <2>3. PICK kept \in SUBSET Digest : kept = staging[job[p].plan].files \union {e}
    BY <2>2
  <2>4. staging' = [staging EXCEPT ![job[p].plan].files = kept]
    BY <2>1, <2>3
  <2>5. /\ DOMAIN staging' = DOMAIN staging /\ staging'[job[p].plan].files = kept
        /\ \A other \in DOMAIN staging \ {job[p].plan} : staging'[other] = staging[other]
    BY <1>1, <2>1, <2>4, Refiled
  <2>6. d \notin store' /\ \A plan \in DOMAIN staging : d \notin staging'[plan].files
    BY <2>5 DEF OnDisk
  <2>7. d \notin kept /\ d # e
    BY <2>1, <2>3, <2>5, <2>6
  <2>8. d \notin store
    BY <2>1, <2>6, <2>7
  <2>9. PICK plan \in DOMAIN staging : d \in staging[plan].files
    BY <2>8 DEF OnDisk
  <2>10. QED
    BY <2>3, <2>5, <2>6, <2>7, <2>9
<1>12. UNCHANGED workspaceVars \/ AllEnded => UNCHANGED <<store, staging>>
  BY DEF AllEnded, workspaceVars
<1>13. PICK p \in Proc : Locks(p) \/ Mutates(p) \/ Cleans(p)
  BY <1>2, <1>12 DEF WorkspaceNext
<1>14. QED
  BY <1>2, <1>3, <1>4, <1>5, <1>6, <1>7, <1>8, <1>9, <1>10, <1>11, <1>13 DEF Mutates, Cleans

\* Only a report and the progress of a deletion change the receipt.
LEMMA WhoReports ==
  ASSUME WorkspaceNext \/ UNCHANGED workspaceVars, receipt' # receipt
  PROVE  \E p \in Proc : Report(p) \/ Progress(p)
<1>1. \A p \in Proc : Locks(p) => UNCHANGED receipt
  BY DEF Locks, Starts, StartAttach, StartSwitch, StartMutation, StartCleanup, Begins, Initial, Link, InspectLock, StealLock, Leave,
         Fail, Crash
<1>2. \A p \in Proc : Mutates(p) => UNCHANGED receipt
  BY DEF Mutates, Read, Verify, Store, Write
<1>3. \A p \in Proc : Cleans(p) /\ ~Report(p) /\ ~Progress(p) => UNCHANGED receipt
  BY DEF Cleans, Found, Restore, Unplan, Rmdir, Plan, MakeStaging, WritePlan, Move, Recheck, Delete
<1>4. AllEnded => UNCHANGED receipt
  BY DEF AllEnded, workspaceVars
<1>5. QED
  BY <1>1, <1>2, <1>3, <1>4 DEF WorkspaceNext, workspaceVars

\* What a deletion takes was in the approved plan.
LEMMA CleanupMoves ==
  ASSUME WorkspaceKnows, WorkspaceNext \/ UNCHANGED workspaceVars
  PROVE  CleanupIsApproved
<1>1. ASSUME NEW d \in OnDisk \ OnDisk'
      PROVE  \E p \in Proc : job[p].was \in previews /\ d \in job[p].was.eligible /\ (broken \/ record = job[p].was.record)
  <2>1. PICK p \in Proc : Delete(p)
    BY <1>1, DiskKept
  <2>2. QED
    BY <1>1, <2>1, Deleted
<1>2. ASSUME ~broken, receipt' # receipt, receipt'.status \in {"pass", "partial"}
      PROVE  /\ receipt'.deleted \intersect store' = {} /\ receipt'.restored \subseteq store'
             /\ receipt'.deleted \union receipt'.restored = receipt'.plan.eligible
  <2>1. PICK p \in Proc : Report(p) \/ Progress(p)
    BY <1>2, WhoReports
  <2>2. ~Progress(p)
    <3>1. Progress(p) => receipt'.status = "progress"
      BY DEF Progress
    <3>2. QED
      BY <1>2, <3>1
  <2>3. WorkspaceTyped /\ Knows(job[p], record, store, staging)
    BY <1>2 DEF WorkspaceKnows, ProcessesKnow
  <2>4. QED
    BY <1>2, <2>1, <2>2, <2>3, ReportCleanup
<1>3. QED
  BY <1>1, <1>2 DEF CleanupIsApproved

--------------------------------------------------------------------------------

(***************************************************************************)
(* Resolution: what a task is told to load.                                *)
(***************************************************************************)

\* What a decision says of the scopes it was made from.
LEMMA Decided ==
  ASSUME NEW seen
  PROVE  /\ Decide(seen).decision \in {"ask", "load", "skip"}
         /\ Decide(seen).decision = "ask" =>
              \A a \in Enabled(seen) : Applies(a) \/ (scope[a].open /\ ~scope[a].pos /\ ~scope[a].neg) => a \in Decide(seen).check
         /\ Decide(seen).decision = "skip" =>
              \A a \in Enabled(seen) : ~(Applies(a) \/ (scope[a].open /\ ~scope[a].pos /\ ~scope[a].neg))
         /\ Decide(seen).decision = "load" =>
              /\ Unsure(seen) = {} /\ OpenWorld(seen) = {}
              /\ \E a \in Enabled(seen) : Applies(a) /\ Positive(seen) = {a} /\ Decide(seen).check = {a}
<1> DEFINE clear == Unsure(seen) = {} /\ ~(Unsure(seen) = {} /\ Ambiguous(seen) # {})
                    /\ ~(Unsure(seen) \union Ambiguous(seen) = {} /\ (Cardinality(Positive(seen)) > 1 \/ Contradictory(seen) # {}))
<1>1. CASE Unsure(seen) # {}
  <2>1. /\ Decide(seen).decision = "ask"
        /\ Decide(seen).check = {a \in Enabled(seen) : scope[a].pos \/ scope[a].unsure} \union OpenWorld(seen)
    BY <1>1 DEF Decide
  <2>2. QED
    BY <2>1 DEF Applies, OpenWorld, Unmatched
<1>2. CASE Unsure(seen) = {} /\ Ambiguous(seen) # {}
  <2>1. /\ Decide(seen).decision = "ask"
        /\ Decide(seen).check = Ambiguous(seen) \union Positive(seen) \union OpenWorld(seen)
    BY <1>2 DEF Decide
  <2>2. QED
    BY <2>1 DEF Applies, OpenWorld, Unmatched, Positive
<1>3. CASE Unsure(seen) \union Ambiguous(seen) = {} /\ (Cardinality(Positive(seen)) > 1 \/ Contradictory(seen) # {})
  <2>1. /\ Decide(seen).decision = "ask"
        /\ Decide(seen).check = Positive(seen) \union Contradictory(seen) \union OpenWorld(seen)
    BY <1>3 DEF Decide
  <2>2. QED
    BY <2>1 DEF Applies, OpenWorld, Unmatched, Positive
<1>4. CASE Unsure(seen) \union Ambiguous(seen) = {} /\ ~(Cardinality(Positive(seen)) > 1) /\ Contradictory(seen) = {}
  <2>1. CASE OpenWorld(seen) # {}
    <3>1. Decide(seen).decision = "ask" /\ Decide(seen).check = Positive(seen) \union OpenWorld(seen)
      BY <1>4, <2>1 DEF Decide
    <3>2. QED
      BY <3>1 DEF Applies, OpenWorld, Unmatched, Positive
  <2>2. CASE OpenWorld(seen) = {} /\ Positive(seen) # {}
    <3>1. Decide(seen).decision = "load" /\ Decide(seen).check = Positive(seen)
      BY <1>4, <2>2 DEF Decide
    <3>2. IsFiniteSet(Positive(seen))
      BY ResolveAssumption, FS_Subset DEF Positive, Enabled
    <3>3. Cardinality(Positive(seen)) = 1
      BY <1>4, <2>2, <3>2, FS_CardinalityType, FS_EmptySet
    <3>4. PICK a : Positive(seen) = {a}
      BY <3>2, <3>3, FS_Singleton
    <3>5. a \in Enabled(seen) /\ Applies(a)
      BY <3>4 DEF Positive, Applies
    <3>6. QED
      BY <1>4, <2>2, <3>1, <3>4, <3>5
  <2>3. CASE OpenWorld(seen) = {} /\ Positive(seen) = {}
    <3>1. Decide(seen).decision = "skip"
      BY <1>4, <2>3 DEF Decide
    <3>2. QED
      BY <2>3, <3>1 DEF Applies, OpenWorld, Unmatched, Positive
  <2>4. QED
    BY <2>1, <2>2, <2>3
<1>5. QED
  BY <1>1, <1>2, <1>3, <1>4

\* What a call knows where it stands.
ResolveInv ==
  /\ step \in {"read", "verify", "asset", "again", "done"}
  /\ step # "done" => outcome.decision = "none"
  /\ step \in {"verify", "asset", "again"} => base = Decide(snap)
  /\ step = "verify" =>
       /\ unchecked \subseteq base.check
       /\ \A a \in base.check \ unchecked : Named(a) /\ (base.decision = "load" => a \in verified)
  /\ step \in {"asset", "again"} => selection # Nobody /\ MaySelect
  /\ step = "again" => selection.id \in verified
  /\ ResolutionIsClear

\* A call that has not begun knows nothing.
LEMMA ResolveStart ==
  ASSUME ResolveInit
  PROVE  ResolveInv
BY DEF ResolveInit, ResolveInv, ResolutionIsClear, LoadIsClear, NothingIsPassedOver, NoOutcome

\* Every step of a call, and every change of the workspace between two, keeps it.
LEMMA ResolveStep ==
  ASSUME ResolveInv, ResolveNext \/ UNCHANGED resolveVars
  PROVE  ResolveInv'
<1>1. CASE ReadAndDecide
  <2>1. step' = "verify" /\ base' = Decide(states) /\ snap' = states /\ outcome' = outcome /\ unchecked' = base'.check
    BY <1>1 DEF ReadAndDecide
  <2>2. scope' = scope /\ sameRole' = sameRole
    BY <1>1 DEF ReadAndDecide, World
  <2>3. base' = Decide(snap)'
    <3>1. Enabled(snap)' = Enabled(states)
      BY <2>1 DEF Enabled
    <3>2. /\ Unsure(snap)' = Unsure(states) /\ Ambiguous(snap)' = Ambiguous(states) /\ Positive(snap)' = Positive(states)
          /\ Negative(snap)' = Negative(states) /\ Unmatched(snap)' = Unmatched(states)
      BY <2>2, <3>1 DEF Unsure, Ambiguous, Positive, Negative, Unmatched
    <3>3. OpenWorld(snap)' = OpenWorld(states) /\ Contradictory(snap)' = Contradictory(states)
      BY <2>2, <3>2 DEF OpenWorld, Contradictory
    <3>4. QED
      BY <2>1, <2>2, <3>1, <3>2, <3>3 DEF Decide
  <2>4. outcome'.decision = "none"
    BY <1>1, <2>1 DEF ReadAndDecide, ResolveInv
  <2>5. QED
    BY <2>1, <2>3, <2>4 DEF ResolveInv, ResolutionIsClear, LoadIsClear, NothingIsPassedOver
<1>2. CASE VerifyCandidate
  <2>1. step = "verify" /\ base = Decide(snap) /\ outcome.decision = "none" /\ base' = base /\ snap' = snap
    BY <1>2 DEF VerifyCandidate, ResolveInv
  <2>2. Decide(snap)' = Decide(snap)
    BY <1>2 DEF VerifyCandidate, World, Decide, Unsure, Ambiguous, Positive, Negative, Unmatched, OpenWorld, Contradictory,
       Enabled
  <2>3. CASE Blocks
    BY <2>3 DEF Blocks, Ends, ResolveInv, ResolutionIsClear, LoadIsClear, NothingIsPassedOver
  <2>4. CASE ~Blocks
    <3>1. PICK a \in unchecked :
            /\ unchecked' = unchecked \ {a} /\ step' = step /\ outcome' = outcome
            /\ \E g : candidates' = candidates \union {<<a, g>>}
            /\ verified \subseteq verified' /\ (base.decision = "load" => a \in verified')
      BY <1>2, <2>4 DEF VerifyCandidate
    <3>2. PICK g : candidates' = candidates \union {<<a, g>>}
      BY <3>1
    <3>3. Named(a)' /\ \A x : Named(x) => Named(x)'
      <4>1. <<a, g>> \in candidates' /\ candidates \subseteq candidates' /\ <<a, g>>[1] = a
        BY <3>2
      <4>2. \A x : (\E c \in candidates : c[1] = x) => \E c \in candidates' : c[1] = x
        BY <4>1
      <4>3. \E c \in candidates' : c[1] = a
        BY <4>1
      <4>4. QED
        BY <4>2, <4>3 DEF Named
    <3>4. \A x \in base.check \ unchecked : Named(x) /\ (base.decision = "load" => x \in verified)
      BY <2>1 DEF ResolveInv
    <3>5. \A x \in base.check \ unchecked' : Named(x)' /\ (base.decision = "load" => x \in verified')
      BY <3>1, <3>3, <3>4
    <3>6. unchecked' \subseteq base.check /\ step' = "verify" /\ outcome' = outcome
      BY <2>1, <3>1 DEF ResolveInv
    <3>7. QED
      BY <2>1, <2>2, <3>5, <3>6 DEF ResolveInv, ResolutionIsClear, LoadIsClear, NothingIsPassedOver
  <2>5. QED
    BY <2>3, <2>4
<1>3. CASE Finish
  <2>1. /\ step = "verify" /\ unchecked = {} /\ base = Decide(snap) /\ outcome.decision = "none"
        /\ UNCHANGED <<World, selection, snap, base, unchecked, candidates, verified>>
        /\ \A a \in base.check : Named(a) /\ (base.decision = "load" => a \in verified)
    BY <1>3 DEF Finish, ResolveInv
  <2>2. Decide(snap)' = Decide(snap) /\ \A a : Applies(a)' = Applies(a) /\ MayApply(a)' = MayApply(a) /\ (Named(a) => Named(a)')
    BY <2>1, ZenonT(40) DEF World, Decide, Unsure, Ambiguous, Positive, Negative, Unmatched, OpenWorld, Contradictory, Enabled, Applies,
       MayApply, Named
  <2>3. Enabled(snap)' = Enabled(snap)
    BY <2>1 DEF Enabled
  <2>4. CASE Blocks
    BY <2>4 DEF Blocks, Ends, ResolveInv, ResolutionIsClear, LoadIsClear, NothingIsPassedOver
  <2>5. CASE selection # Nobody /\ MaySelect
    <3>1. step' = "asset" /\ outcome' = outcome
      BY <1>3, <2>5 DEF Finish
    <3>2. MaySelect'
      BY <2>1, <2>5 DEF MaySelect, Named, ReceiptFits, PlanNow
    <3>3. QED
      BY <2>1, <2>2, <2>5, <3>1, <3>2 DEF ResolveInv, ResolutionIsClear, LoadIsClear, NothingIsPassedOver
  <2>6. CASE selection = Nobody
    <3>1. /\ step' = "done" /\ outcome'.decision = base.decision
          /\ base.decision = "load" => outcome'.selected = CHOOSE a \in base.check : TRUE
      BY <1>3, <2>6 DEF Finish, Ends
    <3>2. LoadIsClear'
      <4>1. SUFFICES ASSUME base.decision = "load"
                     PROVE  /\ snap[outcome'.selected] = "enabled" /\ outcome'.selected \in verified /\ Applies(outcome'.selected)
                            /\ \A a \in Enabled(snap) \ {outcome'.selected} : ~MayApply(a) /\ ~scope[a].unsure
        BY <2>1, <2>2, <2>3, <3>1 DEF LoadIsClear, World
      <4>2. PICK a \in Enabled(snap) : Applies(a) /\ Positive(snap) = {a} /\ base.check = {a}
        BY <2>1, <4>1, Decided
      <4>3. Unsure(snap) = {} /\ OpenWorld(snap) = {}
        BY <2>1, <4>1, Decided
      <4>4. outcome'.selected = a
        BY <3>1, <4>1, <4>2
      <4>5. \A b \in Enabled(snap) \ {a} : ~MayApply(b) /\ ~scope[b].unsure
        BY <4>2, <4>3 DEF MayApply, Applies, Positive, OpenWorld, Unmatched, Unsure
      <4>6. QED
        BY <2>1, <4>1, <4>2, <4>4, <4>5 DEF Enabled
    <3>3. NothingIsPassedOver'
      <4>1. \A a \in Attached : MayApply(a) => a \in Enabled(snap) /\ (Applies(a) \/ (scope[a].open /\ ~scope[a].pos /\ ~scope[a].neg))
        BY DEF MayApply, Enabled
      <4>2. base.decision = "ask" => \A a \in Attached : MayApply(a) => Named(a)
        BY <2>1, <4>1, Decided
      <4>3. base.decision = "skip" => \A a \in Attached : ~MayApply(a)
        BY <2>1, <4>1, Decided
      <4>4. QED
        BY <2>2, <3>1, <4>2, <4>3 DEF NothingIsPassedOver
    <3>4. QED
      BY <3>1, <3>2, <3>3 DEF ResolveInv, ResolutionIsClear
  <2>7. QED
    BY <1>3, <2>4, <2>5, <2>6 DEF Finish
<1>4. CASE VerifySelected
  <2>1. /\ step = "asset" /\ base = Decide(snap) /\ outcome.decision = "none" /\ selection # Nobody /\ MaySelect
        /\ UNCHANGED <<World, selection, snap, base, unchecked, candidates>>
    BY <1>4 DEF VerifySelected, ResolveInv
  <2>2. Decide(snap)' = Decide(snap)
    BY <2>1 DEF World, Decide, Unsure, Ambiguous, Positive, Negative, Unmatched, OpenWorld, Contradictory, Enabled
  <2>3. MaySelect'
    BY <2>1 DEF MaySelect, Named, ReceiptFits, PlanNow
  <2>4. Blocks \/ (step' = "again" /\ selection.id \in verified' /\ UNCHANGED outcome)
    BY <1>4 DEF VerifySelected
  <2>5. QED
    BY <2>1, <2>2, <2>3, <2>4 DEF Blocks, Ends, ResolveInv, ResolutionIsClear, LoadIsClear, NothingIsPassedOver
<1>5. CASE ReadAgain
  <2>1. /\ step = "again" /\ selection # Nobody /\ MaySelect /\ selection.id \in verified
        /\ UNCHANGED <<World, selection, snap, base, unchecked, candidates, verified>>
    BY <1>5 DEF ReadAgain, ResolveInv
  <2>2. snap[selection.id] = "enabled"
    BY <2>1 DEF MaySelect
  <2>3. Blocks \/ Ends("load", selection.id, Nobody)
    BY <1>5 DEF ReadAgain
  <2>4. QED
    BY <2>1, <2>2, <2>3 DEF Blocks, Ends, ResolveInv, ResolutionIsClear, LoadIsClear, NothingIsPassedOver
<1>6. CASE Select
  BY <1>6 DEF Select, NoOutcome, ResolveInv, ResolutionIsClear, LoadIsClear, NothingIsPassedOver
<1>7. CASE Change \/ Resolved \/ UNCHANGED resolveVars
  <2>1. UNCHANGED <<scope, sameRole, selection, snap, base, unchecked, candidates, verified, step, outcome>>
    BY <1>7 DEF Change, Resolved, resolveVars
  <2>2. Decide(snap)' = Decide(snap)
    BY <2>1 DEF Decide, Unsure, Ambiguous, Positive, Negative, Unmatched, OpenWorld, Contradictory, Enabled
  <2>3. /\ MaySelect => MaySelect'
        /\ \A a : Applies(a)' = Applies(a) /\ MayApply(a)' = MayApply(a) /\ Named(a)' = Named(a)
        /\ Enabled(snap)' = Enabled(snap)
    BY <2>1 DEF MaySelect, Named, ReceiptFits, PlanNow, Applies, MayApply, Enabled
  <2>4. ResolutionIsClear'
    BY <2>1, <2>3 DEF ResolveInv, ResolutionIsClear, LoadIsClear, NothingIsPassedOver
  <2>5. QED
    BY <2>1, <2>2, <2>3, <2>4 DEF ResolveInv
<1>8. QED
  BY <1>1, <1>2, <1>3, <1>4, <1>5, <1>6, <1>7 DEF ResolveNext

\* The last look before a load compares with what the choice was made for.
LEMMA ChoiceStep ==
  ASSUME ResolveInv, ResolveNext \/ UNCHANGED resolveVars
  PROVE  ChoiceIsBound
<1>1. SUFFICES ASSUME step = "again", outcome'.decision = "load"
               PROVE  /\ states = snap /\ selection.sameTask
                      /\ selection.inTask \/ base.decision = "load"
                           \/ selection.receipt = [record |-> states, candidates |-> candidates]
  BY DEF ChoiceIsBound
<1>2. outcome.decision = "none" /\ base = Decide(snap) /\ MaySelect
  BY <1>1 DEF ResolveInv
<1>3. ReadAgain
  BY <1>1, <1>2 DEF ResolveNext, ReadAndDecide, VerifyCandidate, Finish, VerifySelected, Select, Change, Resolved, resolveVars
<1>4. states = snap
  BY <1>1, <1>3 DEF ReadAgain, Blocks, Ends
<1>5. base.decision \in {"ask", "load", "skip"}
  BY <1>2, Decided
<1>6. QED
  BY <1>2, <1>4, <1>5 DEF MaySelect, ReceiptFits, PlanNow

--------------------------------------------------------------------------------

(***************************************************************************)
(* The check of a source.                                                  *)
(***************************************************************************)

\* The fields checked that must not be as they are, and those that count twice.
Forbidden == {<<"one_sentence", "slogan">>, <<"one_sentence", "SOP">>, <<"one_sentence", "vague">>, <<"stances", "slogan">>,
              <<"essence", "definition">>, <<"boundary", "negation">>, <<"wrong", "straw man">>, <<"self_check", "generic">>}

\* A field that counts as an error.
Flawed(c) == (~c.text.long /\ c.field \notin {"trigger_signal", "few_stances", "key_distinction", "manifest"}) \/ <<c.field, c.text.like>> \in Forbidden

\* A field that counts twice.
Doubled(c) == c.field = "self_check" /\ c.text.long /\ c.text.like = "open"

\* The counts of a check and how it ended.
Tally == [errors : Nat, warnings : Nat, passes : Nat, end : {"none", "checking", "ready", "policy violation", "validation failed"}]

\* The questions that count twice.
Doubles == {c \in checked : Doubled(c)}

\* The counts are those of the fields checked so far, and the verdict follows from them.
CheckKnows ==
  /\ tally \in Tally
  /\ IsFiniteSet(checked) /\ \A c \in checked : c.nth \in Nat /\ c.nth < Cardinality(checked)
  /\ tally.errors = 0 <=> \A c \in checked : ~Flawed(c)
  /\ tally.end \in {"ready", "policy violation"} => (tally.end = "ready" <=> tally.errors = 0)
  /\ tally.errors + tally.warnings + tally.passes = Cardinality(checked) + Cardinality(Doubles)

\* The fields that are checked.
LEMMA FieldsAreNamed ==
  ASSUME NEW i \in 1..Len(Fields)
  PROVE  Fields[i] \in {"one_sentence", "full_statement", "why", "essence", "boundary", "trigger_signal", "few_stances", "stances", "wrong",
                        "key_distinction", "self_check", "manifest"}
BY DEF Fields

\* A field fails exactly when it is flawed.
LEMMA FailsIsFlawed ==
  ASSUME NEW c, NEW i \in 1..Len(Fields), c.field = Fields[i], c.text \in Text
  PROVE  /\ Fails(c.field, c.text) <=> Flawed(c)
         /\ Doubled(c) => ~Fails(c.field, c.text)
         /\ ~Fails(c.field, c.text) /\ c.field = "self_check" => (Warns(c.field, c.text) <=> Doubled(c))
<1> DEFINE f == c.field
           x == c.text
<1>1. /\ f \in {"one_sentence", "full_statement", "why", "essence", "boundary", "trigger_signal", "few_stances", "stances", "wrong",
                "key_distinction", "self_check", "manifest"}
      /\ x.long \in BOOLEAN
  BY FieldsAreNamed DEF Text
<1>2. Fails(f, x) <=>
        \/ f \in {"one_sentence", "full_statement", "why", "essence", "boundary", "stances", "wrong", "self_check"} /\ ~x.long
        \/ f = "one_sentence" /\ x.like \in {"slogan", "SOP", "vague"}
        \/ f = "essence" /\ x.like = "definition"
        \/ f = "boundary" /\ x.like = "negation"
        \/ f = "stances" /\ x.like = "slogan"
        \/ f = "wrong" /\ x.like = "straw man"
        \/ f = "self_check" /\ x.like = "generic"
  BY <1>1 DEF Fails
<1>3. <<f, x.like>> \in Forbidden <=>
        \/ f = "one_sentence" /\ x.like \in {"slogan", "SOP", "vague"}
        \/ f = "essence" /\ x.like = "definition"
        \/ f = "boundary" /\ x.like = "negation"
        \/ f = "stances" /\ x.like = "slogan"
        \/ f = "wrong" /\ x.like = "straw man"
        \/ f = "self_check" /\ x.like = "generic"
  BY DEF Forbidden
<1>4. QED
  BY <1>1, <1>2, <1>3 DEF Flawed, Doubled, Warns

\* Nothing is checked at first.
LEMMA CheckStart ==
  ASSUME PublishInit
  PROVE  CheckKnows
<1>1. checked = {}
  BY DEF PublishInit
<1>2. PICK end \in {"none", "checking"} : tally = NoTally(end)
  BY DEF PublishInit
<1>3. /\ tally \in Tally
      /\ tally.errors = 0 /\ tally.warnings = 0 /\ tally.passes = 0 /\ tally.end \in {"none", "checking"}
  BY <1>2 DEF NoTally, Tally
<1>4. Doubles = {}
  BY <1>1 DEF Doubles
<1>5. IsFiniteSet(checked) /\ Cardinality(checked) = 0 /\ Cardinality(Doubles) = 0
  BY <1>1, <1>4, FS_EmptySet
<1>6. tally.errors = 0 <=> \A c \in checked : ~Flawed(c)
  BY <1>1, <1>3
<1>7. \A c \in checked : c.nth \in Nat /\ c.nth < Cardinality(checked)
  BY <1>1
<1>8. tally.errors + tally.warnings + tally.passes = Cardinality(checked) + Cardinality(Doubles)
  BY <1>3, <1>5
<1>9. tally.end \in {"ready", "policy violation"} => (tally.end = "ready" <=> tally.errors = 0)
  BY <1>3
<1>10. QED
  BY <1>3, <1>5, <1>6, <1>7, <1>8, <1>9 DEF CheckKnows

\* The counts of one field: it fails or not, and counts once, or twice as an open question.
LEMMA FieldCounts ==
  ASSUME NEW c, NEW i \in 1..Len(Fields), c.field = Fields[i], c.text \in Text
  PROVE  LET failed == Count(Fails(c.field, c.text))
             warned == Count(Warns(c.field, c.text))
             passed == Count(~Fails(c.field, c.text) /\ (Warns(c.field, c.text) => c.field = "self_check")) IN
         /\ failed \in Nat /\ warned \in Nat /\ passed \in Nat
         /\ failed = 0 <=> ~Flawed(c)
         /\ failed + warned + passed = 1 + Count(Doubled(c))
<1>1. /\ Fails(c.field, c.text) <=> Flawed(c)
      /\ Doubled(c) => ~Fails(c.field, c.text)
      /\ ~Fails(c.field, c.text) /\ c.field = "self_check" => (Warns(c.field, c.text) <=> Doubled(c))
      /\ Doubled(c) => c.field = "self_check"
      /\ Warns(c.field, c.text) => ~Fails(c.field, c.text)
  BY FailsIsFlawed DEF Doubled, Warns
<1>2. CASE Fails(c.field, c.text)
  <2>1. ~Doubled(c) /\ ~Warns(c.field, c.text) /\ Flawed(c)
    BY <1>1, <1>2
  <2>2. QED
    BY <1>2, <2>1 DEF Count
<1>3. CASE ~Fails(c.field, c.text) /\ Doubled(c)
  <2>1. Warns(c.field, c.text) /\ c.field = "self_check" /\ ~Flawed(c)
    BY <1>1, <1>3
  <2>2. QED
    BY <1>3, <2>1 DEF Count
<1>4. CASE ~Fails(c.field, c.text) /\ ~Doubled(c) /\ Warns(c.field, c.text)
  <2>1. c.field # "self_check" /\ ~Flawed(c)
    BY <1>1, <1>4
  <2>2. QED
    BY <1>4, <2>1 DEF Count
<1>5. CASE ~Fails(c.field, c.text) /\ ~Doubled(c) /\ ~Warns(c.field, c.text)
  <2>1. ~Flawed(c)
    BY <1>1, <1>5
  <2>2. QED
    BY <1>5, <2>1 DEF Count
<1>6. QED
  BY <1>2, <1>3, <1>4, <1>5

\* One more field checked is one more member, and one more double if it is an open question.
LEMMA OneMore ==
  ASSUME NEW c, IsFiniteSet(checked), \A d \in checked : d.nth \in Nat /\ d.nth < Cardinality(checked),
         c.nth = Cardinality(checked), checked' = checked \union {c}
  PROVE  /\ IsFiniteSet(checked') /\ Cardinality(checked') = Cardinality(checked) + 1
         /\ \A d \in checked' : d.nth \in Nat /\ d.nth < Cardinality(checked')
         /\ Cardinality(Doubles') = Cardinality(Doubles) + Count(Doubled(c))
<1>1. Cardinality(checked) \in Nat
  BY FS_CardinalityType
<1>2. c \notin checked
  BY <1>1
<1>3. IsFiniteSet(checked \union {c}) /\ Cardinality(checked \union {c}) = Cardinality(checked) + 1
  BY <1>2, FS_AddElement
<1>4. \A d \in checked' : d.nth \in Nat /\ d.nth < Cardinality(checked) + 1
  BY <1>1
<1>5. Doubles \subseteq checked
  BY DEF Doubles
<1>6. IsFiniteSet(Doubles) /\ Cardinality(Doubles) \in Nat
  BY <1>5, FS_Subset, FS_CardinalityType
<1>7. CASE Doubled(c)
  <2>1. Doubles' = Doubles \union {c}
    BY <1>7 DEF Doubles
  <2>2. c \notin Doubles
    BY <1>2, <1>5
  <2>3. Cardinality(Doubles \union {c}) = Cardinality(Doubles) + 1
    BY <1>6, <2>2, FS_AddElement
  <2>4. Count(Doubled(c)) = 1
    BY <1>7 DEF Count
  <2>5. QED
    BY <1>3, <1>4, <2>1, <2>3, <2>4
<1>8. CASE ~Doubled(c)
  <2>1. Doubles' = Doubles
    BY <1>8 DEF Doubles
  <2>2. Count(Doubled(c)) = 0
    BY <1>8 DEF Count
  <2>3. QED
    BY <1>3, <1>4, <1>6, <2>1, <2>2
<1>9. QED
  BY <1>7, <1>8

\* Every field is counted as it is, whatever else happens.
LEMMA CheckStep ==
  ASSUME CheckKnows, PublishNext \/ UNCHANGED publishVars
  PROVE  CheckKnows'
<1>1. CASE CheckField
  <2>1. PICK c :
          /\ checked' = checked \union {c} /\ c.nth = Cardinality(checked)
          /\ c.text \in Text /\ \E i \in 1..Len(Fields) : c.field = Fields[i]
          /\ tally' = [errors |-> tally.errors + Count(Fails(c.field, c.text)), warnings |-> tally.warnings + Count(Warns(c.field, c.text)),
                       passes |-> tally.passes + Count(~Fails(c.field, c.text) /\ (Warns(c.field, c.text) => c.field = "self_check")),
                       end |-> "checking"]
    <3>1. PICK i \in 1..Len(Fields), text \in Text :
            LET field == Fields[i] IN
            /\ checked' = checked \union {[field |-> field, text |-> text, at |-> i, nth |-> Cardinality(checked)]}
            /\ tally' = [errors |-> tally.errors + Count(Fails(field, text)), warnings |-> tally.warnings + Count(Warns(field, text)),
                         passes |-> tally.passes + Count(~Fails(field, text) /\ (Warns(field, text) => field = "self_check")),
                         end |-> "checking"]
      BY <1>1 DEF CheckField
    <3> DEFINE c == [field |-> Fields[i], text |-> text, at |-> i, nth |-> Cardinality(checked)]
    <3>2. checked' = checked \union {c} /\ c.nth = Cardinality(checked) /\ c.text = text /\ c.field = Fields[i]
      BY <3>1
    <3> HIDE DEF c
    <3>3. tally' = [errors |-> tally.errors + Count(Fails(c.field, c.text)), warnings |-> tally.warnings + Count(Warns(c.field, c.text)),
                    passes |-> tally.passes + Count(~Fails(c.field, c.text) /\ (Warns(c.field, c.text) => c.field = "self_check")),
                    end |-> "checking"]
      BY <3>1, <3>2
    <3>4. QED
      BY <3>2, <3>3
  <2>2. c.text \in Text /\ \E i \in 1..Len(Fields) : c.field = Fields[i]
    BY <2>1
  <2>3. /\ IsFiniteSet(checked') /\ Cardinality(checked') = Cardinality(checked) + 1
        /\ \A d \in checked' : d.nth \in Nat /\ d.nth < Cardinality(checked')
        /\ Cardinality(Doubles') = Cardinality(Doubles) + Count(Doubled(c))
    BY <2>1, OneMore DEF CheckKnows
  <2>4. PICK failed \in Nat, warned \in Nat, passed \in Nat :
          /\ failed = 0 <=> ~Flawed(c)
          /\ failed + warned + passed = 1 + Count(Doubled(c))
          /\ tally' = [errors |-> tally.errors + failed, warnings |-> tally.warnings + warned, passes |-> tally.passes + passed,
                       end |-> "checking"]
    BY <2>1, <2>2, FieldCounts
  <2>5. /\ tally.errors \in Nat /\ tally.warnings \in Nat /\ tally.passes \in Nat
        /\ tally.errors + tally.warnings + tally.passes = Cardinality(checked) + Cardinality(Doubles)
    BY DEF CheckKnows, Tally
  <2>12. tally.errors = 0 <=> \A d \in checked : ~Flawed(d)
    BY DEF CheckKnows
  <2>6. /\ tally'.errors = tally.errors + failed /\ tally'.warnings = tally.warnings + warned
        /\ tally'.passes = tally.passes + passed /\ tally'.end = "checking"
    BY <2>4
  <2>7. tally' \in Tally
    BY <2>4, <2>5 DEF Tally
  <2>8. tally'.errors = 0 <=> \A d \in checked' : ~Flawed(d)
    <3>1. tally'.errors = 0 <=> tally.errors = 0 /\ failed = 0
      BY <2>5, <2>6
    <3>2. QED
      BY <2>1, <2>4, <2>12, <3>1
  <2>9. /\ Cardinality(checked) \in Nat /\ Cardinality(Doubles) \in Nat /\ Count(Doubled(c)) \in Nat
    <3>1. Doubles \subseteq checked
      BY DEF Doubles
    <3>2. QED
      BY <3>1, FS_Subset, FS_CardinalityType DEF CheckKnows, Count
  <2>10. tally'.errors + tally'.warnings + tally'.passes = Cardinality(checked') + Cardinality(Doubles')
    BY <2>3, <2>4, <2>5, <2>6, <2>9
  <2>11. QED
    BY <2>3, <2>6, <2>7, <2>8, <2>10 DEF CheckKnows
<1>2. CASE EndCheck
  <2>1. /\ checked' = checked
        /\ \/ tally' = [tally EXCEPT !.end = IF tally.errors > 0 THEN "policy violation" ELSE "ready"]
           \/ tally' = [tally EXCEPT !.end = "validation failed"]
    BY <1>2 DEF EndCheck
  <2>2. tally \in Tally /\ tally.errors \in Nat
    BY DEF CheckKnows, Tally
  <2>3. tally.errors > 0 <=> tally.errors # 0
    BY <2>2
  <2>4. Doubles' = Doubles
    BY <2>1 DEF Doubles
  <2>5. CASE tally' = [tally EXCEPT !.end = "validation failed"]
    <3>1. tally' \in Tally
      BY <2>2, <2>5 DEF Tally
    <3>2. /\ tally'.errors = tally.errors /\ tally'.warnings = tally.warnings /\ tally'.passes = tally.passes
          /\ tally'.end = "validation failed"
      BY <2>2, <2>5 DEF Tally
    <3>3. QED
      BY <2>1, <2>4, <3>1, <3>2 DEF CheckKnows
  <2>6. CASE tally.errors > 0 /\ tally' = [tally EXCEPT !.end = "policy violation"]
    <3>1. tally' \in Tally
      BY <2>2, <2>6 DEF Tally
    <3>2. /\ tally'.errors = tally.errors /\ tally'.warnings = tally.warnings /\ tally'.passes = tally.passes
          /\ tally'.end = "policy violation"
      BY <2>2, <2>6 DEF Tally
    <3>3. QED
      BY <2>1, <2>3, <2>4, <2>6, <3>1, <3>2 DEF CheckKnows
  <2>7. CASE ~(tally.errors > 0) /\ tally' = [tally EXCEPT !.end = "ready"]
    <3>1. tally' \in Tally
      BY <2>2, <2>7 DEF Tally
    <3>2. /\ tally'.errors = tally.errors /\ tally'.warnings = tally.warnings /\ tally'.passes = tally.passes
          /\ tally'.end = "ready"
      BY <2>2, <2>7 DEF Tally
    <3>3. QED
      BY <2>1, <2>3, <2>4, <2>7, <3>1, <3>2 DEF CheckKnows
  <2>8. QED
    BY <2>1, <2>5, <2>6, <2>7
<1>3. CASE UNCHANGED <<tally, checked>>
  <2>1. Doubles' = Doubles
    BY <1>3 DEF Doubles
  <2>2. QED
    BY <1>3, <2>1 DEF CheckKnows
<1>4. QED
  BY <1>1, <1>2, <1>3 DEF PublishNext, publishVars, CheckHumanLock, ValidateAsset, ReadPackedManifest, DigestPacked, DigestContent,
     UploadPacked, PrintEvidence, ReplaceAsset

\* So the verdict is fair.
LEMMA CheckTells ==
  ASSUME CheckKnows
  PROVE  CheckIsFair
<1>1. {c \in checked : (~c.text.long /\ c.field \notin {"trigger_signal", "few_stances", "key_distinction", "manifest"})
                       \/ <<c.field, c.text.like>> \in Forbidden} = {c \in checked : Flawed(c)}
  BY DEF Flawed
<1>2. {c \in checked : c.field = "self_check" /\ c.text.long /\ c.text.like = "open"} = Doubles
  BY DEF Doubled, Doubles
<1>3. tally.errors = 0 <=> {c \in checked : Flawed(c)} = {}
  BY DEF CheckKnows
<1>4. QED
  BY <1>1, <1>2, <1>3 DEF CheckKnows, CheckIsFair, Forbidden

(***************************************************************************)
(* The publication.                                                        *)
(***************************************************************************)

Publishers == [manifest : Nat, declared : {"nothing", "own", "other"}, digest : Nat, content : Nat, url : Nat,
               stated : Nat, end : {"none", "invalid", "no provenance", "published"},
               step : {"none", "start", "manifest", "digest", "content", "upload", "evidence", "done"}, upload : BOOLEAN]

\* A packed asset, with a number for each replacement of it.
Assets == [serial : Nat \ {0}, valid : BOOLEAN, authoring : {"none", "complete", "incomplete"},
           declares : {"nothing", "own", "other"}]

\* The types of a publication.
PublisherTyped == publisher \in Publishers /\ packed \in Assets /\ released \in Nat /\ replaced \in Nat

\* What a publication has read where it stands: each fact is of no older file than the one before it, and of the file
\* there is if nobody replaced it.
FactsAreInOrder ==
  /\ publisher.step # "done" => publisher.end = "none"
  /\ publisher.step \in {"manifest", "digest", "content", "upload", "evidence"} => (replaced = 0 => packed.valid)
  /\ publisher.step \in {"digest", "content", "upload", "evidence"} =>
       publisher.manifest <= packed.serial /\ (replaced = 0 => publisher.manifest = packed.serial /\ publisher.declared = packed.declares /\ packed.authoring # "incomplete")
  /\ publisher.step \in {"content", "upload", "evidence"} =>
       /\ publisher.manifest <= publisher.digest /\ publisher.digest <= packed.serial
       /\ replaced = 0 => publisher.digest = packed.serial
  /\ publisher.step \in {"upload", "evidence"} =>
       /\ publisher.digest <= publisher.content /\ publisher.content <= packed.serial
       /\ replaced = 0 => publisher.content = packed.serial
  /\ publisher.step \in {"start", "manifest", "digest", "content", "upload"} => publisher.url = 0
  /\ publisher.step = "evidence" /\ publisher.url # 0 =>
       /\ released = publisher.url /\ publisher.content <= released
       /\ replaced = 0 => publisher.url = packed.serial

\* The same of the facts that are published.
PublishedIsInOrder ==
  publisher.end = "published" =>
    /\ publisher.step = "done"
    /\ replaced = 0 => /\ publisher.manifest = packed.serial /\ publisher.digest = packed.serial
                       /\ publisher.stated = packed.serial \/ packed.declares = "other"
                       /\ packed.valid /\ packed.authoring # "incomplete" /\ publisher.url \in {0, packed.serial}
    /\ publisher.manifest <= publisher.digest
    /\ publisher.declared = "own" => publisher.stated = publisher.manifest
    /\ publisher.declared = "nothing" => publisher.digest <= publisher.stated
    /\ publisher.url # 0 => released = publisher.url /\ publisher.digest <= released /\ publisher.stated <= released

\* What a publisher has learned is not newer than what it learned later.
PublisherKnows == PublisherTyped /\ FactsAreInOrder /\ PublishedIsInOrder

\* Before the first step nothing has been learned.
LEMMA PublisherStart ==
  ASSUME PublishInit
  PROVE  PublisherKnows
<1>1. PICK first \in {"none", "start"}, up \in BOOLEAN : publisher = NoFacts(first, up)
  BY DEF PublishInit
<1>2. /\ publisher.step \in {"none", "start"} /\ publisher.end = "none" /\ publisher.url = 0
  BY <1>1 DEF NoFacts
<1>3. publisher \in Publishers
  BY <1>1 DEF NoFacts, Publishers
<1>4. packed \in Asset(1) \/ packed = [serial |-> 1, valid |-> TRUE, authoring |-> "none", declares |-> "nothing"]
  BY DEF PublishInit
<1>5. packed \in Assets
  <2>1. CASE packed \in Asset(1)
    BY <2>1 DEF Asset, Assets
  <2>2. CASE packed = [serial |-> 1, valid |-> TRUE, authoring |-> "none", declares |-> "nothing"]
    BY <2>2 DEF Assets
  <2>3. QED
    BY <1>4, <2>1, <2>2
<1>6. released = 0 /\ replaced = 0
  BY DEF PublishInit
<1>7. QED
  BY <1>2, <1>3, <1>5, <1>6 DEF PublisherKnows, PublisherTyped, FactsAreInOrder, PublishedIsInOrder

\* Every step, and every replacement of the asset between two, keeps the order.
LEMMA PublisherStep ==
  ASSUME PublisherKnows, PublishNext \/ UNCHANGED publishVars
  PROVE  PublisherKnows'
<1>1. /\ publisher \in Publishers /\ packed \in Assets /\ released \in Nat /\ replaced \in Nat
      /\ publisher.manifest \in Nat /\ publisher.digest \in Nat /\ publisher.content \in Nat /\ publisher.url \in Nat
      /\ packed.serial \in Nat /\ packed.serial # 0
      /\ publisher.declared \in {"nothing", "own", "other"}
      /\ packed.declares \in {"nothing", "own", "other"}
  BY DEF PublisherKnows, PublisherTyped, Publishers, Assets
<1>2. FactsAreInOrder /\ PublishedIsInOrder
  BY DEF PublisherKnows
<1>3. CASE ValidateAsset
  <2>1. publisher.step = "start" /\ UNCHANGED <<packed, released, replaced>>
    BY <1>3 DEF ValidateAsset
  <2>2. CASE packed.valid
    <3>1. publisher' = [publisher EXCEPT !.step = "manifest"]
      BY <1>3, <2>2 DEF ValidateAsset
    <3>2. publisher' \in Publishers
      BY <1>1, <3>1 DEF Publishers
    <3>3. /\ publisher'.step = "manifest" /\ publisher'.end = publisher.end /\ publisher'.url = publisher.url
      BY <1>1, <3>1 DEF Publishers
    <3>4. QED
      BY <1>1, <1>2, <2>1, <2>2, <3>2, <3>3 DEF PublisherKnows, PublisherTyped, FactsAreInOrder, PublishedIsInOrder
  <2>3. CASE ~packed.valid
    <3>1. publisher' = [publisher EXCEPT !.step = "done", !.end = "invalid"]
      BY <1>3, <2>3 DEF ValidateAsset, Stopped
    <3>2. publisher' \in Publishers /\ publisher'.step = "done" /\ publisher'.end = "invalid"
      BY <1>1, <3>1 DEF Publishers
    <3>3. QED
      BY <1>1, <2>1, <3>2 DEF PublisherKnows, PublisherTyped, FactsAreInOrder, PublishedIsInOrder
  <2>4. QED
    BY <2>2, <2>3
<1>4. CASE ReadPackedManifest
  <2>1. publisher.step = "manifest" /\ UNCHANGED <<packed, released, replaced>>
    BY <1>4 DEF ReadPackedManifest
  <2>2. CASE packed.authoring = "incomplete"
    <3>1. publisher' = [publisher EXCEPT !.step = "done", !.end = "no provenance"]
      BY <1>4, <2>2 DEF ReadPackedManifest, Stopped
    <3>2. publisher' \in Publishers /\ publisher'.step = "done" /\ publisher'.end = "no provenance"
      BY <1>1, <3>1 DEF Publishers
    <3>3. QED
      BY <1>1, <2>1, <3>2 DEF PublisherKnows, PublisherTyped, FactsAreInOrder, PublishedIsInOrder
  <2>3. CASE packed.authoring # "incomplete"
    <3>1. publisher' = [publisher EXCEPT !.step = "digest", !.manifest = packed.serial, !.declared = packed.declares]
      BY <1>4, <2>3 DEF ReadPackedManifest
    <3>2. publisher' \in Publishers
      BY <1>1, <3>1 DEF Publishers
    <3>3. /\ publisher'.step = "digest" /\ publisher'.manifest = packed.serial /\ publisher'.declared = packed.declares
          /\ publisher'.end = publisher.end /\ publisher'.url = publisher.url
      BY <1>1, <3>1 DEF Publishers
    <3>4. QED
      BY <1>1, <1>2, <2>1, <2>3, <3>2, <3>3 DEF PublisherKnows, PublisherTyped, FactsAreInOrder, PublishedIsInOrder
  <2>4. QED
    BY <2>2, <2>3
<1>5. CASE DigestPacked
  <2>1. publisher' = [publisher EXCEPT !.step = "content", !.digest = packed.serial]
    BY <1>5 DEF DigestPacked
  <2>2. publisher.step = "digest" /\ UNCHANGED <<packed, released, replaced>>
    BY <1>5 DEF DigestPacked
  <2>3. publisher' \in Publishers
    BY <1>1, <2>1 DEF Publishers
  <2>4. /\ publisher'.declared = publisher.declared
        /\ publisher'.step = "content" /\ publisher'.manifest = publisher.manifest /\ publisher'.digest = packed.serial
        /\ publisher'.end = publisher.end /\ publisher'.url = publisher.url
    BY <1>1, <2>1 DEF Publishers
  <2>5. QED
    BY <1>1, <1>2, <2>2, <2>3, <2>4 DEF PublisherKnows, PublisherTyped, FactsAreInOrder, PublishedIsInOrder
<1>6. CASE DigestContent
  <2>1. publisher' = [publisher EXCEPT !.step = "upload", !.content = packed.serial]
    BY <1>6 DEF DigestContent
  <2>2. publisher.step = "content" /\ UNCHANGED <<packed, released, replaced>>
    BY <1>6 DEF DigestContent
  <2>3. publisher' \in Publishers
    BY <1>1, <2>1 DEF Publishers
  <2>4. /\ publisher'.declared = publisher.declared
        /\ publisher'.step = "upload" /\ publisher'.manifest = publisher.manifest /\ publisher'.digest = publisher.digest
        /\ publisher'.content = packed.serial /\ publisher'.end = publisher.end /\ publisher'.url = publisher.url
    BY <1>1, <2>1 DEF Publishers
  <2>5. QED
    BY <1>1, <1>2, <2>2, <2>3, <2>4 DEF PublisherKnows, PublisherTyped, FactsAreInOrder, PublishedIsInOrder
<1>7. CASE UploadPacked
  <2>1. PICK sent \in BOOLEAN, heard \in BOOLEAN :
          /\ heard => sent
          /\ released' = (IF sent THEN packed.serial ELSE released)
          /\ publisher' = [publisher EXCEPT !.step = "evidence", !.url = IF heard THEN packed.serial ELSE 0]
    BY <1>7 DEF UploadPacked
  <2>2. publisher.step = "upload" /\ UNCHANGED <<packed, replaced>>
    BY <1>7 DEF UploadPacked
  <2>3. PICK address \in Nat : /\ publisher' = [publisher EXCEPT !.step = "evidence", !.url = address]
                               /\ address # 0 => address = packed.serial /\ released' = address
                               /\ released' \in Nat
    BY <1>1, <2>1
  <2>4. publisher' \in Publishers
    BY <1>1, <2>3 DEF Publishers
  <2>5. /\ publisher'.declared = publisher.declared
        /\ publisher'.step = "evidence" /\ publisher'.manifest = publisher.manifest /\ publisher'.digest = publisher.digest
        /\ publisher'.content = publisher.content /\ publisher'.end = publisher.end /\ publisher'.url = address
    BY <1>1, <2>3 DEF Publishers
  <2>6. QED
    BY <1>1, <1>2, <2>2, <2>3, <2>4, <2>5 DEF PublisherKnows, PublisherTyped, FactsAreInOrder, PublishedIsInOrder
<1>8. CASE PrintEvidence
  <2>1. publisher' = [publisher EXCEPT !.step = "done", !.end = "published", !.stated = Stated]
    BY <1>8 DEF PrintEvidence
  <2>2. publisher.step \in {"evidence", "upload"} /\ UNCHANGED <<packed, released, replaced>>
    BY <1>8 DEF PrintEvidence
  <2>3. PICK stated : stated = Stated
    OBVIOUS
  <2>4. /\ publisher.declared = "nothing" => stated = publisher.content
        /\ publisher.declared = "own" => stated = publisher.manifest
        /\ publisher.declared = "other" => stated = 0
    BY <2>3 DEF Stated
  <2>5. stated \in Nat
    BY <1>1, <2>4
  <2>6. publisher' = [publisher EXCEPT !.step = "done", !.end = "published", !.stated = stated]
    BY <2>1, <2>3
  <2>7. publisher' \in Publishers
    BY <1>1, <2>5, <2>6 DEF Publishers
  <2>8. /\ publisher'.step = "done" /\ publisher'.manifest = publisher.manifest /\ publisher'.digest = publisher.digest
        /\ publisher'.stated = stated /\ publisher'.end = "published" /\ publisher'.url = publisher.url
        /\ publisher'.declared = publisher.declared
    BY <1>1, <2>6 DEF Publishers
  <2>9. /\ publisher.manifest <= publisher.digest /\ publisher.digest <= publisher.content
        /\ publisher.url # 0 => released = publisher.url /\ publisher.content <= released
        /\ replaced = 0 => /\ publisher.manifest = packed.serial /\ publisher.digest = packed.serial
                           /\ publisher.content = packed.serial /\ publisher.declared = packed.declares
                           /\ packed.valid /\ packed.authoring # "incomplete" /\ publisher.url \in {0, packed.serial}
    BY <1>2, <2>2 DEF FactsAreInOrder
  <2>10. publisher.url # 0 => publisher.digest <= released /\ stated <= released
    BY <1>1, <2>4, <2>9
  <2>11. replaced = 0 => stated = packed.serial \/ packed.declares = "other"
    BY <1>1, <2>4, <2>9
  <2>12. PublishedIsInOrder'
    BY <1>1, <2>2, <2>4, <2>8, <2>9, <2>10, <2>11 DEF PublishedIsInOrder
  <2>13. FactsAreInOrder'
    BY <2>8 DEF FactsAreInOrder
  <2>14. QED
    BY <1>1, <2>2, <2>7, <2>12, <2>13 DEF PublisherKnows, PublisherTyped
<1>9. CASE ReplaceAsset
  <2>1. /\ replaced' = replaced + 1 /\ publisher.step \notin {"none", "done"} /\ packed' \in Asset(packed.serial + 1)
        /\ UNCHANGED <<released, publisher>>
    BY <1>9 DEF ReplaceAsset
  <2>2. packed' \in Assets /\ packed'.serial = packed.serial + 1
    BY <1>1, <2>1 DEF Asset, Assets
  <2>3. replaced' \in Nat /\ replaced' # 0
    BY <1>1, <2>1
  <2>4. QED
    BY <1>1, <1>2, <2>1, <2>2, <2>3 DEF PublisherKnows, PublisherTyped, FactsAreInOrder, PublishedIsInOrder
<1>10. CASE UNCHANGED <<packed, released, publisher, replaced>>
  BY <1>10 DEF PublisherKnows, PublisherTyped, FactsAreInOrder, PublishedIsInOrder
<1>11. QED
  BY <1>3, <1>4, <1>5, <1>6, <1>7, <1>8, <1>9, <1>10 DEF PublishNext, publishVars, CheckField, CheckHumanLock, EndCheck

\* So the evidence speaks of one asset if it was not replaced.
LEMMA PublisherTells ==
  ASSUME PublisherKnows
  PROVE  EvidenceIsOfOneAsset
BY DEF PublisherKnows, PublishedIsInOrder, EvidenceIsOfOneAsset

--------------------------------------------------------------------------------

(***************************************************************************)
(* Work packs.                                                             *)
(***************************************************************************)

LEMMA FilesOfAPack ==
  /\ DOMAIN PackFiles = 1..11 /\ Len(PackFiles) = 11 /\ File = {PackFiles[i] : i \in 1..11}
  /\ "references" \in File /\ "workpack.json" \in File /\ NamedFiles \subseteq File
<1>1. DOMAIN PackFiles = 1..11 /\ Len(PackFiles) = 11
  BY DEF PackFiles
<1>2. File = {PackFiles[i] : i \in 1..11}
  BY <1>1 DEF File, ToSet
<1>3. /\ PackFiles[1] = "workpack.json" /\ PackFiles[2] = "gate" /\ PackFiles[3] = "risk-policy" /\ PackFiles[4] = "trace-policy"
      /\ PackFiles[6] = "references" /\ PackFiles[7] = "cases" /\ PackFiles[9] = "task-template" /\ PackFiles[10] = "output-template"
  BY DEF PackFiles
<1>4. \A i \in 1..11 : PackFiles[i] \in File
  BY <1>2
<1>5. 1 \in 1..11 /\ 2 \in 1..11 /\ 3 \in 1..11 /\ 4 \in 1..11 /\ 6 \in 1..11 /\ 7 \in 1..11 /\ 9 \in 1..11 /\ 10 \in 1..11
  OBVIOUS
<1>6. "references" \in File /\ "workpack.json" \in File
  BY <1>3, <1>4, <1>5
<1>7. NamedFiles \subseteq File
  BY <1>3, <1>4, <1>5 DEF NamedFiles
<1>8. QED
  BY <1>1, <1>2, <1>6, <1>7

\* A command under way.
Command == [verb : {"init"}, topic : Topic, next : 0..12, alone : BOOLEAN]

\* An init that ran alone has written every file before the one it writes next.
PackersKnow ==
  /\ DOMAIN written = File /\ DOMAIN packer = Packer
  /\ \A p \in Packer : packer[p] = Unoccupied \/ packer[p] \in Command
  /\ \A p \in Packer : packer[p] # Unoccupied /\ packer[p].alone =>
       /\ \A q \in Packer : q # p => packer[q] = Unoccupied
       /\ \A i \in 1..11 : i < packer[p].next => written[PackFiles[i]] = Content(PackFiles[i], packer[p].topic)

\* What was told is so, and an init that has created a pack was the last.
TalesHold ==
  /\ told.verb = "init" /\ told.answer = "created" =>
       /\ \A q \in Packer : packer[q] = Unoccupied
       /\ \E topic \in Topic : \A i \in 1..11 : written[PackFiles[i]] = Content(PackFiles[i], topic)
  /\ told.verb = "validate" /\ told.answer = "valid" => "workpack.json" \in told.parsed /\ IsWhole(told.files)
  /\ told.verb = "plan" /\ told.required /\ told.fallback => skill.required = "silent"
  /\ told.verb = "report" =>
       /\ told.counts[1] = told.counts[2] + told.counts[3]
       /\ told.answer = "of run" => told.counts[1] = Len(run)

\* What a report of a pack says is true of the files it names.
PackKnows == skill.required \in {"yes", "no", "silent"} /\ PackersKnow /\ TalesHold

\* Nothing has been told.
LEMMA PackStart ==
  ASSUME PackInit
  PROVE  PackKnows
<1>1. told.verb = "none" /\ skill.required = "yes"
  BY DEF PackInit, NothingTold
<1>2. DOMAIN written = File /\ DOMAIN packer = Packer /\ \A p \in Packer : packer[p] = Unoccupied
  BY DEF PackInit
<1>3. PackersKnow
  BY <1>2 DEF PackersKnow
<1>4. TalesHold
  BY <1>1 DEF TalesHold
<1>5. QED
  BY <1>1, <1>3, <1>4 DEF PackKnows

\* A report counts every gate once.
LEMMA GatesAreCounted ==
  ASSUME NEW gates, IsFiniteSet(DOMAIN gates), Cardinality(DOMAIN gates) = Len(gates)
  PROVE  /\ GateCounts(gates)[1] = Len(gates)
         /\ GateCounts(gates)[1] = GateCounts(gates)[2] + GateCounts(gates)[3]
<1> DEFINE passed == {i \in DOMAIN gates : gates[i] = "pass"}
           rest == {i \in DOMAIN gates : gates[i] # "pass"}
<1>1. passed \subseteq DOMAIN gates /\ rest = DOMAIN gates \ passed /\ DOMAIN gates \intersect passed = passed
  OBVIOUS
<1>2. GateCounts(gates) = <<Len(gates), Cardinality(passed), Cardinality(rest)>>
  BY DEF GateCounts
<1> HIDE DEF passed, rest
<1>3. IsFiniteSet(passed) /\ Cardinality(passed) \in Nat /\ Cardinality(DOMAIN gates) \in Nat
  BY <1>1, FS_Subset, FS_CardinalityType
<1>4. Cardinality(rest) = Cardinality(DOMAIN gates) - Cardinality(passed)
  <2>1. Cardinality(DOMAIN gates \ passed) = Cardinality(DOMAIN gates) - Cardinality(DOMAIN gates \intersect passed)
    BY FS_Difference
  <2>2. QED
    BY <1>1, <2>1
<1>5. QED
  BY <1>2, <1>3, <1>4

\* Every step of a command, and every file that goes missing between two, keeps it.
LEMMA PackStep ==
  ASSUME PackKnows, PackNext \/ UNCHANGED packVars
  PROVE  PackKnows'
<1>1. /\ DOMAIN written = File /\ DOMAIN packer = Packer
      /\ \A p \in Packer : packer[p] = Unoccupied \/ packer[p] \in Command
      /\ \A p \in Packer : packer[p].verb = "init" => packer[p] \in Command
  BY DEF PackKnows, PackersKnow, Unoccupied
<1>2. ASSUME NEW p \in Packer, StartInit(p)
      PROVE  PackKnows'
  <2>1. UNCHANGED <<written, skill>>
    BY <1>2 DEF StartInit
  <2>2. told'.verb = "init" /\ told'.answer \in {"begun", "exists"}
    BY <1>2 DEF StartInit, NothingTold
  <2>3. TalesHold'
    BY <2>2 DEF TalesHold
  <2>4. CASE packer' = packer
    BY <2>1, <2>3, <2>4 DEF PackKnows, PackersKnow
  <2>5. CASE packer' # packer
    <3> DEFINE nobody == Busy = {}
    <3>1. PICK topic \in Topic :
            packer' = [q \in Packer |-> IF q = p THEN [verb |-> "init", topic |-> topic, next |-> 0, alone |-> nobody]
                                        ELSE [packer[q] EXCEPT !.alone = packer[q] = Unoccupied]]
      BY <1>2, <2>5 DEF StartInit
    <3>10. nobody \in BOOLEAN /\ (nobody => Busy = {})
      OBVIOUS
    <3> HIDE DEF nobody
    <3>2. DOMAIN packer' = Packer /\ packer'[p] = [verb |-> "init", topic |-> topic, next |-> 0, alone |-> nobody]
      BY <3>1
    <3>3. packer'[p] \in Command
      BY <3>2, <3>10 DEF Command
    <3>4. packer'[p].next = 0 /\ (packer'[p].alone => Busy = {})
      BY <3>2, <3>10
    <3>5. ASSUME NEW q \in Packer, q # p, packer[q] = Unoccupied
          PROVE  packer'[q] = Unoccupied
      <4>1. packer'[q] = [Unoccupied EXCEPT !.alone = TRUE]
        BY <3>1, <3>5
      <4>2. QED
        BY <4>1 DEF Unoccupied
    <3>6. ASSUME NEW q \in Packer, q # p, packer[q] # Unoccupied
          PROVE  packer'[q] \in Command /\ ~packer'[q].alone
      <4>1. packer[q] \in Command /\ packer'[q] = [packer[q] EXCEPT !.alone = FALSE]
        BY <1>1, <3>1, <3>6
      <4>2. QED
        BY <4>1 DEF Command
    <3>7. Busy = {} => \A q \in Packer : packer[q] = Unoccupied
      BY DEF Busy
    <3>8. PackersKnow'
      <4>1. \A q \in Packer : packer'[q] = Unoccupied \/ packer'[q] \in Command
        BY <3>3, <3>5, <3>6
      <4>2. \A q \in Packer : packer'[q] # Unoccupied /\ packer'[q].alone =>
              q = p /\ (\A r \in Packer : r # p => packer'[r] = Unoccupied)
        BY <3>4, <3>5, <3>6, <3>7
      <4>3. \A q \in Packer : packer'[q] # Unoccupied /\ packer'[q].alone => \A i \in 1..11 : ~(i < packer'[q].next)
        BY <3>4, <4>2
      <4>4. QED
        BY <1>1, <2>1, <3>2, <4>1, <4>2, <4>3 DEF PackersKnow
    <3>9. QED
      BY <2>1, <2>3, <3>8 DEF PackKnows
  <2>6. QED
    BY <2>4, <2>5
<1>3. ASSUME NEW p \in Packer, MakeFolders(p)
      PROVE  PackKnows'
  <2>1. packer[p].next = 0 /\ packer[p] \in Command /\ packer' = [packer EXCEPT ![p].next = 1] /\ UNCHANGED <<written, skill, run, told>>
    BY <1>1, <1>3 DEF MakeFolders
  <2>2. /\ packer'[p] = [packer[p] EXCEPT !.next = 1] /\ DOMAIN packer' = Packer
        /\ \A q \in Packer : q # p => packer'[q] = packer[q]
    BY <1>1, <2>1
  <2>3. packer'[p] \in Command /\ packer'[p].next = 1 /\ packer'[p].alone = packer[p].alone /\ packer[p] # Unoccupied
    BY <2>1, <2>2 DEF Command, Unoccupied
  <2>4. ~(told.verb = "init" /\ told.answer = "created")
    BY <2>3 DEF PackKnows, TalesHold
  <2>5. TalesHold'
    BY <2>1, <2>4 DEF PackKnows, TalesHold
  <2>6. \A i \in 1..11 : ~(i < 1)
    OBVIOUS
  <2>7. PackersKnow'
    BY <1>1, <2>1, <2>2, <2>3, <2>6 DEF PackKnows, PackersKnow
  <2>8. QED
    BY <2>1, <2>5, <2>7 DEF PackKnows
<1>4. ASSUME NEW p \in Packer, WriteNext(p)
      PROVE  PackKnows'
  <2> DEFINE n == packer[p].next
  <2>1. /\ packer[p] \in Command /\ n \in 1..11 /\ UNCHANGED <<skill, run, told>>
        /\ written' = [written EXCEPT ![PackFiles[n]] = Content(PackFiles[n], packer[p].topic)]
        /\ packer' = [packer EXCEPT ![p].next = n + 1]
    BY <1>1, <1>4, FilesOfAPack DEF WriteNext
  <2>2. /\ packer'[p] = [packer[p] EXCEPT !.next = n + 1] /\ DOMAIN packer' = Packer /\ DOMAIN written' = File
        /\ \A q \in Packer : q # p => packer'[q] = packer[q]
    BY <1>1, <2>1
  <2>3. /\ packer'[p] \in Command /\ packer'[p].next = n + 1 /\ packer'[p].alone = packer[p].alone
        /\ packer'[p].topic = packer[p].topic /\ packer[p] # Unoccupied
    BY <2>1, <2>2 DEF Command, Unoccupied
  <2>4. ~(told.verb = "init" /\ told.answer = "created")
    BY <2>3 DEF PackKnows, TalesHold
  <2>5. TalesHold'
    BY <2>1, <2>4 DEF PackKnows, TalesHold
  <2>6. packer[p].alone => /\ \A q \in Packer : q # p => packer[q] = Unoccupied
                           /\ \A i \in 1..11 : i < n => written[PackFiles[i]] = Content(PackFiles[i], packer[p].topic)
    BY <2>3 DEF PackKnows, PackersKnow
  <2>7. \A i \in 1..11 : PackFiles[i] \in File
    BY FilesOfAPack
  <2>8. ASSUME packer[p].alone, NEW i \in 1..11, i < n + 1
        PROVE  written'[PackFiles[i]] = Content(PackFiles[i], packer[p].topic)
    <3>1. CASE PackFiles[i] = PackFiles[n]
      BY <1>1, <2>1, <2>7, <3>1
    <3>2. CASE PackFiles[i] # PackFiles[n]
      <4>1. written'[PackFiles[i]] = written[PackFiles[i]]
        BY <1>1, <2>1, <2>7, <3>2
      <4>2. i # n
        BY <3>2
      <4>3. i < n
        BY <2>1, <2>8, <4>2
      <4>4. QED
        BY <2>6, <2>8, <4>1, <4>3
    <3>3. QED
      BY <3>1, <3>2
  <2>9. ASSUME NEW q \in Packer, q # p
        PROVE  ~(packer'[q] # Unoccupied /\ packer'[q].alone)
    <3>1. packer[q] # Unoccupied /\ packer[q].alone => packer[p] = Unoccupied
      BY <2>9 DEF PackKnows, PackersKnow
    <3>2. QED
      BY <2>2, <2>3, <2>9, <3>1
  <2>10. PackersKnow'
    <3>1. \A q \in Packer : packer'[q] = Unoccupied \/ packer'[q] \in Command
      BY <1>1, <2>2, <2>3
    <3>2. \A q \in Packer : packer'[q] # Unoccupied /\ packer'[q].alone => q = p
      BY <2>9
    <3>3. packer'[p].alone => \A r \in Packer : r # p => packer'[r] = Unoccupied
      BY <2>2, <2>3, <2>6
    <3>4. packer'[p].alone => \A i \in 1..11 : i < packer'[p].next => written'[PackFiles[i]] = Content(PackFiles[i], packer'[p].topic)
      BY <2>3, <2>8
    <3>5. QED
      BY <2>2, <3>1, <3>2, <3>3, <3>4 DEF PackersKnow
  <2>11. QED
    BY <2>1, <2>5, <2>10 DEF PackKnows
<1>5. ASSUME NEW p \in Packer, EndInit(p)
      PROVE  PackKnows'
  <2>1. /\ packer[p] \in Command /\ packer[p].next > 11 /\ UNCHANGED <<written, skill, run>>
        /\ packer' = [packer EXCEPT ![p] = Unoccupied]
        /\ told' = [NothingTold EXCEPT !.verb = "init", !.answer = IF packer[p].alone THEN "created" ELSE "created with others"]
    BY <1>1, <1>5, FilesOfAPack DEF EndInit
  <2>2. packer'[p] = Unoccupied /\ DOMAIN packer' = Packer /\ \A q \in Packer : q # p => packer'[q] = packer[q]
    BY <1>1, <2>1
  <2>3. packer[p] # Unoccupied /\ packer[p].next = 12 /\ packer[p].topic \in Topic
    BY <2>1 DEF Command, Unoccupied
  <2>4. told'.verb = "init" /\ (told'.answer = "created" => packer[p].alone)
    BY <2>1 DEF NothingTold
  <2>5. \A i \in 1..11 : i < 12
    OBVIOUS
  <2>6. packer[p].alone => /\ \A q \in Packer : q # p => packer[q] = Unoccupied
                           /\ \A i \in 1..11 : written[PackFiles[i]] = Content(PackFiles[i], packer[p].topic)
    BY <2>3, <2>5 DEF PackKnows, PackersKnow
  <2>7. TalesHold'
    <3>1. told'.answer = "created" => \A q \in Packer : packer'[q] = Unoccupied
      BY <2>2, <2>4, <2>6
    <3>2. told'.answer = "created" => \E topic \in Topic : \A i \in 1..11 : written'[PackFiles[i]] = Content(PackFiles[i], topic)
      BY <2>1, <2>3, <2>4, <2>6
    <3>3. QED
      BY <2>4, <3>1, <3>2 DEF TalesHold
  <2>8. PackersKnow'
    BY <1>1, <2>1, <2>2 DEF PackKnows, PackersKnow
  <2>9. QED
    BY <2>1, <2>7, <2>8 DEF PackKnows
<1>6. ASSUME NEW p \in Packer, BreakOff(p)
      PROVE  PackKnows'
  <2>1. packer' = [packer EXCEPT ![p] = Unoccupied] /\ told' = NothingTold /\ UNCHANGED <<skill, run>> /\ packer[p] # Unoccupied
    BY <1>6 DEF BreakOff, Unoccupied
  <2>2. packer'[p] = Unoccupied /\ DOMAIN packer' = Packer /\ \A q \in Packer : q # p => packer'[q] = packer[q]
    BY <1>1, <2>1
  <2>3. DOMAIN written' = File
    BY <1>1, <1>6 DEF BreakOff
  <2>4. told'.verb = "none"
    BY <2>1 DEF NothingTold
  <2>5. TalesHold'
    BY <2>4 DEF TalesHold
  <2>6. \A q \in Packer : ~(packer'[q] # Unoccupied /\ packer'[q].alone)
    BY <2>1, <2>2 DEF PackKnows, PackersKnow
  <2>7. \A q \in Packer : packer'[q] = Unoccupied \/ packer'[q] \in Command
    BY <1>1, <2>2
  <2>8. PackersKnow'
    BY <2>2, <2>3, <2>6, <2>7 DEF PackersKnow
  <2>9. QED
    BY <2>1, <2>5, <2>8 DEF PackKnows
<1>7. CASE EditPack
  <2>1. /\ Busy = {} /\ told' = NothingTold /\ packer' = packer
        /\ \E f \in File, to \in {"edited", Broken, Absent} : written' = [written EXCEPT ![f] = to]
        /\ skill' = skill \/ skill' \in [required : {"yes", "no", "silent"}, fallback : BOOLEAN]
    BY <1>7 DEF EditPack
  <2>2. told'.verb = "none" /\ DOMAIN written' = File /\ \A q \in Packer : packer[q] = Unoccupied
    BY <1>1, <2>1 DEF NothingTold, Busy
  <2>3. skill'.required \in {"yes", "no", "silent"}
    BY <2>1 DEF PackKnows
  <2>4. TalesHold'
    BY <2>2 DEF TalesHold
  <2>5. PackersKnow'
    BY <1>1, <2>1, <2>2 DEF PackersKnow
  <2>6. QED
    BY <2>3, <2>4, <2>5 DEF PackKnows
<1>8. ASSUME NEW p \in Packer, PlanPack(p)
      PROVE  PackKnows'
  <2>1. /\ told' = [PlanOf(Parsed) EXCEPT !.files = There, !.parsed = Parsed, !.fallback = FallbackUsed, !.required = Required]
        /\ UNCHANGED <<written, packer, skill, run>>
    BY <1>8 DEF PlanPack
  <2>2. told'.verb = "plan" /\ told'.fallback = FallbackUsed /\ told'.required = Required
    BY <2>1 DEF PlanOf, NothingTold
  <2>3. Required /\ FallbackUsed => skill.required = "silent"
    BY DEF PackKnows, Required, FallbackUsed
  <2>4. TalesHold'
    BY <2>1, <2>2, <2>3 DEF TalesHold
  <2>5. QED
    BY <2>1, <2>4 DEF PackKnows, PackersKnow
<1>9. ASSUME NEW p \in Packer, Validate(p)
      PROVE  PackKnows'
  <2>1. UNCHANGED <<written, packer, skill, run>>
    BY <1>9 DEF Validate
  <2>2. PICK schemaOnly \in BOOLEAN :
          told' = [NothingTold EXCEPT !.verb = IF schemaOnly THEN "validate schema" ELSE "validate", !.files = There,
                                      !.parsed = Parsed,
                                      !.answer = IF "workpack.json" \in Parsed /\ (schemaOnly \/ IsWhole(There))
                                                 THEN "valid" ELSE "invalid"]
    BY <1>9 DEF Validate
  <2>3. /\ told'.verb \in {"validate schema", "validate"} /\ told'.files = There /\ told'.parsed = Parsed
        /\ told'.verb = "validate" => ~schemaOnly
        /\ told'.answer = "valid" => "workpack.json" \in Parsed /\ (schemaOnly \/ IsWhole(There))
    BY <2>2 DEF NothingTold
  <2>4. TalesHold'
    BY <2>3 DEF TalesHold, IsWhole
  <2>5. QED
    BY <2>1, <2>4 DEF PackKnows, PackersKnow
<1>10. ASSUME NEW p \in Packer, ReportRun(p)
      PROVE  PackKnows'
  <2>1. UNCHANGED <<written, packer, skill>> /\ run' \in {<<>>} \union [1..2 -> {"pass", "redo"}]
    BY <1>10 DEF ReportRun
  <2>2. told'.verb = "report" /\ (told'.answer = "of run" => run' # <<>> /\ told'.counts = GateCounts(run'))
        /\ (told'.answer # "of run" => told'.counts = <<0, 0, 0>>)
    BY <1>10 DEF ReportRun, NothingTold
  <2>3. run' # <<>> => IsFiniteSet(DOMAIN run') /\ Cardinality(DOMAIN run') = Len(run')
    <3>1. SUFFICES ASSUME run' # <<>> PROVE IsFiniteSet(DOMAIN run') /\ Cardinality(DOMAIN run') = Len(run')
      OBVIOUS
    <3>2. DOMAIN run' = 1..2 /\ Len(run') = 2
      BY <2>1, <3>1
    <3>3. QED
      <4>1. IsFiniteSet(1..2) /\ Cardinality(1..2) = 2
        <5>1. 1 \in Int /\ 2 \in Int
          OBVIOUS
        <5>2. IsFiniteSet(1..2) /\ Cardinality(1..2) = IF 1 > 2 THEN 0 ELSE 2 - 1 + 1
          BY ONLY <5>1, FS_Interval
        <5>3. QED
          BY <5>2
      <4>2. QED
        BY <3>2, <4>1
  <2>4. told'.counts[1] = told'.counts[2] + told'.counts[3] /\ (told'.answer = "of run" => told'.counts[1] = Len(run'))
    <3>1. CASE told'.answer = "of run"
      <4>1. told'.counts = GateCounts(run') /\ IsFiniteSet(DOMAIN run') /\ Cardinality(DOMAIN run') = Len(run')
        BY <2>2, <2>3, <3>1
      <4>2. /\ GateCounts(run')[1] = Len(run')
            /\ GateCounts(run')[1] = GateCounts(run')[2] + GateCounts(run')[3]
        BY <4>1, GatesAreCounted
      <4>3. QED
        BY <4>1, <4>2
    <3>2. CASE told'.answer # "of run"
      <4>1. told'.counts = <<0, 0, 0>>
        BY <2>2, <3>2
      <4>2. told'.counts[1] = 0 /\ told'.counts[2] = 0 /\ told'.counts[3] = 0
        BY <4>1
      <4>3. 0 = 0 + 0
        OBVIOUS
      <4>4. QED
        BY <3>2, <4>2, <4>3, Zenon
    <3>3. QED
      BY <3>1, <3>2
  <2>5. TalesHold'
    BY <2>2, <2>4 DEF TalesHold
  <2>6. QED
    BY <2>1, <2>5 DEF PackKnows, PackersKnow
<1>11. CASE UNCHANGED packVars
  BY <1>11 DEF packVars, PackKnows, PackersKnow, TalesHold
<1>12. QED
  BY <1>2, <1>3, <1>4, <1>5, <1>6, <1>7, <1>8, <1>9, <1>10, <1>11 DEF PackNext

\* So what was told is true.
LEMMA PackTells ==
  ASSUME PackKnows
  PROVE  PacksAreTrue
<1>1. TalesHold /\ DOMAIN written = File
  BY DEF PackKnows, PackersKnow
<1>2. ASSUME told.verb = "init", told.answer = "created"
      PROVE  Parsed = File /\ written["references"] = written["workpack.json"] /\ IsWhole(There)
  <2>1. PICK topic \in Topic : \A i \in 1..11 : written[PackFiles[i]] = Content(PackFiles[i], topic)
    BY <1>1, <1>2 DEF TalesHold
  <2>2. \A f \in File : written[f] = Content(f, topic)
    BY <2>1, FilesOfAPack
  <2>3. \A f \in File : Content(f, topic) # Absent /\ Content(f, topic) # Broken
    BY DEF Content, Absent, Broken, Topic
  <2>4. There = File /\ Parsed = File
    BY <2>2, <2>3 DEF There, Parsed
  <2>5. written["references"] = topic /\ written["workpack.json"] = topic
    BY <2>2, FilesOfAPack DEF Content
  <2>6. QED
    BY <2>4, <2>5, FilesOfAPack DEF IsWhole
<1>3. ASSUME told.verb = "validate", told.answer = "valid"
      PROVE  LET planned == PlanOf(told.parsed)
                 unparsed == told.files \ told.parsed IN
             /\ planned.answer = "completed"
             /\ planned.gates = {"gate"} \/ "gate" \in unparsed
             /\ planned.risks \/ "risk-policy" \in unparsed
             /\ planned.trace \/ "trace-policy" \in unparsed
  <2>1. "workpack.json" \in told.parsed /\ "gate" \in told.files /\ "risk-policy" \in told.files /\ "trace-policy" \in told.files
    BY <1>1, <1>3 DEF TalesHold, IsWhole, NamedFiles
  <2>2. LET planned == PlanOf(told.parsed) IN
        /\ planned.answer = "completed" /\ planned.gates = {"gate"} \intersect told.parsed
        /\ planned.risks = ("risk-policy" \in told.parsed) /\ planned.trace = ("trace-policy" \in told.parsed)
    BY <2>1 DEF PlanOf, NothingTold
  <2>3. "gate" \in told.parsed => {"gate"} \intersect told.parsed = {"gate"}
    OBVIOUS
  <2>4. QED
    BY <2>1, <2>2, <2>3
<1>4. CreatedPacksAreWhole
  BY <1>2 DEF CreatedPacksAreWhole
<1>5. PacksAreReadTruly
  BY <1>1, <1>3 DEF PacksAreReadTruly, TalesHold
<1>6. QED
  BY <1>4, <1>5 DEF PacksAreTrue

--------------------------------------------------------------------------------

(***************************************************************************)
(* The package store.                                                      *)
(***************************************************************************)

Hash == Bytes \union {Gone}

\* An index: the active version and the digests of those it has.
Indexes == [active : 0..2, has : [Version -> Hash]]

\* Where a command stands.
WorkerSteps == {"off", "lock", "own", "recover", "recheck", "unlink", "recovered", "read", "place", "delete", "write", "leave", "missing"}

\* A process and what it remembers.
Workers == [pid : Nat, verb : {"none", "install", "remove", "merge"}, tier : Tier, ver : 0..2, bytes : Hash, step : WorkerSteps,
            memo : Indexes \union {Gone}]

\* The lock directory of a tier: whether it exists, who owns it, whether it is old.
Mutexes == [dir : BOOLEAN, owner : Nat, old : BOOLEAN]

\* What the directory of a version holds.
FilePairs == [asset : Hash, receipt : Hash]

\* The types.
StoreTyped ==
  /\ worker \in [Worker -> Workers] /\ mutex \in [Tier -> Mutexes] /\ recovering \in [Tier -> BOOLEAN]
  /\ dirs \in [Tier -> [Version -> FilePairs]] /\ index \in [Tier -> Indexes]
  /\ commands \in Nat /\ commands <= MaxCommands /\ faults \in Nat

\* An index names an active version exactly if it has one.
Fits(ix) == ix.active \in Indexed(ix) \/ (ix.active = 0 /\ Indexed(ix) = {})

\* The steps at which a command has read the index and not yet written it.
DecidingSteps == {"place", "delete", "write"}

\* What the fields of a worker say of each other.
Sane(w) ==
  /\ w.step = "off" => w = Off
  /\ w.step # "off" => w.pid # 0 /\ w.verb # "none"
  /\ w.verb = "install" => w.ver \in Version /\ w.bytes \in Bytes
  /\ w.verb = "merge" => w.memo \in Indexes
  /\ w.step = "place" => w.verb = "install"
  /\ w.step = "delete" => w.verb = "remove" /\ w.ver \in Version
  /\ w.step \in DecidingSteps => w.memo \in Indexes /\ Fits(w.memo)

\* The fields of every worker and every index fit together.
WorkersAreSane == (\A p \in Worker : Sane(worker[p])) /\ \A t \in Tier : Fits(index[t])

\* The latest version of an index is one it has.
LEMMA LatestIsThere ==
  ASSUME NEW ix
  PROVE  /\ Indexed(ix) = {} => LatestVersion(ix) = 0
         /\ Indexed(ix) # {} => LatestVersion(ix) \in Indexed(ix)
<1>1. CASE Indexed(ix) = {}
  BY <1>1 DEF LatestVersion
<1>2. CASE Indexed(ix) # {}
  <2>1. LatestVersion(ix) = Max(Indexed(ix))
    BY <1>2 DEF LatestVersion
  <2>2. Indexed(ix) \subseteq {1, 2}
    BY DEF Indexed, Version
  <2>3. \E x \in Indexed(ix) : \A y \in Indexed(ix) : x >= y
    <3>1. CASE 2 \in Indexed(ix)
      BY <2>2, <3>1
    <3>2. CASE 2 \notin Indexed(ix)
      BY <1>2, <2>2, <3>2
    <3>3. QED
      BY <3>1, <3>2
  <2>4. QED
    BY <1>2, <2>1, <2>3 DEF Max
<1>3. QED
  BY <1>1, <1>2

\* Normalizing an index keeps its versions and gives it an active one.
LEMMA Normalized ==
  ASSUME NEW ix \in Indexes
  PROVE  LET n == NormalizeRecord(ix) IN
         /\ n \in Indexes /\ n.has = ix.has /\ Indexed(n) = Indexed(ix) /\ Fits(n)
         /\ ix.active \in Indexed(ix) => n.active = ix.active
         /\ ix.active \notin Indexed(ix) => n.active = LatestVersion(n)
<1> DEFINE a == IF ix.active \in Indexed(ix) THEN ix.active ELSE LatestVersion(ix)
<1>1. NormalizeRecord(ix) = [ix EXCEPT !.active = a]
  BY DEF NormalizeRecord, Indexes
<1>2. Indexed(ix) \subseteq Version /\ Version \subseteq 0..2 /\ 0 \in 0..2
  BY DEF Indexed, Version
<1>3. a \in Indexed(ix) \/ (a = 0 /\ Indexed(ix) = {})
  BY LatestIsThere
<1>4. /\ ix.active \in Indexed(ix) => a = ix.active
      /\ ix.active \notin Indexed(ix) => a = LatestVersion(ix)
  OBVIOUS
<1> HIDE DEF a
<1>5. PICK n : n = NormalizeRecord(ix)
  OBVIOUS
<1>6. n \in Indexes /\ n.has = ix.has /\ n.active = a
  BY <1>1, <1>2, <1>3, <1>5 DEF Indexes
<1>7. Indexed(n) = Indexed(ix)
  BY <1>6 DEF Indexed
<1>8. LatestVersion(n) = LatestVersion(ix)
  BY <1>7 DEF LatestVersion
<1>9. QED
  BY <1>3, <1>4, <1>5, <1>6, <1>7, <1>8 DEF Fits

\* What a reader gets: the index, and of what it lacks only what a receipt names.
LEMMA ReadIndexes ==
  ASSUME NEW t \in Tier, index[t] \in Indexes, Fits(index[t]), dirs[t] \in [Version -> FilePairs], NEW ix \in IndexesRead(t)
  PROVE  /\ ix \in Indexes /\ Fits(ix)
         /\ \A v \in Version : index[t].has[v] # Gone => ix.has[v] = index[t].has[v]
         /\ \A v \in Version : index[t].has[v] = Gone => ix.has[v] = Gone \/ (Recovered(dirs[t][v]) /\ ix.has[v] = dirs[t][v].receipt)
         /\ index[t].active # 0 => ix.active = index[t].active
<1> DEFINE orphans == {v \in Version : index[t].has[v] = Gone /\ Recovered(dirs[t][v])}
           has == [v \in Version |-> IF v \in orphans THEN dirs[t][v].receipt ELSE index[t].has[v]]
<1>1. has \in [Version -> Hash]
  BY DEF Indexes, FilePairs
<1>2. \A v \in Version : /\ index[t].has[v] # Gone => has[v] = index[t].has[v]
                         /\ index[t].has[v] = Gone => has[v] = Gone \/ (Recovered(dirs[t][v]) /\ has[v] = dirs[t][v].receipt)
                         /\ v \in orphans => has[v] # Gone
                         /\ has[v] # Gone => v \in orphans \/ index[t].has[v] # Gone
  BY DEF Recovered
<1>3. ix \in IF index[t].active # 0 \/ orphans = {} THEN {[index[t] EXCEPT !.has = has]} ELSE {[active |-> v, has |-> has] : v \in orphans}
  BY DEF IndexesRead
<1>4. orphans \subseteq Version /\ Version \subseteq 0..2
  BY DEF Version
<1> HIDE DEF has, orphans
<1>5. CASE index[t].active # 0 \/ orphans = {}
  <2>1. ix = [index[t] EXCEPT !.has = has]
    BY <1>3, <1>5
  <2>2. ix \in Indexes /\ ix.has = has /\ ix.active = index[t].active
    BY <1>1, <2>1 DEF Indexes
  <2>3. CASE index[t].active # 0
    <3>1. index[t].active \in Indexed(index[t])
      BY <2>3 DEF Fits
    <3>2. ix.active \in Indexed(ix)
      BY <1>2, <2>2, <3>1 DEF Indexed
    <3>3. QED
      BY <1>2, <2>2, <3>2 DEF Fits
  <2>4. CASE index[t].active = 0
    <3>1. Indexed(index[t]) = {} /\ orphans = {}
      BY <1>5, <2>4 DEF Fits, Indexed, Version
    <3>2. Indexed(ix) = {}
      BY <1>2, <2>2, <3>1 DEF Indexed
    <3>3. QED
      BY <1>2, <2>2, <2>4, <3>2 DEF Fits
  <2>5. QED
    BY <2>3, <2>4
<1>6. CASE ~(index[t].active # 0 \/ orphans = {})
  <2>1. PICK v \in orphans : ix = [active |-> v, has |-> has]
    BY <1>3, <1>6
  <2>2. ix \in Indexes /\ ix.has = has /\ ix.active = v
    BY <1>1, <1>4, <2>1 DEF Indexes
  <2>3. v \in Indexed(ix)
    BY <1>2, <1>4, <2>2 DEF Indexed
  <2>4. QED
    BY <1>2, <1>6, <2>2, <2>3 DEF Fits
<1>7. QED
  BY <1>5, <1>6

\* What is merged into an index adds to it, and keeps its active version.
LEMMA Merged ==
  ASSUME NEW current \in Indexes, NEW incoming \in Indexes, Fits(current)
  PROVE  LET m == MergeIndexes(current, incoming) IN
         /\ m \in Indexes /\ Fits(m)
         /\ \A v \in Version : current.has[v] # Gone => m.has[v] # Gone
         /\ current.active # 0 => m.active = current.active
<1> DEFINE has == [v \in Version |-> IF incoming.has[v] # Gone THEN incoming.has[v] ELSE current.has[v]]
           active == IF current.active # 0 THEN current.active ELSE incoming.active
           ix == [active |-> active, has |-> has]
<1>1. has \in [Version -> Hash] /\ active \in 0..2
  BY DEF Indexes
<1>2. \A v \in Version : current.has[v] # Gone => has[v] # Gone
  OBVIOUS
<1>3. current.active # 0 => active = current.active /\ current.active \in Indexed(current)
  BY DEF Fits
<1>4. MergeIndexes(current, incoming) = NormalizeRecord(ix)
  BY DEF MergeIndexes
<1> HIDE DEF has, active
<1>5. ix \in Indexes /\ ix.has = has /\ ix.active = active
  BY <1>1 DEF Indexes
<1> HIDE DEF ix
<1>6. current.active # 0 => ix.active \in Indexed(ix)
  BY <1>2, <1>3, <1>5 DEF Indexed
<1>7. QED
  BY <1>2, <1>3, <1>4, <1>5, <1>6, Normalized

\* What is installed is added, and becomes the active version of a package that has none.
LEMMA AddedTo ==
  ASSUME NEW ix \in Indexes, Fits(ix), NEW v \in Version, NEW b \in Bytes
  PROVE  LET a == Added(ix, v, b) IN
         /\ a \in Indexes /\ Fits(a) /\ a.has[v] = b
         /\ \A u \in Version : u # v => a.has[u] = ix.has[u]
         /\ ix.active # 0 => a.active = ix.active
<1>1. PICK a : a = Added(ix, v, b)
  OBVIOUS
<1>2. a = [active |-> IF ix.active # 0 THEN ix.active ELSE v, has |-> [ix.has EXCEPT ![v] = b]]
  BY <1>1 DEF Added
<1>3. v \in 0..2 /\ v # 0 /\ b # Gone
  BY StoreAssumption DEF Version
<1>4. a \in Indexes
  BY <1>2, <1>3 DEF Indexes, Hash
<1>5. /\ ix.active # 0 => a.active = ix.active
      /\ ix.active = 0 => a.active = v
  BY <1>2
<1>6. a.has[v] = b /\ \A u \in Version : u # v => a.has[u] = ix.has[u]
  BY <1>2 DEF Indexes
<1>7. v \in Indexed(a) /\ Indexed(ix) \subseteq Indexed(a)
  BY <1>3, <1>6 DEF Indexed
<1>8. QED
  BY <1>1, <1>4, <1>5, <1>6, <1>7 DEF Fits

\* What is removed is left out, and the active version moves to the latest if it was that.
LEMMA WithoutIt ==
  ASSUME NEW ix \in Indexes, Fits(ix), NEW v \in Version
  PROVE  LET n == Without(ix, v) IN
         /\ n \in Indexes /\ Fits(n) /\ n.has[v] = Gone
         /\ \A u \in Version : u # v => n.has[u] = ix.has[u]
         /\ n.active # ix.active => n.has[ix.active] = Gone /\ n.active = LatestVersion(n)
<1> DEFINE has == [ix.has EXCEPT ![v] = Gone]
           w == [ix EXCEPT !.has = has]
<1>1. has \in [Version -> Hash] /\ has[v] = Gone /\ \A u \in Version : u # v => has[u] = ix.has[u]
  BY DEF Indexes, Hash
<1>2. Without(ix, v) = NormalizeRecord(w)
  BY DEF Without
<1> HIDE DEF has
<1>3. w \in Indexes /\ w.has = has /\ w.active = ix.active
  BY <1>1 DEF Indexes
<1> HIDE DEF w
<1>4. PICK n : n = NormalizeRecord(w)
  OBVIOUS
<1>5. /\ n \in Indexes /\ n.has = has /\ Fits(n)
      /\ ix.active \in Indexed(w) => n.active = ix.active
      /\ ix.active \notin Indexed(w) => n.active = LatestVersion(n)
  BY <1>3, <1>4, Normalized
<1>6. ASSUME n.active # ix.active
      PROVE  n.has[ix.active] = Gone /\ n.active = LatestVersion(n)
  <2>1. ix.active \notin Indexed(w) /\ n.active = LatestVersion(n)
    BY <1>5, <1>6
  <2>2. ix.active \in Indexed(ix)
    <3>1. CASE ix.active = 0 /\ Indexed(ix) = {}
      <4>1. Indexed(w) = {}
        BY <1>1, <1>3, <3>1 DEF Indexed
      <4>2. Indexed(n) = {}
        BY <1>3, <1>5, <4>1 DEF Indexed
      <4>3. n.active = 0
        BY <2>1, <4>2, LatestIsThere
      <4>4. QED
        BY <1>6, <3>1, <4>3
    <3>2. QED
      BY <3>1 DEF Fits
  <2>3. QED
    BY <1>3, <1>5, <2>1, <2>2 DEF Indexed
<1>7. QED
  BY <1>1, <1>2, <1>4, <1>5, <1>6

\* What a command does with the index it has read: go on with an index that keeps what it is not told to remove, or leave.
LEMMA VersionDecided ==
  ASSUME NEW w \in Workers, Sane(w), w.step = "read", NEW ix \in Indexes, Fits(ix)
  PROVE  LET d == Decides(w, ix) IN
         /\ d \in Workers /\ Sane(d) /\ d.pid = w.pid /\ d.tier = w.tier /\ d.verb = w.verb
         /\ d.step \in {"missing", "leave", "delete", "place", "write"}
         /\ d.step \in DecidingSteps =>
              /\ \A v \in Version : ix.has[v] # Gone /\ d.memo.has[v] = Gone => d.verb = "remove" /\ d.ver = v
              /\ ix.active # 0 /\ d.memo.active # ix.active => d.memo.has[ix.active] = Gone /\ d.memo.active = LatestVersion(d.memo)
         /\ d.step = "write" => d.memo.has = ix.has \/ (w.verb = "merge" /\ d.memo = MergeIndexes(ix, w.memo))
         /\ d.step = "place" =>
              /\ d.memo.has[d.ver] = d.bytes /\ ix.has[d.ver] = Gone /\ ~Exists(dirs[d.tier][d.ver])
              /\ \A v \in Version : v # d.ver => d.memo.has[v] = ix.has[v]
         /\ d.step = "delete" => d.memo.has[d.ver] = Gone /\ \A v \in Version : v # d.ver => d.memo.has[v] = ix.has[v]
<1>1. w.verb \in {"install", "remove", "merge"}
  BY DEF Sane, Workers
<1>2. PICK d : d = Decides(w, ix)
  OBVIOUS
<1>3. CASE w.verb = "merge"
  <2>1. PICK m : m = MergeIndexes(ix, w.memo)
    OBVIOUS
  <2>2. d = [w EXCEPT !.step = "write", !.memo = m]
    BY <1>2, <1>3, <2>1 DEF Decides
  <2>3. w.memo \in Indexes
    BY <1>3 DEF Sane
  <2>4. /\ m \in Indexes /\ Fits(m)
        /\ \A v \in Version : ix.has[v] # Gone => m.has[v] # Gone
        /\ ix.active # 0 => m.active = ix.active
    BY <2>1, <2>3, Merged
  <2>5. d \in Workers
    BY <2>2, <2>4 DEF Workers, WorkerSteps
  <2>6. /\ d.pid = w.pid /\ d.tier = w.tier /\ d.verb = w.verb /\ d.ver = w.ver /\ d.bytes = w.bytes
        /\ d.step = "write" /\ d.memo = m
    BY <2>2 DEF Workers
  <2>7. Sane(d)
    BY <1>3, <2>4, <2>6 DEF Sane
  <2>8. QED
    BY <1>2, <1>3, <2>1, <2>4, <2>5, <2>6, <2>7
<1>4. CASE w.verb = "remove"
  <2>1. PICK target : target = SelectVersion(ix, w.ver)
    OBVIOUS
  <2>2. target = 0 \/ target \in Indexed(ix)
    BY <2>1 DEF SelectVersion
  <2>3. CASE target = 0
    <3>1. d = [w EXCEPT !.step = "missing"]
      BY <1>2, <1>4, <2>1, <2>3 DEF Decides
    <3>2. d \in Workers
      BY <3>1 DEF Workers, WorkerSteps
    <3>3. /\ d.pid = w.pid /\ d.tier = w.tier /\ d.verb = w.verb /\ d.step = "missing"
      BY <3>1 DEF Workers
    <3>4. Sane(d)
      BY <1>4, <3>3 DEF Sane, DecidingSteps
    <3>5. QED
      BY <1>2, <3>2, <3>3, <3>4 DEF DecidingSteps
  <2>4. CASE target # 0
    <3>1. target \in Version /\ ix.has[target] # Gone
      BY <2>2, <2>4 DEF Indexed
    <3>2. PICK n : n = Without(ix, target)
      OBVIOUS
    <3>3. d = [w EXCEPT !.step = "delete", !.ver = target, !.memo = n]
      BY <1>2, <1>4, <2>1, <2>4, <3>2 DEF Decides
    <3>4. /\ n \in Indexes /\ Fits(n) /\ n.has[target] = Gone
          /\ \A u \in Version : u # target => n.has[u] = ix.has[u]
          /\ n.active # ix.active => n.has[ix.active] = Gone /\ n.active = LatestVersion(n)
      BY <3>1, <3>2, WithoutIt
    <3>5. d \in Workers
      <4>1. target \in 0..2 /\ n \in Indexes
        BY <3>1, <3>4 DEF Version
      <4>2. [w EXCEPT !.step = "delete"] \in Workers
        BY DEF Workers, WorkerSteps
      <4>3. QED
        BY <3>3, <4>1, <4>2 DEF Workers
    <3>6. /\ d.pid = w.pid /\ d.tier = w.tier /\ d.verb = w.verb /\ d.ver = target
          /\ d.step = "delete" /\ d.memo = n
      BY <3>3 DEF Workers
    <3>7. Sane(d)
      BY <1>4, <3>1, <3>4, <3>6 DEF Sane
    <3>8. \A v \in Version : ix.has[v] # Gone /\ n.has[v] = Gone => v = target
      BY <3>4
    <3>9. QED
      BY <1>2, <1>4, <3>4, <3>5, <3>6, <3>7, <3>8
  <2>5. QED
    BY <2>3, <2>4
<1>5. CASE w.verb = "install" /\ ix.has[w.ver] # Gone
  <2>1. d \in {[w EXCEPT !.step = "write", !.memo = ix], [w EXCEPT !.step = "leave", !.memo = ix]}
    BY <1>2, <1>5 DEF Decides
  <2>2. PICK s \in {"write", "leave"} : d = [w EXCEPT !.step = s, !.memo = ix]
    BY <2>1
  <2>3. d \in Workers
    BY <2>2 DEF Workers, WorkerSteps
  <2>4. /\ d.pid = w.pid /\ d.tier = w.tier /\ d.verb = w.verb /\ d.ver = w.ver /\ d.bytes = w.bytes
        /\ d.step = s /\ d.memo = ix
    BY <2>2 DEF Workers
  <2>5. Sane(d)
    BY <1>5, <2>4 DEF Sane
  <2>6. QED
    BY <1>2, <2>3, <2>4, <2>5
<1>6. CASE w.verb = "install" /\ ix.has[w.ver] = Gone
  <2>1. w.ver \in Version /\ w.bytes \in Bytes
    BY <1>6 DEF Sane
  <2>2. PICK a : a = Added(ix, w.ver, w.bytes)
    OBVIOUS
  <2>3. /\ a \in Indexes /\ Fits(a) /\ a.has[w.ver] = w.bytes
        /\ \A u \in Version : u # w.ver => a.has[u] = ix.has[u]
        /\ ix.active # 0 => a.active = ix.active
    BY <2>1, <2>2, AddedTo
  <2>4. \/ Exists(dirs[w.tier][w.ver]) /\ d = [w EXCEPT !.step = "leave", !.memo = a]
        \/ ~Exists(dirs[w.tier][w.ver]) /\ d = [w EXCEPT !.step = "place", !.memo = a]
    BY <1>2, <1>6, <2>2 DEF Decides
  <2>5. PICK s \in {"leave", "place"} : d = [w EXCEPT !.step = s, !.memo = a] /\ (s = "place" => ~Exists(dirs[w.tier][w.ver]))
    BY <2>4
  <2>6. d \in Workers
    BY <2>3, <2>5 DEF Workers, WorkerSteps
  <2>7. /\ d.pid = w.pid /\ d.tier = w.tier /\ d.verb = w.verb /\ d.ver = w.ver /\ d.bytes = w.bytes
        /\ d.step = s /\ d.memo = a
    BY <2>5 DEF Workers
  <2>8. Sane(d)
    BY <1>6, <2>1, <2>3, <2>7 DEF Sane
  <2>9. \A v \in Version : ix.has[v] # Gone => a.has[v] # Gone
    BY <1>6, <2>3
  <2>10. QED
    BY <1>2, <1>6, <2>3, <2>5, <2>6, <2>7, <2>8, <2>9
<1>7. QED
  BY <1>1, <1>3, <1>4, <1>5, <1>6

\* One worker takes a step of its own.
LEMMA Stepped ==
  ASSUME worker \in [Worker -> Workers], NEW p \in Worker, NEW s \in WorkerSteps, StepsTo(p, s)
  PROVE  /\ worker' \in [Worker -> Workers] /\ \A q \in Worker \ {p} : worker'[q] = worker[q]
         /\ worker'[p] = [worker[p] EXCEPT !.step = s] /\ worker'[p].step = s /\ worker'[p].pid = worker[p].pid
         /\ worker'[p].verb = worker[p].verb /\ worker'[p].tier = worker[p].tier /\ worker'[p].ver = worker[p].ver
         /\ worker'[p].bytes = worker[p].bytes /\ worker'[p].memo = worker[p].memo
<1>1. /\ worker' = [worker EXCEPT ![p] = [worker[p] EXCEPT !.step = s]] /\ worker[p] \in Workers
  BY DEF StepsTo
<1>2. PICK w : w = [worker[p] EXCEPT !.step = s]
  OBVIOUS
<1>3. /\ w \in Workers /\ w.step = s /\ w.pid = worker[p].pid /\ w.verb = worker[p].verb /\ w.tier = worker[p].tier
      /\ w.ver = worker[p].ver /\ w.bytes = worker[p].bytes /\ w.memo = worker[p].memo
  BY <1>1, <1>2 DEF Workers
<1>4. worker'[p] = w /\ worker' \in [Worker -> Workers] /\ \A q \in Worker \ {p} : worker'[q] = worker[q]
  BY <1>1, <1>2, <1>3
<1>5. QED
  BY <1>2, <1>3, <1>4

\* A worker without a command is one.
LEMMA OffIsTyped == Off \in Workers /\ Sane(Off)
<1>1. Off \in Workers
  BY DEF Off, Workers, WorkerSteps, Hash, Tier
<1>2. Off.step = "off" /\ Off.verb = "none"
  BY DEF Off
<1>3. QED
  BY <1>1, <1>2 DEF Sane, DecidingSteps

\* A command that exits leaves the other workers alone.
LEMMA Exited ==
  ASSUME worker \in [Worker -> Workers], NEW p \in Worker, Exits(p)
  PROVE  /\ worker' \in [Worker -> Workers] /\ \A q \in Worker \ {p} : worker'[q] = worker[q]
         /\ worker'[p] = Off /\ worker'[p].step = "off" /\ worker'[p].tier = "global" /\ worker'[p].pid = 0
<1>1. worker' = [worker EXCEPT ![p] = Off]
  BY DEF Exits
<1>2. worker' \in [Worker -> Workers] /\ worker'[p] = Off /\ \A q \in Worker \ {p} : worker'[q] = worker[q]
  BY <1>1, OffIsTyped
<1>3. Off.step = "off" /\ Off.tier = "global" /\ Off.pid = 0
  BY DEF Off
<1>4. QED
  BY <1>2, <1>3

(***************************************************************************)
(* What a step leaves: types, sane workers, indexes that fit.              *)
(***************************************************************************)

TypedAndSane == StoreTyped /\ WorkersAreSane

\* The types hold at first.
LEMMA TypedStart ==
  ASSUME StoreInit
  PROVE  TypedAndSane
<1>1. worker \in [Worker -> Workers] /\ \A p \in Worker : Sane(worker[p])
  BY OffIsTyped DEF StoreInit
<1>2. mutex \in [Tier -> Mutexes] /\ recovering \in [Tier -> BOOLEAN]
  <2>1. PICK left \in {Free, [dir |-> TRUE, owner |-> MaxCommands + 1, old |-> TRUE]} : mutex = [project |-> Free, global |-> left]
    BY DEF StoreInit
  <2>2. Free \in Mutexes /\ left \in Mutexes
    <3>1. Free \in Mutexes
      BY DEF Free, Mutexes
    <3>2. MaxCommands + 1 \in Nat
      BY StoreAssumption
    <3>3. [dir |-> TRUE, owner |-> MaxCommands + 1, old |-> TRUE] \in Mutexes
      BY <3>2 DEF Mutexes
    <3>4. QED
      BY <2>1, <3>1, <3>3
  <2>3. mutex \in [Tier -> Mutexes]
    BY <2>1, <2>2 DEF Tier
  <2>4. QED
    BY <2>3 DEF StoreInit
<1>3. PICK has \in {Empty.has} \union {[v \in Version |-> b] : b \in Bytes} :
        /\ dirs = [project |-> [v \in Version |-> NoFiles], global |-> [v \in Version |-> [asset |-> has[v], receipt |-> has[v]]]]
        /\ index = [project |-> Empty, global |-> [active |-> IF has = Empty.has THEN 0 ELSE 1, has |-> has]]
  BY DEF StoreInit
<1>4. /\ Empty.has = [v \in Version |-> Gone] /\ Empty.active = 0 /\ Empty \in Indexes /\ Fits(Empty)
  BY DEF Empty, Indexes, Hash, Fits, Indexed
<1>5. has \in [Version -> Hash] /\ (has = Empty.has \/ \A v \in Version : has[v] # Gone)
  BY <1>4, StoreAssumption DEF Hash
<1>6. index \in [Tier -> Indexes] /\ \A t \in Tier : Fits(index[t])
  <2>1. PICK ix : ix = [active |-> IF has = Empty.has THEN 0 ELSE 1, has |-> has]
    OBVIOUS
  <2>2. /\ ix.has = has /\ (has = Empty.has => ix.active = 0) /\ (has # Empty.has => ix.active = 1)
    BY <2>1
  <2>3. ix \in Indexes
    BY <1>5, <2>1 DEF Indexes
  <2>4. Fits(ix)
    <3>1. CASE has = Empty.has
      BY <1>4, <2>2, <3>1 DEF Fits, Indexed
    <3>2. CASE has # Empty.has
      BY <1>5, <2>2, <3>2 DEF Fits, Indexed, Version
    <3>3. QED
      BY <3>1, <3>2
  <2>5. index = [project |-> Empty, global |-> ix]
    BY <1>3, <2>1
  <2>6. index["project"] = Empty /\ index["global"] = ix /\ index \in [Tier -> Indexes]
    BY <1>4, <2>3, <2>5 DEF Tier
  <2>7. QED
    BY <1>4, <2>4, <2>6 DEF Tier
<1>7. dirs \in [Tier -> [Version -> FilePairs]]
  <2>1. PICK given : given = [v \in Version |-> [asset |-> has[v], receipt |-> has[v]]]
    OBVIOUS
  <2>2. given \in [Version -> FilePairs]
    BY <1>5, <2>1 DEF FilePairs
  <2>3. [v \in Version |-> NoFiles] \in [Version -> FilePairs]
    BY DEF NoFiles, FilePairs, Hash
  <2>4. dirs = [project |-> [v \in Version |-> NoFiles], global |-> given]
    BY <1>3, <2>1
  <2>5. QED
    BY <2>2, <2>3, <2>4 DEF Tier
<1>8. commands = 0 /\ faults = 0
  BY DEF StoreInit
<1>9. QED
  BY <1>1, <1>2, <1>6, <1>7, <1>8, StoreAssumption DEF TypedAndSane, StoreTyped, WorkersAreSane

\* One worker changes, the rest does not.
LEMMA OneWorker ==
  ASSUME WorkersAreSane, NEW p \in Worker, \A q \in Worker \ {p} : worker'[q] = worker[q], Sane(worker'[p]), index' = index
  PROVE  WorkersAreSane'
BY DEF WorkersAreSane, Fits, Indexed, Sane

\* A step of the lock's protocol needs nothing of a worker but that it is at work.
LEMMA SaneSteps ==
  ASSUME NEW w, Sane(w), w.step # "off", NEW s, s \notin DecidingSteps, s # "off", NEW n, n.pid = w.pid, n.verb = w.verb, n.ver = w.ver,
         n.bytes = w.bytes, n.memo = w.memo, n.step = s
  PROVE  Sane(n)
BY DEF Sane, DecidingSteps

\* The steps in which a worker only goes on in the protocol of the lock, or ends.
LEMMA ProtocolStep ==
  ASSUME TypedAndSane, NEW p \in Worker,
         MakeLock(p) \/ NameOwner(p) \/ StartRecovery(p) \/ LookAgain(p) \/ RemoveStale(p) \/ EndRecovery(p)
  PROVE  /\ worker' \in [Worker -> Workers] /\ \A q \in Worker \ {p} : worker'[q] = worker[q]
         /\ Sane(worker'[p]) /\ worker'[p].step \notin DecidingSteps /\ worker[p].step \notin DecidingSteps
         /\ UNCHANGED <<dirs, index, commands, faults, spoiled>>
<1>1. worker \in [Worker -> Workers] /\ Sane(worker[p])
  BY DEF TypedAndSane, StoreTyped, WorkersAreSane
<1>2. /\ \/ Exits(p)
         \/ \E s \in {"own", "recover", "read", "lock", "recheck", "unlink", "recovered"} : StepsTo(p, s)
      /\ worker[p].step \in {"lock", "own", "recover", "recheck", "unlink", "recovered"}
      /\ UNCHANGED <<dirs, index, commands, faults, spoiled>>
  BY DEF MakeLock, NameOwner, StartRecovery, LookAgain, RemoveStale, EndRecovery, IsAt
<1>3. CASE Exits(p)
  BY <1>1, <1>2, <1>3, Exited, OffIsTyped DEF DecidingSteps
<1>4. ASSUME NEW s \in {"own", "recover", "read", "lock", "recheck", "unlink", "recovered"}, StepsTo(p, s)
      PROVE  /\ worker' \in [Worker -> Workers] /\ \A q \in Worker \ {p} : worker'[q] = worker[q]
             /\ Sane(worker'[p]) /\ worker'[p].step \notin DecidingSteps
  <2>1. s \in WorkerSteps /\ s \notin DecidingSteps /\ s # "off" /\ worker[p].step # "off"
    BY <1>2 DEF WorkerSteps, DecidingSteps
  <2>2. /\ worker' \in [Worker -> Workers] /\ \A q \in Worker \ {p} : worker'[q] = worker[q]
        /\ worker'[p].step = s /\ worker'[p].pid = worker[p].pid /\ worker'[p].verb = worker[p].verb
        /\ worker'[p].ver = worker[p].ver /\ worker'[p].bytes = worker[p].bytes /\ worker'[p].memo = worker[p].memo
    BY <1>1, <1>4, <2>1, Stepped
  <2>3. Sane(worker'[p])
    BY <1>1, <2>1, <2>2, SaneSteps
  <2>4. QED
    BY <2>1, <2>2, <2>3
<1>5. QED
  BY <1>2, <1>3, <1>4 DEF DecidingSteps

\* The locks stay locks.
LEMMA LocksStayTyped ==
  ASSUME StoreTyped, StoreNext
  PROVE  mutex' \in [Tier -> Mutexes]
<1>1. Free \in Mutexes
  BY DEF Free, Mutexes
<1>2. \A t \in Tier : mutex[t] \in Mutexes /\ [mutex[t] EXCEPT !.dir = TRUE] \in Mutexes /\ [mutex[t] EXCEPT !.old = TRUE] \in Mutexes
  BY DEF StoreTyped, Mutexes
<1>3. \A t \in Tier : [mutex[t] EXCEPT !.owner = 0, !.old = FALSE] \in Mutexes
  BY DEF StoreTyped, Mutexes
<1>4. \A p \in Worker : worker[p].tier \in Tier /\ worker[p].pid \in Nat
  BY DEF StoreTyped, Workers
<1>5. \A t \in Tier, n \in Nat : [mutex[t] EXCEPT !.owner = n, !.old = FALSE] \in Mutexes
  BY DEF StoreTyped, Mutexes
<1>6. \/ mutex' = mutex
      \/ \E t \in Tier, m \in Mutexes : mutex' = [mutex EXCEPT ![t] = m]
  <2>1. ASSUME NEW t \in Tier, Grows(t)
        PROVE  \E m \in Mutexes : mutex' = [mutex EXCEPT ![t] = m]
    BY <1>2, <2>1 DEF Grows
  <2>2. ASSUME NEW p \in Worker, MakeLock(p)
        PROVE  mutex' = mutex \/ \E m \in Mutexes : mutex' = [mutex EXCEPT ![worker[p].tier] = m]
    BY <1>2, <1>4, <2>2 DEF MakeLock
  <2>3. ASSUME NEW p \in Worker, NameOwner(p)
        PROVE  \E m \in Mutexes : mutex' = [mutex EXCEPT ![worker[p].tier] = m]
    BY <1>1, <1>4, <1>5, <2>3 DEF NameOwner
  <2>4. ASSUME NEW p \in Worker, RemoveStale(p) \/ LeaveLock(p)
        PROVE  \E m \in Mutexes : mutex' = [mutex EXCEPT ![worker[p].tier] = m]
    BY <1>1, <2>4 DEF RemoveStale, LeaveLock
  <2>5. ASSUME NEW p \in Worker, Killed(p)
        PROVE  mutex' = mutex \/ \E m \in Mutexes : mutex' = [mutex EXCEPT ![worker[p].tier] = m]
    BY <1>3, <1>4, <2>5 DEF Killed
  <2>6. ASSUME NEW p \in Worker, StartRecovery(p) \/ LookAgain(p) \/ EndRecovery(p) \/ StartCommand(p) \/ Reads(p) \/ Place(p)
                                 \/ RemoveVersion(p) \/ WriteIndex(p)
        PROVE  mutex' = mutex
    BY <2>6 DEF StartRecovery, LookAgain, EndRecovery, StartCommand, Launches, Reads, Place, RemoveVersion, WriteIndex
  <2>7. QED
    BY <1>4, <2>1, <2>2, <2>3, <2>4, <2>5, <2>6 DEF StoreNext, StoreStep
<1>7. QED
  BY <1>6 DEF StoreTyped

\* A process that starts is sane.
LEMMA LaunchedIsSane ==
  ASSUME TypedAndSane, NEW p \in Worker, StartCommand(p)
  PROVE  /\ worker' \in [Worker -> Workers] /\ \A q \in Worker \ {p} : worker'[q] = worker[q]
         /\ Sane(worker'[p]) /\ worker'[p].step = "lock" /\ worker'[p].pid = commands + 1
         /\ worker[p] = Off /\ commands < MaxCommands /\ commands' = commands + 1
         /\ UNCHANGED <<mutex, recovering, dirs, index, faults, spoiled>>
<1>1. /\ worker \in [Worker -> Workers] /\ commands \in Nat /\ \A t \in Tier : index[t] \in Indexes /\ Fits(index[t])
      /\ dirs \in [Tier -> [Version -> FilePairs]]
  BY DEF TypedAndSane, StoreTyped, WorkersAreSane
<1>2. PICK verb \in {"install", "remove", "merge"}, tier \in Tier, ver \in 0..2, bytes \in Hash, memo \in Indexes \union {Gone} :
        /\ Launches(p, verb, tier, ver, bytes, memo)
        /\ verb = "install" => ver \in Version /\ bytes \in Bytes
        /\ verb = "merge" => memo \in Indexes
  <2>1. CASE \E t \in Tier, v \in Version, b \in Bytes : Launches(p, "install", t, v, b, Gone)
    <3>1. PICK t \in Tier, v \in Version, b \in Bytes : Launches(p, "install", t, v, b, Gone)
      BY <2>1
    <3>2. v \in 0..2 /\ b \in Hash /\ Gone \in Indexes \union {Gone} /\ "install" \in {"install", "remove", "merge"} /\ "install" # "merge"
      BY DEF Version, Hash
    <3>3. QED
      BY <3>1, <3>2
  <2>2. CASE \E v \in {0} \union Version : Launches(p, "remove", "project", v, Gone, Gone)
    <3>1. PICK v \in {0} \union Version : Launches(p, "remove", "project", v, Gone, Gone)
      BY <2>2
    <3>2. v \in 0..2 /\ Gone \in Hash /\ "project" \in Tier /\ Gone \in Indexes \union {Gone} /\ "remove" \in {"install", "remove", "merge"}
      BY DEF Version, Hash, Tier
    <3>3. QED
      BY <3>1, <3>2
  <2>3. CASE \E ix \in IndexesRead("global") : Launches(p, "merge", "global", 0, Gone, ix)
    <3>1. PICK ix \in IndexesRead("global") : Launches(p, "merge", "global", 0, Gone, ix)
      BY <2>3
    <3>2. "global" \in Tier
      BY DEF Tier
    <3>3. ix \in Indexes
      BY <1>1, <3>2, ReadIndexes
    <3>4. 0 \in 0..2 /\ Gone \in Hash /\ "merge" \in {"install", "remove", "merge"} /\ "merge" # "install"
      BY DEF Hash
    <3>5. QED
      BY <3>1, <3>2, <3>3, <3>4
  <2>4. QED
    BY <2>1, <2>2, <2>3 DEF StartCommand
<1>3. PICK w : w = [pid |-> commands + 1, verb |-> verb, tier |-> tier, ver |-> ver, bytes |-> bytes, step |-> "lock", memo |-> memo]
  OBVIOUS
<1>4. w \in Workers
  BY <1>1, <1>3 DEF Workers, WorkerSteps
<1>5. w.verb = verb /\ w.ver = ver /\ w.bytes = bytes /\ w.memo = memo /\ w.step = "lock" /\ w.pid = commands + 1
  BY <1>3
<1>6. Sane(w)
  BY <1>1, <1>2, <1>5 DEF Sane, DecidingSteps
<1>7. /\ worker' = [worker EXCEPT ![p] = w] /\ worker[p] = Off /\ commands < MaxCommands /\ commands' = commands + 1
      /\ UNCHANGED <<mutex, recovering, dirs, index, faults, spoiled>>
  BY <1>2, <1>3 DEF Launches
<1>8. worker' \in [Worker -> Workers] /\ worker'[p] = w /\ \A q \in Worker \ {p} : worker'[q] = worker[q]
  BY <1>1, <1>4, <1>7
<1>9. QED
  BY <1>5, <1>6, <1>7, <1>8

\* The command reads the index under its lock and decides.
LEMMA ReadStep ==
  ASSUME TypedAndSane, NEW p \in Worker, Reads(p)
  PROVE  /\ worker' \in [Worker -> Workers] /\ \A q \in Worker \ {p} : worker'[q] = worker[q]
         /\ Sane(worker'[p]) /\ worker[p].step = "read"
         /\ UNCHANGED <<mutex, recovering, dirs, index, commands, faults>>
         /\ \E ix \in IndexesRead(worker[p].tier) :
              /\ worker'[p] = Decides(worker[p], ix)
              /\ spoiled' = spoiled \union (IF worker[p].verb = "merge" /\ MergeIndexes(ix, worker[p].memo).has # ix.has
                                            THEN {"merge"} ELSE {})
<1>1. worker \in [Worker -> Workers] /\ worker[p] \in Workers /\ Sane(worker[p]) /\ worker[p].tier \in Tier
  BY DEF TypedAndSane, StoreTyped, WorkersAreSane, Workers
<1>2. /\ index[worker[p].tier] \in Indexes /\ Fits(index[worker[p].tier]) /\ dirs[worker[p].tier] \in [Version -> FilePairs]
  BY <1>1 DEF TypedAndSane, StoreTyped, WorkersAreSane
<1>3. PICK ix \in IndexesRead(worker[p].tier) :
        /\ worker' = [worker EXCEPT ![p] = Decides(worker[p], ix)]
        /\ spoiled' = spoiled \union (IF worker[p].verb = "merge" /\ MergeIndexes(ix, worker[p].memo).has # ix.has
                                      THEN {"merge"} ELSE {})
  BY DEF Reads
<1>4. worker[p].step = "read" /\ UNCHANGED <<mutex, recovering, dirs, index, commands, faults>>
  BY DEF Reads, IsAt
<1>5. ix \in Indexes /\ Fits(ix)
  BY <1>1, <1>2, ReadIndexes
<1>6. Decides(worker[p], ix) \in Workers /\ Sane(Decides(worker[p], ix))
  BY <1>1, <1>4, <1>5, VersionDecided
<1>7. worker' \in [Worker -> Workers] /\ worker'[p] = Decides(worker[p], ix) /\ \A q \in Worker \ {p} : worker'[q] = worker[q]
  BY <1>1, <1>3, <1>6
<1>8. QED
  BY <1>3, <1>4, <1>6, <1>7

\* The command changes one version's directory, and goes on to write its index or leaves.
LEMMA DirectoryStep ==
  ASSUME TypedAndSane, NEW p \in Worker, Place(p) \/ RemoveVersion(p)
  PROVE  LET w == worker[p] IN
         /\ worker' \in [Worker -> Workers] /\ \A q \in Worker \ {p} : worker'[q] = worker[q]
         /\ Sane(worker'[p]) /\ w.step \in {"place", "delete"} /\ w.ver \in Version /\ w.tier \in Tier
         /\ \E s \in {"write", "leave"} : StepsTo(p, s) /\ worker'[p] = [w EXCEPT !.step = s] /\ worker'[p].step = s
         /\ worker'[p].memo = w.memo /\ worker'[p].tier = w.tier /\ worker'[p].ver = w.ver /\ worker'[p].verb = w.verb
         /\ worker'[p].pid = w.pid /\ worker'[p].bytes = w.bytes
         /\ worker'[p].step = "leave" => faults' = faults + 1
         /\ worker'[p].step = "write" => faults' = faults
         /\ UNCHANGED <<mutex, recovering, index, commands, spoiled>>
         /\ \E files \in FilePairs :
              /\ dirs' = [dirs EXCEPT ![w.tier] = [@ EXCEPT ![w.ver] = files]]
              /\ worker'[p].step = "write" => files = IF w.step = "place" THEN [asset |-> w.bytes, receipt |-> w.bytes] ELSE NoFiles
              /\ worker'[p].step = "leave" => files = dirs[w.tier][w.ver] \/ files.receipt \in {Gone, dirs[w.tier][w.ver].receipt}
<1> DEFINE w == worker[p]
           old == dirs[w.tier][w.ver]
<1>1. worker \in [Worker -> Workers] /\ w \in Workers /\ Sane(w) /\ w.tier \in Tier /\ faults \in Nat
  BY DEF TypedAndSane, StoreTyped, WorkersAreSane, Workers
<1>2. w.step \in {"place", "delete"} /\ w.ver \in Version /\ (w.step = "place" => w.bytes \in Bytes)
  BY <1>1 DEF Place, RemoveVersion, IsAt, Sane
<1>3. dirs \in [Tier -> [Version -> FilePairs]] /\ old \in FilePairs
  BY <1>1, <1>2 DEF TypedAndSane, StoreTyped
<1>4. UNCHANGED <<mutex, recovering, index, commands, spoiled>>
  BY DEF Place, RemoveVersion
<1>5. NoFiles \in FilePairs /\ (w.step = "place" => [asset |-> w.bytes, receipt |-> w.bytes] \in FilePairs)
  BY <1>2 DEF NoFiles, FilePairs, Hash
<1>6. /\ [old EXCEPT !.asset = Gone] \in FilePairs /\ [old EXCEPT !.asset = Gone].receipt = old.receipt
      /\ [old EXCEPT !.receipt = Gone] \in FilePairs /\ [old EXCEPT !.receipt = Gone].receipt = Gone
  BY <1>3 DEF FilePairs, Hash
<1>7. PICK s \in {"write", "leave"}, files \in FilePairs :
        /\ StepsTo(p, s) /\ dirs' = [dirs EXCEPT ![w.tier] = [@ EXCEPT ![w.ver] = files]]
        /\ s = "leave" => faults' = faults + 1
        /\ s = "write" => faults' = faults
        /\ s = "write" => files = IF w.step = "place" THEN [asset |-> w.bytes, receipt |-> w.bytes] ELSE NoFiles
        /\ s = "leave" => files = old \/ files.receipt \in {Gone, old.receipt}
  <2>1. CASE Place(p)
    <3>1. w.step = "place"
      BY <2>1 DEF Place, IsAt
    <3>2. CASE /\ dirs' = [dirs EXCEPT ![w.tier] = [@ EXCEPT ![w.ver] = [asset |-> w.bytes, receipt |-> w.bytes]]]
               /\ StepsTo(p, "write") /\ faults' = faults
      BY <1>5, <3>1, <3>2
    <3>3. CASE faults' = faults + 1 /\ StepsTo(p, "leave") /\ dirs' = dirs
      <4>1. dirs' = [dirs EXCEPT ![w.tier] = [@ EXCEPT ![w.ver] = old]]
        BY <1>1, <1>2, <1>3, <3>3
      <4>2. QED
        BY <1>3, <3>3, <4>1
    <3>4. QED
      BY <2>1, <3>2, <3>3 DEF Place
  <2>2. CASE RemoveVersion(p)
    <3>1. w.step = "delete"
      BY <2>2 DEF RemoveVersion, IsAt
    <3>2. CASE dirs' = [dirs EXCEPT ![w.tier] = [@ EXCEPT ![w.ver] = NoFiles]] /\ StepsTo(p, "write") /\ faults' = faults
      BY <1>5, <3>1, <3>2
    <3>3. CASE /\ faults' = faults + 1 /\ StepsTo(p, "leave")
               /\ dirs' = [dirs EXCEPT ![w.tier] = [@ EXCEPT ![w.ver] = [old EXCEPT !.asset = Gone]]]
      BY <1>6, <3>3
    <3>4. CASE /\ faults' = faults + 1 /\ StepsTo(p, "leave")
               /\ dirs' = [dirs EXCEPT ![w.tier] = [@ EXCEPT ![w.ver] = [old EXCEPT !.receipt = Gone]]]
      BY <1>6, <3>4
    <3>5. QED
      BY <2>2, <3>2, <3>3, <3>4 DEF RemoveVersion
  <2>3. QED
    BY <2>1, <2>2
<1>8. s \in WorkerSteps
  BY DEF WorkerSteps
<1>9. /\ worker' \in [Worker -> Workers] /\ \A q \in Worker \ {p} : worker'[q] = worker[q]
      /\ worker'[p] = [w EXCEPT !.step = s] /\ worker'[p].step = s /\ worker'[p].pid = w.pid
      /\ worker'[p].verb = w.verb /\ worker'[p].tier = w.tier /\ worker'[p].ver = w.ver
      /\ worker'[p].bytes = w.bytes /\ worker'[p].memo = w.memo
  BY <1>1, <1>7, <1>8, Stepped
<1>10. Sane(worker'[p])
  BY <1>1, <1>2, <1>9 DEF Sane, DecidingSteps
<1> HIDE DEF w, old
<1>11. QED
  BY <1>1, <1>2, <1>4, <1>7, <1>9, <1>10 DEF w, old

\* The command writes its index, or fails to, and leaves.
LEMMA IndexStep ==
  ASSUME TypedAndSane, NEW p \in Worker, WriteIndex(p)
  PROVE  LET w == worker[p] IN
         /\ worker' \in [Worker -> Workers] /\ \A q \in Worker \ {p} : worker'[q] = worker[q]
         /\ Sane(worker'[p]) /\ w.step = "write" /\ worker'[p].step = "leave" /\ w.tier \in Tier
         /\ worker'[p].tier = w.tier /\ worker'[p].pid = w.pid /\ w.memo \in Indexes /\ Fits(w.memo)
         /\ UNCHANGED <<mutex, recovering, dirs, commands, spoiled>>
         /\ \/ index' = [index EXCEPT ![w.tier] = w.memo] /\ faults' = faults
            \/ index' = index /\ faults' = faults + 1
<1>1. worker \in [Worker -> Workers] /\ worker[p] \in Workers /\ Sane(worker[p]) /\ worker[p].tier \in Tier
  BY DEF TypedAndSane, StoreTyped, WorkersAreSane, Workers
<1>2. /\ worker[p].step = "write" /\ StepsTo(p, "leave") /\ UNCHANGED <<mutex, recovering, dirs, commands, spoiled>>
      /\ \/ index' = [index EXCEPT ![worker[p].tier] = worker[p].memo] /\ faults' = faults
         \/ index' = index /\ faults' = faults + 1
  BY DEF WriteIndex, IsAt
<1>3. "leave" \in WorkerSteps
  BY DEF WorkerSteps
<1>4. /\ worker' \in [Worker -> Workers] /\ \A q \in Worker \ {p} : worker'[q] = worker[q]
      /\ worker'[p].step = "leave" /\ worker'[p].pid = worker[p].pid
      /\ worker'[p].verb = worker[p].verb /\ worker'[p].tier = worker[p].tier /\ worker'[p].ver = worker[p].ver
      /\ worker'[p].bytes = worker[p].bytes /\ worker'[p].memo = worker[p].memo
  BY <1>1, <1>2, <1>3, Stepped
<1>5. worker[p].memo \in Indexes /\ Fits(worker[p].memo)
  BY <1>1, <1>2 DEF Sane, DecidingSteps
<1>6. Sane(worker'[p])
  BY <1>1, <1>2, <1>4 DEF Sane, DecidingSteps
<1>7. QED
  BY <1>1, <1>2, <1>4, <1>5, <1>6

\* The command leaves its lock, for the global tier or for good.
LEMMA LeaveStep ==
  ASSUME TypedAndSane, NEW p \in Worker, LeaveLock(p)
  PROVE  LET w == worker[p] IN
         /\ worker' \in [Worker -> Workers] /\ \A q \in Worker \ {p} : worker'[q] = worker[q]
         /\ Sane(worker'[p]) /\ w.step \in {"leave", "missing"} /\ w.tier \in Tier
         /\ worker'[p].step = "off" \/ (worker'[p].step = "lock" /\ worker'[p].pid = w.pid)
         /\ mutex' = [mutex EXCEPT ![w.tier] = Free]
         /\ UNCHANGED <<recovering, dirs, index, commands, faults, spoiled>>
<1>1. worker \in [Worker -> Workers] /\ worker[p] \in Workers /\ Sane(worker[p]) /\ worker[p].tier \in Tier
  BY DEF TypedAndSane, StoreTyped, WorkersAreSane, Workers
<1>2. /\ worker[p].step \in {"leave", "missing"} /\ mutex' = [mutex EXCEPT ![worker[p].tier] = Free]
      /\ UNCHANGED <<recovering, dirs, index, commands, faults, spoiled>>
      /\ Exits(p) \/ worker' = [worker EXCEPT ![p] = [worker[p] EXCEPT !.tier = "global", !.step = "lock"]]
  BY DEF LeaveLock
<1>3. CASE Exits(p)
  BY <1>1, <1>2, <1>3, Exited, OffIsTyped
<1>4. CASE worker' = [worker EXCEPT ![p] = [worker[p] EXCEPT !.tier = "global", !.step = "lock"]]
  <2>1. PICK n : n = [worker[p] EXCEPT !.tier = "global", !.step = "lock"]
    OBVIOUS
  <2>2. [worker[p] EXCEPT !.tier = "global"] \in Workers
    BY <1>1 DEF Workers, Tier
  <2>3. n \in Workers
    BY <2>1, <2>2 DEF Workers, WorkerSteps
  <2>4. /\ n.step = "lock" /\ n.pid = worker[p].pid /\ n.verb = worker[p].verb /\ n.ver = worker[p].ver
        /\ n.bytes = worker[p].bytes /\ n.memo = worker[p].memo
    BY <1>1, <2>1 DEF Workers
  <2>5. Sane(n)
    BY <1>1, <1>2, <2>4 DEF Sane, DecidingSteps
  <2>6. worker' \in [Worker -> Workers] /\ worker'[p] = n /\ \A q \in Worker \ {p} : worker'[q] = worker[q]
    BY <1>1, <1>4, <2>1, <2>3
  <2>7. QED
    BY <1>1, <1>2, <2>4, <2>5, <2>6
<1>5. QED
  BY <1>2, <1>3, <1>4

\* A crash ends one command and, of the disk, touches at most the lock it was about to remove.
LEMMA KillStep ==
  ASSUME TypedAndSane, NEW p \in Worker, Killed(p)
  PROVE  /\ worker' \in [Worker -> Workers] /\ \A q \in Worker \ {p} : worker'[q] = worker[q]
         /\ Sane(worker'[p]) /\ worker'[p].step = "off" /\ worker[p] # Off /\ worker[p].tier \in Tier
         /\ faults' = faults + 1 /\ UNCHANGED <<recovering, dirs, index, commands, spoiled>>
         /\ \/ mutex' = mutex
            \/ /\ worker[p].step \in {"leave", "missing"}
               /\ mutex' = [mutex EXCEPT ![worker[p].tier] = [@ EXCEPT !.owner = 0, !.old = FALSE]]
<1>1. worker \in [Worker -> Workers] /\ worker[p] \in Workers /\ worker[p].tier \in Tier
  BY DEF TypedAndSane, StoreTyped, WorkersAreSane, Workers
<1>2. /\ Exits(p) /\ worker[p] # Off /\ faults' = faults + 1 /\ UNCHANGED <<recovering, dirs, index, commands, spoiled>>
      /\ \/ mutex' = mutex
         \/ /\ worker[p].step \in {"leave", "missing"}
            /\ mutex' = [mutex EXCEPT ![worker[p].tier] = [@ EXCEPT !.owner = 0, !.old = FALSE]]
  BY DEF Killed
<1>3. QED
  BY <1>1, <1>2, Exited, OffIsTyped

\* Every step keeps the types.
LEMMA TypedStep ==
  ASSUME TypedAndSane, StoreNext \/ UNCHANGED storeVars
  PROVE  TypedAndSane'
<1>1. StoreTyped /\ WorkersAreSane
  BY DEF TypedAndSane
<1>2. /\ worker \in [Worker -> Workers] /\ mutex \in [Tier -> Mutexes] /\ recovering \in [Tier -> BOOLEAN]
      /\ dirs \in [Tier -> [Version -> FilePairs]] /\ index \in [Tier -> Indexes]
      /\ commands \in Nat /\ commands <= MaxCommands /\ faults \in Nat
  BY <1>1 DEF StoreTyped
<1>3. ASSUME NEW p \in Worker,
             MakeLock(p) \/ NameOwner(p) \/ StartRecovery(p) \/ LookAgain(p) \/ RemoveStale(p) \/ EndRecovery(p)
      PROVE  TypedAndSane'
  <2>1. mutex' \in [Tier -> Mutexes]
    BY <1>1, <1>3, LocksStayTyped DEF StoreNext, StoreStep
  <2>2. recovering' \in [Tier -> BOOLEAN]
    BY <1>2, <1>3 DEF MakeLock, NameOwner, StartRecovery, LookAgain, RemoveStale, EndRecovery
  <2>3. /\ worker' \in [Worker -> Workers] /\ \A q \in Worker \ {p} : worker'[q] = worker[q]
        /\ Sane(worker'[p]) /\ UNCHANGED <<dirs, index, commands, faults, spoiled>>
    BY <1>3, ProtocolStep
  <2>4. WorkersAreSane'
    BY <1>1, <2>3, OneWorker
  <2>5. QED
    BY <1>2, <2>1, <2>2, <2>3, <2>4 DEF TypedAndSane, StoreTyped
<1>4. ASSUME NEW p \in Worker, StartCommand(p)
      PROVE  TypedAndSane'
  <2>1. /\ worker' \in [Worker -> Workers] /\ \A q \in Worker \ {p} : worker'[q] = worker[q]
        /\ Sane(worker'[p]) /\ commands < MaxCommands /\ commands' = commands + 1
        /\ UNCHANGED <<mutex, recovering, dirs, index, faults, spoiled>>
    BY <1>4, LaunchedIsSane
  <2>2. WorkersAreSane'
    BY <1>1, <2>1, OneWorker
  <2>3. commands' \in Nat /\ commands' <= MaxCommands
    BY <1>2, <2>1, StoreAssumption
  <2>4. QED
    BY <1>2, <2>1, <2>2, <2>3 DEF TypedAndSane, StoreTyped
<1>5. ASSUME NEW p \in Worker, Reads(p)
      PROVE  TypedAndSane'
  <2>1. /\ worker' \in [Worker -> Workers] /\ \A q \in Worker \ {p} : worker'[q] = worker[q]
        /\ Sane(worker'[p]) /\ UNCHANGED <<mutex, recovering, dirs, index, commands, faults>>
    BY <1>5, ReadStep
  <2>2. WorkersAreSane'
    BY <1>1, <2>1, OneWorker
  <2>3. QED
    BY <1>2, <2>1, <2>2 DEF TypedAndSane, StoreTyped
<1>6. ASSUME NEW p \in Worker, Place(p) \/ RemoveVersion(p)
      PROVE  TypedAndSane'
  <2>1. /\ worker' \in [Worker -> Workers] /\ \A q \in Worker \ {p} : worker'[q] = worker[q]
        /\ Sane(worker'[p]) /\ worker[p].ver \in Version /\ worker[p].tier \in Tier
        /\ UNCHANGED <<mutex, recovering, index, commands, spoiled>>
        /\ faults' = faults \/ faults' = faults + 1
    BY <1>6, DirectoryStep
  <2>2. PICK files \in FilePairs : dirs' = [dirs EXCEPT ![worker[p].tier] = [@ EXCEPT ![worker[p].ver] = files]]
    BY <1>6, DirectoryStep
  <2>3. dirs' \in [Tier -> [Version -> FilePairs]]
    BY <1>2, <2>1, <2>2
  <2>4. faults' \in Nat
    BY <1>2, <2>1
  <2>5. WorkersAreSane'
    BY <1>1, <2>1, OneWorker
  <2>6. QED
    BY <1>2, <2>1, <2>3, <2>4, <2>5 DEF TypedAndSane, StoreTyped
<1>7. ASSUME NEW p \in Worker, WriteIndex(p)
      PROVE  TypedAndSane'
  <2>1. /\ worker' \in [Worker -> Workers] /\ \A q \in Worker \ {p} : worker'[q] = worker[q]
        /\ Sane(worker'[p]) /\ worker[p].tier \in Tier /\ worker[p].memo \in Indexes /\ Fits(worker[p].memo)
        /\ UNCHANGED <<mutex, recovering, dirs, commands, spoiled>>
        /\ \/ index' = [index EXCEPT ![worker[p].tier] = worker[p].memo] /\ faults' = faults
           \/ index' = index /\ faults' = faults + 1
    BY <1>7, IndexStep
  <2>2. index' \in [Tier -> Indexes]
    BY <1>2, <2>1
  <2>3. \A t \in Tier : index'[t] = index[t] \/ index'[t] = worker[p].memo
    BY <1>2, <2>1
  <2>4. \A t \in Tier : Fits(index[t])
    BY <1>1 DEF WorkersAreSane
  <2>5. \A t \in Tier : Fits(index'[t])
    BY <2>1, <2>3, <2>4
  <2>6. \A q \in Worker : Sane(worker'[q])
    BY <1>1, <2>1 DEF WorkersAreSane
  <2>7. faults' \in Nat
    BY <1>2, <2>1
  <2>8. (\A q \in Worker : Sane(worker[q]))' /\ (\A t \in Tier : Fits(index[t]))'
    BY <2>5, <2>6 DEF Sane, Fits, Indexed
  <2>9. QED
    BY <1>2, <2>1, <2>2, <2>7, <2>8 DEF TypedAndSane, StoreTyped, WorkersAreSane
<1>8. ASSUME NEW p \in Worker, LeaveLock(p) \/ Killed(p)
      PROVE  TypedAndSane'
  <2>1. mutex' \in [Tier -> Mutexes]
    BY <1>1, <1>8, LocksStayTyped DEF StoreNext, StoreStep
  <2>2. /\ worker' \in [Worker -> Workers] /\ \A q \in Worker \ {p} : worker'[q] = worker[q]
        /\ Sane(worker'[p]) /\ UNCHANGED <<recovering, dirs, index, commands, spoiled>>
        /\ faults' = faults \/ faults' = faults + 1
    BY <1>8, LeaveStep, KillStep
  <2>3. faults' \in Nat
    BY <1>2, <2>2
  <2>4. WorkersAreSane'
    BY <1>1, <2>2, OneWorker
  <2>5. QED
    BY <1>2, <2>1, <2>2, <2>3, <2>4 DEF TypedAndSane, StoreTyped
<1>9. ASSUME NEW t \in Tier, Grows(t)
      PROVE  TypedAndSane'
  <2>1. mutex' \in [Tier -> Mutexes]
    BY <1>1, <1>9, LocksStayTyped DEF StoreNext
  <2>2. UNCHANGED <<worker, recovering, dirs, index, commands, faults>>
    BY <1>9 DEF Grows
  <2>3. WorkersAreSane'
    BY <1>1, <2>2 DEF WorkersAreSane
  <2>4. QED
    BY <1>2, <2>1, <2>2, <2>3 DEF TypedAndSane, StoreTyped
<1>10. CASE UNCHANGED storeVars
  BY <1>10 DEF storeVars, TypedAndSane, StoreTyped, WorkersAreSane
<1>11. QED
  BY <1>3, <1>4, <1>5, <1>6, <1>7, <1>8, <1>9, <1>10 DEF StoreNext, StoreStep

(***************************************************************************)
(* The lock of a tier.                                                     *)
(***************************************************************************)

InStore == {"read", "place", "delete", "write", "leave", "missing"}

\* The steps of a command that has the lock.
Holding == {"own"} \union InStore

\* The steps of a command that takes an old lock over.
Recoveries == {"recheck", "unlink", "recovered"}

\* A process has a pid of its own, never that of an owner of before.
PidsAreTheirs ==
  /\ \A p \in Worker : worker[p].pid <= commands
  /\ \A p, q \in Worker : worker[p].step # "off" /\ worker[q].step # "off" /\ worker[p].pid = worker[q].pid => p = q

\* A lock that is not there has no owner, and one that is there no owner to come.
OwnersAreOfBefore ==
  \A t \in Tier : /\ mutex[t].owner <= commands \/ mutex[t].owner = MaxCommands + 1
                  /\ ~mutex[t].dir => mutex[t] = Free

\* One process at a time recovers the lock of a tier.
OneRecovers ==
  /\ \A p \in Worker : worker[p].step \in Recoveries => recovering[worker[p].tier]
  /\ \A p, q \in Worker : worker[p].step \in Recoveries /\ worker[q].step \in Recoveries /\ worker[p].tier = worker[q].tier => p = q

\* Unless a lock was stolen from an owner that had not named itself: one process holds a tier's lock, which names it once it
\* is inside, and what is about to be removed as abandoned is.
LocksHold ==
  /\ \A p, q \in Worker : worker[p].step \in Holding /\ worker[q].step \in Holding /\ worker[p].tier = worker[q].tier => p = q
  /\ \A p \in Worker : worker[p].step = "own" =>
       mutex[worker[p].tier].dir /\ mutex[worker[p].tier].owner = 0 /\ ~mutex[worker[p].tier].old
  /\ \A p \in Worker : worker[p].step \in InStore => mutex[worker[p].tier].dir /\ mutex[worker[p].tier].owner = worker[p].pid
  /\ \A p \in Worker : worker[p].step = "unlink" => mutex[worker[p].tier].dir /\ IsStale(worker[p].tier)

\* Of each tier one command is in the store, and one at most takes its lock over.
LockKnows == PidsAreTheirs /\ OwnersAreOfBefore /\ OneRecovers /\ ("lock" \notin spoiled => LocksHold)

\* Nobody holds a lock at first.
LEMMA LockStart ==
  ASSUME StoreInit
  PROVE  LockKnows
<1>1. worker = [p \in Worker |-> Off] /\ commands = 0
  BY DEF StoreInit
<1>2. \A p \in Worker : worker[p].step = "off" /\ worker[p].pid = 0
  BY <1>1 DEF Off
<1>3. PICK left \in {Free, [dir |-> TRUE, owner |-> MaxCommands + 1, old |-> TRUE]} : mutex = [project |-> Free, global |-> left]
  BY DEF StoreInit
<1>4. mutex["project"] = Free /\ mutex["global"] = left
  BY <1>3
<1>5. Free.owner = 0 /\ (left = Free \/ (left.owner = MaxCommands + 1 /\ left.dir))
  BY <1>3 DEF Free
<1>6. OwnersAreOfBefore
  BY <1>1, <1>4, <1>5 DEF OwnersAreOfBefore, Tier
<1>7. PidsAreTheirs /\ OneRecovers /\ LocksHold
  BY <1>1, <1>2 DEF PidsAreTheirs, OneRecovers, LocksHold, Recoveries, Holding, InStore
<1>8. QED
  BY <1>6, <1>7 DEF LockKnows

\* The pids after a step of one process that keeps its pid or ends.
LEMMA PidsStay ==
  ASSUME PidsAreTheirs, StoreTyped, NEW p \in Worker, \A q \in Worker \ {p} : worker'[q] = worker[q], commands' = commands,
         worker'[p].step # "off" => worker[p].step # "off" /\ worker'[p].pid = worker[p].pid,
         worker'[p].step = "off" => worker'[p].pid = 0
  PROVE  PidsAreTheirs'
<1>1. worker'[p].pid <= commands
  BY DEF PidsAreTheirs, StoreTyped
<1>2. \A q \in Worker : worker'[q].pid <= commands'
  BY <1>1 DEF PidsAreTheirs
<1>3. \A q \in Worker : worker'[q].step # "off" => worker[q].step # "off" /\ worker'[q].pid = worker[q].pid
  OBVIOUS
<1>4. QED
  BY <1>2, <1>3 DEF PidsAreTheirs

\* A lock stays stale as long as it is not written and its owner's pid is not given to a new process.
LEMMA StaleStays ==
  ASSUME NEW t, mutex'[t] = mutex[t], \A q \in Worker : worker'[q].pid \in {worker[q].pid, 0} \/ worker'[q].pid # mutex[t].owner,
         IsStale(t)
  PROVE  IsStale(t)'
BY DEF IsStale, Lives

\* What is stale has nobody who holds it.
LEMMA StaleIsLeft ==
  ASSUME LocksHold, WorkersAreSane, NEW t \in Tier, IsStale(t), NEW p \in Worker, worker[p].tier = t
  PROVE  worker[p].step \notin Holding
<1>1. mutex[t].old /\ ~Lives(mutex[t].owner)
  BY DEF IsStale
<1>2. worker[p].step # "own"
  BY <1>1 DEF LocksHold
<1>3. ASSUME worker[p].step \in InStore PROVE FALSE
  <2>1. mutex[t].owner = worker[p].pid /\ worker[p].pid # 0
    BY <1>3 DEF LocksHold, WorkersAreSane, Sane, InStore
  <2>2. QED
    BY <1>1, <2>1 DEF Lives
<1>4. QED
  BY <1>2, <1>3 DEF Holding

\* A step that takes no lock and leaves the locks alone.
LEMMA LocksStay ==
  ASSUME StoreTyped, WorkersAreSane, LockKnows, NEW p \in Worker, \A q \in Worker \ {p} : worker'[q] = worker[q],
         UNCHANGED <<mutex, recovering, commands>>, spoiled \subseteq spoiled',
         worker'[p].step \notin Recoveries, worker'[p].step # "own",
         worker'[p].step # "off" => worker[p].step # "off" /\ worker'[p].pid = worker[p].pid,
         worker'[p].step = "off" => worker'[p].pid = 0,
         worker'[p].step \in InStore => worker[p].step \in InStore /\ worker'[p].tier = worker[p].tier
  PROVE  LockKnows'
<1>1. PidsAreTheirs'
  BY PidsStay DEF LockKnows
<1>2. OwnersAreOfBefore'
  BY DEF LockKnows, OwnersAreOfBefore
<1>3. OneRecovers'
  BY DEF LockKnows, OneRecovers
<1>4. ASSUME "lock" \notin spoiled'
      PROVE  LocksHold'
  <2>1. LocksHold
    BY <1>4 DEF LockKnows
  <2>2. \A q \in Worker : worker'[q].step \in Holding => worker[q].step \in Holding /\ worker'[q].tier = worker[q].tier
    BY DEF Holding
  <2>3. \A q \in Worker : worker'[q].step = "unlink" => q # p
    BY DEF Recoveries
  <2>4. \A q \in Worker : worker'[q].pid \in {worker[q].pid, 0}
    OBVIOUS
  <2>5. \A t : IsStale(t) => IsStale(t)'
    BY <2>4, StaleStays
  <2>6. \A q, r \in Worker : worker'[q].step \in Holding /\ worker'[r].step \in Holding /\ worker'[q].tier = worker'[r].tier => q = r
    BY <2>1, <2>2 DEF LocksHold
  <2>7. \A q \in Worker : worker'[q].step = "own" =>
          mutex'[worker'[q].tier].dir /\ mutex'[worker'[q].tier].owner = 0 /\ ~mutex'[worker'[q].tier].old
    BY <2>1 DEF LocksHold
  <2>8. \A q \in Worker : worker'[q].step \in InStore => mutex'[worker'[q].tier].dir /\ mutex'[worker'[q].tier].owner = worker'[q].pid
    BY <2>1 DEF LocksHold, InStore
  <2>9. \A q \in Worker : worker'[q].step = "unlink" => mutex'[worker'[q].tier].dir /\ IsStale(worker[q].tier)' /\ worker'[q].tier = worker[q].tier
    BY <2>1, <2>3, <2>5 DEF LocksHold
  <2>10. \A q \in Worker : worker'[q].step = "unlink" => IsStale(worker[q].tier)'
    BY <2>9
  <2>11. QED
    BY <2>6, <2>7, <2>8, <2>9 DEF LocksHold, IsStale
<1>5. QED
  BY <1>1, <1>2, <1>3, <1>4 DEF LockKnows

\* The lock of one tier changes, and the pids stay: what is stale in another tier is.
LEMMA StaleElsewhere ==
  ASSUME \A q \in Worker : worker'[q].pid \in {worker[q].pid, 0}, NEW s,
         \A t \in Tier \ {s} : mutex'[t] = mutex[t]
  PROVE  \A t \in Tier \ {s} : IsStale(t) => IsStale(t)'
BY StaleStays

\* Making the lock directory: it succeeds for one command only.
LEMMA MakeLockStep ==
  ASSUME TypedAndSane, LockKnows, NEW p \in Worker, MakeLock(p)
  PROVE  LockKnows'
<1> DEFINE t == worker[p].tier
<1>1. StoreTyped /\ WorkersAreSane /\ worker \in [Worker -> Workers] /\ t \in Tier /\ mutex \in [Tier -> Mutexes] /\ commands \in Nat
  BY DEF TypedAndSane, StoreTyped, Workers
<1>2. worker[p].step = "lock" /\ UNCHANGED <<recovering, commands, spoiled>>
  BY DEF MakeLock, IsAt
<1>3. CASE ~mutex[t].dir /\ mutex' = [mutex EXCEPT ![t].dir = TRUE] /\ StepsTo(p, "own")
  <2>1. mutex[t] = Free
    BY <1>1, <1>3 DEF LockKnows, OwnersAreOfBefore
  <2>2. /\ mutex'[t].dir /\ mutex'[t].owner = 0 /\ ~mutex'[t].old /\ \A s \in Tier \ {t} : mutex'[s] = mutex[s]
    BY <1>1, <1>3, <2>1 DEF Free, Mutexes
  <2>3. "own" \in WorkerSteps
    BY DEF WorkerSteps
  <2>4. /\ \A q \in Worker \ {p} : worker'[q] = worker[q]
        /\ worker'[p].step = "own" /\ worker'[p].pid = worker[p].pid /\ worker'[p].tier = t
    BY <1>1, <1>3, <2>3, Stepped
  <2>5. PidsAreTheirs'
    BY <1>1, <1>2, <2>4, PidsStay DEF LockKnows
  <2>6. OwnersAreOfBefore'
    BY <1>1, <1>2, <2>2 DEF LockKnows, OwnersAreOfBefore
  <2>7. OneRecovers'
    BY <1>2, <2>4 DEF LockKnows, OneRecovers, Recoveries
  <2>8. ASSUME LocksHold PROVE LocksHold'
    <3>1. \A q \in Worker : worker[q].tier = t => worker[q].step \notin Holding /\ worker[q].step # "unlink"
      BY <1>3, <2>8 DEF LocksHold, Holding
    <3>2. \A q \in Worker : worker'[q].step \in Holding => q = p \/ (worker'[q] = worker[q] /\ worker[q].tier # t)
      BY <2>4, <3>1
    <3>3. \A q, r \in Worker : worker'[q].step \in Holding /\ worker'[r].step \in Holding /\ worker'[q].tier = worker'[r].tier => q = r
      BY <2>4, <2>8, <3>2 DEF LocksHold
    <3>4. \A q \in Worker : worker[q].tier \in Tier
      BY <1>1 DEF Workers
    <3>5. \A q \in Worker : worker'[q].step = "own" =>
            mutex'[worker'[q].tier].dir /\ mutex'[worker'[q].tier].owner = 0 /\ ~mutex'[worker'[q].tier].old
      BY <2>2, <2>4, <2>8, <3>2, <3>4 DEF LocksHold, Holding
    <3>6. \A q \in Worker : worker'[q].step \in InStore => mutex'[worker'[q].tier].dir /\ mutex'[worker'[q].tier].owner = worker'[q].pid
      BY <2>2, <2>4, <2>8, <3>2, <3>4 DEF LocksHold, Holding, InStore
    <3>7. \A q \in Worker : worker'[q].pid \in {worker[q].pid, 0}
      BY <2>4
    <3>8. \A s \in Tier \ {t} : IsStale(s) => IsStale(s)'
      BY <2>2, <3>7, StaleElsewhere
    <3>9. \A q \in Worker : worker'[q].step = "unlink" =>
            worker'[q] = worker[q] /\ worker[q].tier # t /\ mutex'[worker[q].tier].dir /\ IsStale(worker[q].tier)'
      BY <2>2, <2>4, <2>8, <3>1, <3>4, <3>8 DEF LocksHold
    <3>10. QED
      BY <3>3, <3>5, <3>6, <3>9 DEF LocksHold, IsStale
  <2>9. QED
    BY <1>2, <2>5, <2>6, <2>7, <2>8 DEF LockKnows
<1>4. CASE mutex' = mutex /\ StepsTo(p, "recover")
  <2>1. "recover" \in WorkerSteps
    BY DEF WorkerSteps
  <2>2. /\ \A q \in Worker \ {p} : worker'[q] = worker[q]
        /\ worker'[p].step = "recover" /\ worker'[p].pid = worker[p].pid
    BY <1>1, <1>4, <2>1, Stepped
  <2>3. worker[p].step # "off" /\ worker'[p].step \notin Recoveries /\ worker'[p].step \notin InStore
    BY <1>2, <2>2 DEF Recoveries, InStore
  <2>4. QED
    BY <1>1, <1>2, <1>4, <2>2, <2>3, LocksStay
<1>5. CASE mutex' = mutex /\ Exits(p)
  <2>1. /\ \A q \in Worker \ {p} : worker'[q] = worker[q]
        /\ worker'[p].step = "off" /\ worker'[p].pid = 0
    BY <1>1, <1>5, Exited
  <2>2. worker'[p].step \notin Recoveries /\ worker'[p].step \notin InStore
    BY <2>1 DEF Recoveries, InStore
  <2>3. QED
    BY <1>1, <1>2, <1>5, <2>1, <2>2, LocksStay
<1>6. QED
  BY <1>3, <1>4, <1>5 DEF MakeLock

\* Writing the owner into it.
LEMMA NameOwnerStep ==
  ASSUME TypedAndSane, LockKnows, NEW p \in Worker, NameOwner(p)
  PROVE  LockKnows'
<1> DEFINE t == worker[p].tier
<1>1. StoreTyped /\ WorkersAreSane /\ worker \in [Worker -> Workers] /\ t \in Tier /\ mutex \in [Tier -> Mutexes] /\ commands \in Nat
  BY DEF TypedAndSane, StoreTyped, Workers
<1>2. worker[p].step = "own" /\ UNCHANGED <<recovering, commands, spoiled>>
  BY DEF NameOwner, IsAt
<1>3. CASE /\ mutex[t].dir /\ mutex[t].owner = 0
           /\ mutex' = [mutex EXCEPT ![t] = [@ EXCEPT !.owner = worker[p].pid, !.old = FALSE]] /\ StepsTo(p, "read")
  <2>1. mutex'[t] = [mutex[t] EXCEPT !.owner = worker[p].pid, !.old = FALSE] /\ mutex[t] \in Mutexes
    BY <1>1, <1>3
  <2>2. /\ mutex'[t].dir /\ mutex'[t].owner = worker[p].pid /\ \A s \in Tier \ {t} : mutex'[s] = mutex[s]
    BY <1>1, <1>3, <2>1 DEF Mutexes
  <2>3. "read" \in WorkerSteps
    BY DEF WorkerSteps
  <2>4. /\ \A q \in Worker \ {p} : worker'[q] = worker[q]
        /\ worker'[p].step = "read" /\ worker'[p].pid = worker[p].pid /\ worker'[p].tier = t
    BY <1>1, <1>3, <2>3, Stepped
  <2>5. PidsAreTheirs'
    BY <1>1, <1>2, <2>4, PidsStay DEF LockKnows
  <2>6. OwnersAreOfBefore'
    BY <1>1, <1>2, <2>2 DEF LockKnows, OwnersAreOfBefore, PidsAreTheirs
  <2>7. OneRecovers'
    BY <1>2, <2>4 DEF LockKnows, OneRecovers, Recoveries
  <2>8. ASSUME LocksHold PROVE LocksHold'
    <3>1. \A q \in Worker : worker[q].tier = t /\ worker[q].step \in Holding => q = p
      BY <1>2, <2>8 DEF LocksHold, Holding
    <3>2. \A q \in Worker : worker[q].tier = t => worker[q].step # "unlink"
      BY <1>1, <1>2, <2>8, StaleIsLeft DEF LocksHold, Holding
    <3>3. \A q \in Worker : worker'[q].step \in Holding => q = p \/ (worker'[q] = worker[q] /\ worker[q].tier # t)
      BY <2>4, <3>1
    <3>4. \A q, r \in Worker : worker'[q].step \in Holding /\ worker'[r].step \in Holding /\ worker'[q].tier = worker'[r].tier => q = r
      BY <2>4, <2>8, <3>3 DEF LocksHold
    <3>5. \A q \in Worker : worker[q].tier \in Tier
      BY <1>1 DEF Workers
    <3>6. \A q \in Worker : worker'[q].step = "own" =>
            mutex'[worker'[q].tier].dir /\ mutex'[worker'[q].tier].owner = 0 /\ ~mutex'[worker'[q].tier].old
      BY <2>2, <2>4, <2>8, <3>3, <3>5 DEF LocksHold, Holding
    <3>7. \A q \in Worker : worker'[q].step \in InStore => mutex'[worker'[q].tier].dir /\ mutex'[worker'[q].tier].owner = worker'[q].pid
      BY <2>2, <2>4, <2>8, <3>3, <3>5 DEF LocksHold, Holding, InStore
    <3>8. \A q \in Worker : worker'[q].pid \in {worker[q].pid, 0}
      BY <2>4
    <3>9. \A s \in Tier \ {t} : IsStale(s) => IsStale(s)'
      BY <2>2, <3>8, StaleElsewhere
    <3>10. \A q \in Worker : worker'[q].step = "unlink" =>
             worker'[q] = worker[q] /\ worker[q].tier # t /\ mutex'[worker[q].tier].dir /\ IsStale(worker[q].tier)'
      BY <2>2, <2>4, <2>8, <3>2, <3>5, <3>9 DEF LocksHold
    <3>11. QED
      BY <3>4, <3>6, <3>7, <3>10 DEF LocksHold, IsStale
  <2>9. QED
    BY <1>2, <2>5, <2>6, <2>7, <2>8 DEF LockKnows
<1>4. CASE /\ ~(mutex[t].dir /\ mutex[t].owner = 0) /\ mutex' = [mutex EXCEPT ![t] = Free]
           /\ Exits(p) \/ StepsTo(p, "lock")
  <2>1. mutex'[t] = Free /\ Free.owner = 0 /\ \A s \in Tier \ {t} : mutex'[s] = mutex[s]
    BY <1>1, <1>4 DEF Free
  <2>2. "lock" \in WorkerSteps
    BY DEF WorkerSteps
  <2>3. /\ \A q \in Worker \ {p} : worker'[q] = worker[q]
        /\ \/ worker'[p].step = "lock" /\ worker'[p].pid = worker[p].pid
           \/ worker'[p].step = "off" /\ worker'[p].pid = 0
    <3>1. CASE Exits(p)
      BY <1>1, <3>1, Exited
    <3>2. CASE StepsTo(p, "lock")
      BY <1>1, <2>2, <3>2, Stepped
    <3>3. QED
      BY <1>4, <3>1, <3>2
  <2>4. PidsAreTheirs'
    BY <1>1, <1>2, <2>3, PidsStay DEF LockKnows
  <2>5. OwnersAreOfBefore'
    BY <1>1, <1>2, <2>1 DEF LockKnows, OwnersAreOfBefore
  <2>6. OneRecovers'
    BY <1>2, <2>3 DEF LockKnows, OneRecovers, Recoveries
  <2>7. ~LocksHold
    BY <1>2, <1>4 DEF LocksHold
  <2>8. QED
    BY <1>2, <2>4, <2>5, <2>6, <2>7 DEF LockKnows
<1>5. QED
  BY <1>3, <1>4 DEF NameOwner

\* The steps of a recovery that leave the lock alone.
LEMMA RecoverySteps ==
  ASSUME TypedAndSane, LockKnows, NEW p \in Worker, StartRecovery(p) \/ LookAgain(p) \/ EndRecovery(p)
  PROVE  LockKnows'
<1> DEFINE t == worker[p].tier
<1>1. StoreTyped /\ WorkersAreSane /\ worker \in [Worker -> Workers] /\ t \in Tier /\ recovering \in [Tier -> BOOLEAN]
  BY DEF TypedAndSane, StoreTyped, Workers
<1>2. /\ worker[p].step \in {"recover", "recheck", "recovered"} /\ UNCHANGED <<mutex, commands, spoiled>>
      /\ \E s \in {"lock", "recheck", "unlink", "recovered"} : StepsTo(p, s)
  BY DEF StartRecovery, LookAgain, EndRecovery, IsAt
<1>3. PICK s \in {"lock", "recheck", "unlink", "recovered"} : StepsTo(p, s)
  BY <1>2
<1>4. s \in WorkerSteps
  BY DEF WorkerSteps
<1>5. /\ \A q \in Worker \ {p} : worker'[q] = worker[q]
      /\ worker'[p].step = s /\ worker'[p].pid = worker[p].pid /\ worker'[p].tier = t
  BY <1>1, <1>3, <1>4, Stepped
<1>6. PidsAreTheirs'
  BY <1>1, <1>2, <1>5, PidsStay DEF LockKnows
<1>7. OwnersAreOfBefore'
  BY <1>2 DEF LockKnows, OwnersAreOfBefore
<1>8. OneRecovers
  BY DEF LockKnows
<1>9. OneRecovers'
  <2>1. CASE StartRecovery(p) /\ recovering[t]
    <3>1. StepsTo(p, "lock") /\ recovering' = [recovering EXCEPT ![t] = TRUE]
      BY <2>1 DEF StartRecovery
    <3>2. worker'[p].step = "lock"
      BY <1>1, <1>4, <3>1, Stepped DEF WorkerSteps
    <3>3. recovering' = recovering
      BY <1>1, <2>1, <3>1
    <3>4. QED
      BY <1>5, <1>8, <3>2, <3>3 DEF OneRecovers, Recoveries
  <2>2. CASE StartRecovery(p) /\ ~recovering[t]
    <3>1. recovering' = [recovering EXCEPT ![t] = TRUE]
      BY <2>2 DEF StartRecovery
    <3>2. recovering'[t] /\ \A u \in Tier \ {t} : recovering'[u] = recovering[u]
      BY <1>1, <3>1
    <3>3. \A q \in Worker : worker[q].step \in Recoveries => worker[q].tier # t
      BY <1>8, <2>2 DEF OneRecovers
    <3>4. \A q \in Worker : worker[q].tier \in Tier
      BY <1>1 DEF Workers
    <3>5. \A q \in Worker : worker'[q].step \in Recoveries => q = p \/ (worker'[q] = worker[q] /\ worker[q].tier # t)
      BY <1>5, <3>3
    <3>6. QED
      BY <1>5, <1>8, <3>2, <3>4, <3>5 DEF OneRecovers
  <2>3. CASE LookAgain(p)
    <3>1. recovering' = recovering /\ worker[p].step \in Recoveries
      BY <2>3 DEF LookAgain, IsAt, Recoveries
    <3>2. QED
      BY <1>5, <1>8, <3>1 DEF OneRecovers
  <2>4. CASE EndRecovery(p)
    <3>1. recovering' = [recovering EXCEPT ![t] = FALSE] /\ worker[p].step \in Recoveries /\ StepsTo(p, "lock")
      BY <2>4 DEF EndRecovery, IsAt, Recoveries
    <3>2. worker'[p].step = "lock"
      BY <1>1, <1>4, <3>1, Stepped DEF WorkerSteps
    <3>3. \A u \in Tier \ {t} : recovering'[u] = recovering[u]
      BY <1>1, <3>1
    <3>4. \A q \in Worker : worker'[q].step \in Recoveries => q # p /\ worker'[q] = worker[q] /\ worker[q].tier # t
      BY <1>5, <1>8, <3>1, <3>2 DEF OneRecovers, Recoveries
    <3>5. \A q \in Worker : worker[q].tier \in Tier
      BY <1>1 DEF Workers
    <3>6. QED
      BY <1>8, <3>3, <3>4, <3>5 DEF OneRecovers
  <2>5. QED
    BY <2>1, <2>2, <2>3, <2>4
<1>10. ASSUME LocksHold PROVE LocksHold'
  <2>1. s = "unlink" => mutex[t].dir /\ IsStale(t)
    <3>1. SUFFICES ASSUME s = "unlink" PROVE mutex[t].dir /\ IsStale(t)
      OBVIOUS
    <3>2. LookAgain(p)
      <4>1. ASSUME StartRecovery(p) \/ EndRecovery(p) PROVE FALSE
        <5>1. \E r \in {"lock", "recheck"} : StepsTo(p, r)
          BY <4>1 DEF StartRecovery, EndRecovery
        <5>2. worker'[p].step \in {"lock", "recheck"}
          BY <1>1, <5>1, Stepped DEF WorkerSteps
        <5>3. QED
          BY <1>5, <3>1, <5>2
      <4>2. QED
        BY <4>1
    <3>3. CASE ~(mutex[t].dir /\ IsStale(t))
      <4>1. StepsTo(p, "recovered")
        BY <3>2, <3>3 DEF LookAgain
      <4>2. worker'[p].step = "recovered"
        BY <1>1, <4>1, Stepped DEF WorkerSteps
      <4>3. QED
        BY <1>5, <3>1, <4>2
    <3>4. QED
      BY <3>3
  <2>2. \A q \in Worker : worker'[q].pid \in {worker[q].pid, 0}
    BY <1>5
  <2>3. \A u : IsStale(u) => IsStale(u)'
    BY <1>2, <2>2, StaleStays
  <2>4. s \notin Holding /\ s # "own" /\ s \notin InStore
    BY DEF Holding, InStore
  <2>5. \A q \in Worker : worker'[q].step \in Holding => worker'[q] = worker[q]
    BY <1>5, <2>4
  <2>6. \A q, r \in Worker : worker'[q].step \in Holding /\ worker'[r].step \in Holding /\ worker'[q].tier = worker'[r].tier => q = r
    BY <1>10, <2>5 DEF LocksHold
  <2>7. \A q \in Worker : worker'[q].step = "own" =>
          mutex'[worker'[q].tier].dir /\ mutex'[worker'[q].tier].owner = 0 /\ ~mutex'[worker'[q].tier].old
    BY <1>2, <1>10, <2>5 DEF LocksHold, Holding
  <2>8. \A q \in Worker : worker'[q].step \in InStore => mutex'[worker'[q].tier].dir /\ mutex'[worker'[q].tier].owner = worker'[q].pid
    BY <1>2, <1>10, <2>5 DEF LocksHold, Holding
  <2>9. \A q \in Worker : worker'[q].step = "unlink" => worker'[q].tier = worker[q].tier /\ mutex'[worker[q].tier].dir /\ IsStale(worker[q].tier)'
    BY <1>2, <1>5, <1>10, <2>1, <2>3 DEF LocksHold
  <2>10. QED
    BY <2>6, <2>7, <2>8, <2>9 DEF LocksHold, IsStale
<1>11. QED
  BY <1>2, <1>6, <1>7, <1>9, <1>10 DEF LockKnows

\* The lock of a tier is removed: by who holds it, or by who found it abandoned.
LEMMA LockRemoved ==
  ASSUME TypedAndSane, LockKnows, NEW p \in Worker, \A q \in Worker \ {p} : worker'[q] = worker[q],
         UNCHANGED <<recovering, commands, spoiled>>, mutex' = [mutex EXCEPT ![worker[p].tier] = Free],
         worker[p].step \in InStore \union {"unlink"},
         worker'[p].step \in Recoveries => worker[p].step \in Recoveries /\ worker'[p].tier = worker[p].tier,
         worker'[p].step \notin Holding, worker'[p].step # "unlink",
         worker'[p].step # "off" => worker'[p].pid = worker[p].pid,
         worker'[p].step = "off" => worker'[p].pid = 0
  PROVE  LockKnows'
<1> DEFINE t == worker[p].tier
<1>1. StoreTyped /\ WorkersAreSane /\ worker \in [Worker -> Workers] /\ t \in Tier /\ mutex \in [Tier -> Mutexes] /\ commands \in Nat
  BY DEF TypedAndSane, StoreTyped, Workers
<1>2. mutex'[t] = Free /\ Free.owner = 0 /\ \A s \in Tier \ {t} : mutex'[s] = mutex[s]
  BY <1>1 DEF Free
<1>3. worker[p].step # "off"
  BY DEF InStore
<1>4. PidsAreTheirs'
  BY <1>1, <1>3, PidsStay DEF LockKnows
<1>5. OwnersAreOfBefore'
  BY <1>1, <1>2 DEF LockKnows, OwnersAreOfBefore
<1>6. OneRecovers'
  BY DEF LockKnows, OneRecovers
<1>7. ASSUME LocksHold PROVE LocksHold'
  <2>1. \A q \in Worker \ {p} : worker[q].tier = t => worker[q].step \notin Holding
    <3>1. CASE worker[p].step = "unlink"
      <4>1. IsStale(t)
        BY <1>7, <3>1 DEF LocksHold
      <4>2. QED
        BY <1>1, <1>7, <4>1, StaleIsLeft
    <3>2. CASE worker[p].step \in InStore
      BY <1>7, <3>2 DEF LocksHold, Holding
    <3>3. QED
      BY <3>1, <3>2
  <2>2. \A q \in Worker \ {p} : worker[q].tier = t => worker[q].step # "unlink"
    <3>1. CASE worker[p].step = "unlink"
      BY <3>1 DEF LockKnows, OneRecovers, Recoveries
    <3>2. CASE worker[p].step \in InStore
      <4>1. ~IsStale(t)
        BY <1>1, <1>7, <3>2, StaleIsLeft DEF Holding
      <4>2. QED
        BY <1>7, <4>1 DEF LocksHold
    <3>3. QED
      BY <3>1, <3>2
  <2>3. \A q \in Worker : worker'[q].step \in Holding \union {"unlink"} => worker'[q] = worker[q] /\ worker[q].tier # t
    BY <2>1, <2>2
  <2>4. \A q \in Worker : worker[q].tier \in Tier
    BY <1>1 DEF Workers
  <2>5. \A q, r \in Worker : worker'[q].step \in Holding /\ worker'[r].step \in Holding /\ worker'[q].tier = worker'[r].tier => q = r
    BY <1>7, <2>3 DEF LocksHold
  <2>6. \A q \in Worker : worker'[q].step = "own" =>
          mutex'[worker'[q].tier].dir /\ mutex'[worker'[q].tier].owner = 0 /\ ~mutex'[worker'[q].tier].old
    BY <1>2, <1>7, <2>3, <2>4 DEF LocksHold, Holding
  <2>7. \A q \in Worker : worker'[q].step \in InStore => mutex'[worker'[q].tier].dir /\ mutex'[worker'[q].tier].owner = worker'[q].pid
    BY <1>2, <1>7, <2>3, <2>4 DEF LocksHold, Holding
  <2>8. \A q \in Worker : worker'[q].pid \in {worker[q].pid, 0}
    OBVIOUS
  <2>9. \A s \in Tier \ {t} : IsStale(s) => IsStale(s)'
    BY <1>2, <2>8, StaleElsewhere
  <2>10. \A q \in Worker : worker'[q].step = "unlink" =>
           worker'[q] = worker[q] /\ worker[q].tier # t /\ mutex'[worker[q].tier].dir /\ IsStale(worker[q].tier)'
    BY <1>2, <1>7, <2>3, <2>4, <2>9 DEF LocksHold
  <2>11. QED
    BY <2>5, <2>6, <2>7, <2>10 DEF LocksHold, IsStale
<1>8. QED
  BY <1>4, <1>5, <1>6, <1>7 DEF LockKnows

\* Every step keeps what is known of the locks.
LEMMA MutexStep ==
  ASSUME TypedAndSane, LockKnows, StoreNext \/ UNCHANGED storeVars
  PROVE  LockKnows'
<1>1. /\ StoreTyped /\ WorkersAreSane /\ worker \in [Worker -> Workers] /\ mutex \in [Tier -> Mutexes] /\ commands \in Nat
      /\ \A p \in Worker : worker[p].tier \in Tier
  BY DEF TypedAndSane, StoreTyped, Workers
<1>2. ASSUME NEW p \in Worker, RemoveStale(p)
      PROVE  LockKnows'
  <2>1. /\ worker[p].step = "unlink" /\ mutex' = [mutex EXCEPT ![worker[p].tier] = Free] /\ StepsTo(p, "recovered")
        /\ UNCHANGED <<recovering, commands, spoiled>>
    BY <1>2 DEF RemoveStale, IsAt
  <2>2. "recovered" \in WorkerSteps
    BY DEF WorkerSteps
  <2>3. /\ \A q \in Worker \ {p} : worker'[q] = worker[q]
        /\ worker'[p].step = "recovered" /\ worker'[p].pid = worker[p].pid /\ worker'[p].tier = worker[p].tier
    BY <1>1, <2>1, <2>2, Stepped
  <2>4. worker[p].step \in Recoveries /\ worker'[p].step \notin Holding
    BY <2>1, <2>3 DEF Recoveries, Holding, InStore
  <2>5. QED
    BY <2>1, <2>3, <2>4, LockRemoved
<1>3. ASSUME NEW p \in Worker, LeaveLock(p)
      PROVE  LockKnows'
  <2>1. /\ \A q \in Worker \ {p} : worker'[q] = worker[q]
        /\ worker[p].step \in {"leave", "missing"} /\ Sane(worker'[p])
        /\ worker'[p].step = "off" \/ (worker'[p].step = "lock" /\ worker'[p].pid = worker[p].pid)
        /\ mutex' = [mutex EXCEPT ![worker[p].tier] = Free]
        /\ UNCHANGED <<recovering, dirs, index, commands, faults, spoiled>>
    BY <1>3, LeaveStep
  <2>2. worker'[p].step = "off" => worker'[p].pid = 0
    BY <2>1 DEF Sane, Off
  <2>3. worker[p].step \in InStore /\ worker'[p].step \notin Holding /\ worker'[p].step \notin Recoveries /\ worker'[p].step # "unlink"
    BY <2>1 DEF Recoveries, Holding, InStore
  <2>4. QED
    BY <2>1, <2>2, <2>3, LockRemoved
<1>4. ASSUME NEW p \in Worker, Killed(p)
      PROVE  LockKnows'
  <2>1. /\ \A q \in Worker \ {p} : worker'[q] = worker[q]
        /\ worker'[p].step = "off" /\ Sane(worker'[p]) /\ UNCHANGED <<recovering, commands, spoiled>>
        /\ \/ mutex' = mutex
           \/ /\ worker[p].step \in {"leave", "missing"}
              /\ mutex' = [mutex EXCEPT ![worker[p].tier] = [@ EXCEPT !.owner = 0, !.old = FALSE]]
    BY <1>4, KillStep
  <2>2. worker'[p].pid = 0 /\ worker'[p].step \notin Recoveries /\ worker'[p].step \notin InStore /\ worker'[p].step \notin Holding
    BY <2>1 DEF Sane, Off, Recoveries, Holding, InStore
  <2>3. CASE mutex' = mutex
    BY <1>1, <2>1, <2>2, <2>3, LocksStay
  <2>4. CASE /\ worker[p].step \in {"leave", "missing"}
             /\ mutex' = [mutex EXCEPT ![worker[p].tier] = [@ EXCEPT !.owner = 0, !.old = FALSE]]
    <3> DEFINE t == worker[p].tier
    <3>1. mutex[t] \in Mutexes /\ mutex'[t] = [mutex[t] EXCEPT !.owner = 0, !.old = FALSE] /\ \A s \in Tier \ {t} : mutex'[s] = mutex[s]
      BY <1>1, <2>4
    <3>2. mutex'[t].dir = mutex[t].dir /\ mutex'[t].owner = 0 /\ ~mutex'[t].old
      BY <3>1 DEF Mutexes
    <3>3. PidsAreTheirs'
      BY <1>1, <2>1, <2>2, PidsStay DEF LockKnows
    <3>4. ~mutex[t].dir => mutex'[t] = Free
      <4>1. ASSUME ~mutex[t].dir PROVE mutex'[t] = Free
        <5>1. mutex[t] = Free
          BY <1>1, <4>1 DEF LockKnows, OwnersAreOfBefore
        <5>2. mutex'[t] = [Free EXCEPT !.owner = 0, !.old = FALSE]
          BY <3>1, <5>1
        <5>3. mutex[t].owner = 0 /\ mutex[t].old = FALSE
          BY <5>1 DEF Free
        <5>4. [mutex[t] EXCEPT !.owner = 0] = mutex[t]
          BY <3>1, <5>3 DEF Mutexes
        <5>5. [mutex[t] EXCEPT !.old = FALSE] = mutex[t]
          BY <3>1, <5>3 DEF Mutexes
        <5>6. QED
          BY <3>1, <5>1, <5>4, <5>5
      <4>2. QED
        BY <4>1
    <3>5. OwnersAreOfBefore'
      <4>1. ASSUME NEW s \in Tier
            PROVE  /\ mutex'[s].owner <= commands' \/ mutex'[s].owner = MaxCommands + 1
                   /\ ~mutex'[s].dir => mutex'[s] = Free
        <5>1. CASE s = t
          BY <1>1, <2>1, <3>2, <3>4, <5>1
        <5>2. CASE s # t
          <6>1. mutex'[s] = mutex[s] /\ commands' = commands
            BY <2>1, <3>1, <5>2
          <6>2. OwnersAreOfBefore
            BY DEF LockKnows
          <6>3. QED
            BY <6>1, <6>2 DEF OwnersAreOfBefore
        <5>3. QED
          BY <5>1, <5>2
      <4>2. QED
        BY <4>1 DEF OwnersAreOfBefore
    <3>6. OneRecovers'
      BY <2>1, <2>2 DEF LockKnows, OneRecovers
    <3>7. ASSUME LocksHold PROVE LocksHold'
      <4>1. worker[p].step \in InStore /\ worker[p].step \in Holding
        BY <2>4 DEF InStore, Holding
      <4>2. ~IsStale(t)
        BY <1>1, <3>7, <4>1, StaleIsLeft
      <4>3. \A q \in Worker : worker'[q].step \in Holding \union {"unlink"} => worker'[q] = worker[q] /\ worker[q].tier # t
        BY <2>1, <2>2, <3>7, <4>1, <4>2 DEF LocksHold
      <4>4. \A q, r \in Worker : worker'[q].step \in Holding /\ worker'[r].step \in Holding /\ worker'[q].tier = worker'[r].tier => q = r
        BY <3>7, <4>3 DEF LocksHold
      <4>5. \A q \in Worker : worker'[q].step = "own" =>
              mutex'[worker'[q].tier].dir /\ mutex'[worker'[q].tier].owner = 0 /\ ~mutex'[worker'[q].tier].old
        BY <1>1, <3>1, <3>7, <4>3 DEF LocksHold, Holding
      <4>6. \A q \in Worker : worker'[q].step \in InStore => mutex'[worker'[q].tier].dir /\ mutex'[worker'[q].tier].owner = worker'[q].pid
        BY <1>1, <3>1, <3>7, <4>3 DEF LocksHold, Holding
      <4>7. \A q \in Worker : worker'[q].pid \in {worker[q].pid, 0}
        BY <2>1, <2>2
      <4>8. \A s \in Tier \ {t} : IsStale(s) => IsStale(s)'
        BY <3>1, <4>7, StaleElsewhere
      <4>9. \A q \in Worker : worker'[q].step = "unlink" =>
              worker'[q] = worker[q] /\ worker[q].tier # t /\ mutex'[worker[q].tier].dir /\ IsStale(worker[q].tier)'
        BY <1>1, <3>1, <3>7, <4>3, <4>8 DEF LocksHold
      <4>10. QED
        BY <4>4, <4>5, <4>6, <4>9 DEF LocksHold, IsStale
    <3>8. QED
      BY <2>1, <3>3, <3>5, <3>6, <3>7 DEF LockKnows
  <2>5. QED
    BY <2>1, <2>3, <2>4
<1>5. ASSUME NEW p \in Worker, StartCommand(p)
      PROVE  LockKnows'
  <2>1. /\ \A q \in Worker \ {p} : worker'[q] = worker[q]
        /\ worker'[p].step = "lock" /\ worker'[p].pid = commands + 1
        /\ worker[p] = Off /\ commands < MaxCommands /\ commands' = commands + 1
        /\ UNCHANGED <<mutex, recovering, dirs, index, faults, spoiled>>
    BY <1>5, LaunchedIsSane
  <2>2. \A q \in Worker : worker[q].pid \in Nat /\ worker[q].pid <= commands
    BY <1>1 DEF LockKnows, PidsAreTheirs, Workers
  <2>3. PidsAreTheirs'
    BY <1>1, <2>1, <2>2 DEF LockKnows, PidsAreTheirs
  <2>4. \A t \in Tier : mutex[t].owner \in Nat
    BY <1>1 DEF Mutexes
  <2>5. OwnersAreOfBefore'
    BY <1>1, <2>1, <2>4 DEF LockKnows, OwnersAreOfBefore
  <2>6. worker'[p].step \notin Holding /\ worker'[p].step \notin InStore /\ worker'[p].step \notin Recoveries
    BY <2>1 DEF Holding, InStore, Recoveries
  <2>7. OneRecovers'
    BY <2>1, <2>6 DEF LockKnows, OneRecovers
  <2>8. ASSUME LocksHold PROVE LocksHold'
    <3>1. \A t \in Tier : commands + 1 # mutex[t].owner
      BY <1>1, <2>1, <2>4, StoreAssumption DEF LockKnows, OwnersAreOfBefore
    <3>2. \A t \in Tier, q \in Worker : worker'[q].pid \in {worker[q].pid, 0} \/ worker'[q].pid # mutex[t].owner
      BY <2>1, <3>1
    <3>3. \A t \in Tier : IsStale(t) => IsStale(t)'
      BY <2>1, <3>2, StaleStays
    <3>4. \A q \in Worker : worker'[q].step \in Holding \union {"unlink"} => worker'[q] = worker[q]
      BY <2>1, <2>6
    <3>5. \A q, r \in Worker : worker'[q].step \in Holding /\ worker'[r].step \in Holding /\ worker'[q].tier = worker'[r].tier => q = r
      BY <2>8, <3>4 DEF LocksHold
    <3>6. \A q \in Worker : worker'[q].step = "own" =>
            mutex'[worker'[q].tier].dir /\ mutex'[worker'[q].tier].owner = 0 /\ ~mutex'[worker'[q].tier].old
      BY <2>1, <2>8, <3>4 DEF LocksHold, Holding
    <3>7. \A q \in Worker : worker'[q].step \in InStore => mutex'[worker'[q].tier].dir /\ mutex'[worker'[q].tier].owner = worker'[q].pid
      BY <2>1, <2>8, <3>4 DEF LocksHold, Holding
    <3>8. \A q \in Worker : worker'[q].step = "unlink" => worker'[q] = worker[q] /\ mutex'[worker[q].tier].dir /\ IsStale(worker[q].tier)'
      BY <1>1, <2>1, <2>8, <3>3, <3>4 DEF LocksHold
    <3>9. QED
      BY <3>5, <3>6, <3>7, <3>8 DEF LocksHold, IsStale
  <2>9. QED
    BY <2>1, <2>3, <2>5, <2>7, <2>8 DEF LockKnows
<1>6. ASSUME NEW p \in Worker, Reads(p) \/ Place(p) \/ RemoveVersion(p) \/ WriteIndex(p)
      PROVE  LockKnows'
  <2>1. /\ \A q \in Worker \ {p} : worker'[q] = worker[q]
        /\ UNCHANGED <<mutex, recovering, commands>> /\ spoiled \subseteq spoiled'
        /\ worker[p].step \in {"read", "place", "delete", "write"}
        /\ worker'[p].step \in {"missing", "leave", "delete", "place", "write"}
        /\ worker'[p].pid = worker[p].pid /\ worker'[p].tier = worker[p].tier
    <3>1. CASE Reads(p)
      <4>1. /\ \A q \in Worker \ {p} : worker'[q] = worker[q]
            /\ worker[p].step = "read" /\ UNCHANGED <<mutex, recovering, dirs, index, commands, faults>>
        BY <3>1, ReadStep
      <4>2. PICK ix \in IndexesRead(worker[p].tier) :
              worker'[p] = Decides(worker[p], ix) /\ spoiled \subseteq spoiled'
        BY <3>1, ReadStep
      <4>3. /\ worker[p] \in Workers /\ Sane(worker[p]) /\ index[worker[p].tier] \in Indexes /\ Fits(index[worker[p].tier])
            /\ dirs[worker[p].tier] \in [Version -> FilePairs]
        BY <1>1 DEF TypedAndSane, StoreTyped, WorkersAreSane
      <4>4. ix \in Indexes /\ Fits(ix)
        BY <1>1, <4>3, ReadIndexes
      <4>5. QED
        BY <4>1, <4>2, <4>3, <4>4, VersionDecided
    <3>2. CASE Place(p) \/ RemoveVersion(p)
      BY <3>2, DirectoryStep
    <3>3. CASE WriteIndex(p)
      BY <3>3, IndexStep
    <3>4. QED
      BY <1>6, <3>1, <3>2, <3>3
  <2>2. /\ worker[p].step \in InStore /\ worker'[p].step \notin Recoveries /\ worker'[p].step # "own" /\ worker'[p].step # "off"
        /\ worker[p].step # "off"
    BY <2>1 DEF InStore, Recoveries
  <2>3. QED
    BY <1>1, <2>1, <2>2, LocksStay
<1>7. ASSUME NEW t \in Tier, Grows(t)
      PROVE  LockKnows'
  <2>1. /\ mutex[t].dir /\ ~mutex[t].old /\ mutex' = [mutex EXCEPT ![t].old = TRUE]
        /\ UNCHANGED <<worker, recovering, dirs, index, commands, faults>> /\ spoiled \subseteq spoiled'
        /\ (\E p \in Worker : worker[p].tier = t /\ worker[p].step = "own") => "lock" \in spoiled'
    BY <1>7 DEF Grows, IsAt
  <2>2. mutex'[t].dir /\ mutex'[t].owner = mutex[t].owner /\ mutex'[t].old /\ \A s \in Tier \ {t} : mutex'[s] = mutex[s]
    BY <1>1, <2>1 DEF Mutexes
  <2>3. PidsAreTheirs' /\ OneRecovers'
    BY <2>1 DEF LockKnows, PidsAreTheirs, OneRecovers
  <2>4. OwnersAreOfBefore'
    BY <2>1, <2>2 DEF LockKnows, OwnersAreOfBefore
  <2>5. ASSUME "lock" \notin spoiled' PROVE LocksHold'
    <3>1. LocksHold
      BY <2>1, <2>5 DEF LockKnows
    <3>2. \A p \in Worker : worker[p].step = "own" => worker[p].tier # t
      BY <2>1, <2>5
    <3>3. \A s \in Tier : IsStale(s) => s # t
      BY <2>1 DEF IsStale
    <3>4. \A s \in Tier \ {t} : IsStale(s) => IsStale(s)'
      BY <2>1, <2>2, StaleStays
    <3>5. \A q \in Worker : worker[q].step = "own" =>
            mutex'[worker[q].tier].dir /\ mutex'[worker[q].tier].owner = 0 /\ ~mutex'[worker[q].tier].old
      BY <1>1, <2>2, <3>1, <3>2 DEF LocksHold
    <3>6. \A q \in Worker : worker[q].step \in InStore => mutex'[worker[q].tier].dir /\ mutex'[worker[q].tier].owner = worker[q].pid
      BY <1>1, <2>2, <3>1 DEF LocksHold
    <3>7. \A q \in Worker : worker[q].step = "unlink" => mutex'[worker[q].tier].dir /\ IsStale(worker[q].tier)'
      <4>1. ASSUME NEW q \in Worker, worker[q].step = "unlink"
            PROVE  mutex'[worker[q].tier].dir /\ IsStale(worker[q].tier)'
        <5>1. mutex[worker[q].tier].dir /\ IsStale(worker[q].tier)
          BY <3>1, <4>1 DEF LocksHold
        <5>2. worker[q].tier \in Tier \ {t}
          BY <1>1, <3>3, <5>1
        <5>3. mutex'[worker[q].tier] = mutex[worker[q].tier]
          BY <2>2, <5>2
        <5>4. IsStale(worker[q].tier)'
          <6>1. PICK u : u = worker[q].tier
            OBVIOUS
          <6>2. IsStale(u)' /\ worker' = worker
            BY <2>1, <3>4, <5>1, <5>2, <6>1
          <6>3. QED
            BY <6>1, <6>2 DEF IsStale
        <5>5. QED
          BY <5>1, <5>3, <5>4
      <4>2. QED
        BY <4>1
    <3>8. QED
      BY <2>1, <3>1, <3>5, <3>6, <3>7 DEF LocksHold, IsStale
  <2>6. QED
    BY <2>3, <2>4, <2>5 DEF LockKnows
<1>8. CASE UNCHANGED storeVars
  BY <1>8 DEF storeVars, LockKnows, PidsAreTheirs, OwnersAreOfBefore, OneRecovers, LocksHold, IsStale, Lives
<1>9. QED
  BY <1>2, <1>3, <1>4, <1>5, <1>6, <1>7, <1>8, MakeLockStep, NameOwnerStep, RecoverySteps DEF StoreNext, StoreStep

(***************************************************************************)
(* The index a command is about to write, of the index and the files.      *)
(***************************************************************************)

\* What a write of the index may change: a version leaves by its own removal, and the active one moves only if it left.
MovesTo(ix, next, w) ==
  /\ \A v \in Version : ix.has[v] # Gone /\ next.has[v] = Gone => w.verb = "remove" /\ w.ver = v
  /\ ix.active # 0 /\ next.active # ix.active => next.has[ix.active] = Gone /\ next.active = LatestVersion(next)

\* The index and the receipts name the same digests where both have one.
MatchesFiles(has, files) == \A v \in Version : has[v] # Gone /\ files[v].receipt # Gone => has[v] = files[v].receipt

\* Every version's files are sound for its digest.
AllSound(has, files) == \A v \in Version : Sound(files[v], has[v])

\* What a deciding worker w remembers, of the index ix and the files of its tier.
RecallsIndex(w, ix, files) ==
  /\ MatchesFiles(w.memo.has, files)
  /\ \A v \in Version : ix.has[v] # Gone /\ w.memo.has[v] # Gone => w.memo.has[v] = ix.has[v]
  /\ w.step = "place" => w.memo.has[w.ver] = w.bytes /\ ix.has[w.ver] = Gone /\ files[w.ver] = NoFiles
  /\ w.step = "delete" => w.memo.has[w.ver] = Gone

\* What a command is about to write moves from the index as it is.
MemosMove == \A p \in Worker : worker[p].step \in DecidingSteps => MovesTo(index[worker[p].tier], worker[p].memo, worker[p])

\* Index and receipts agree, and a command remembers the index as it is.
MemosMatch ==
  /\ \A t \in Tier : MatchesFiles(index[t].has, dirs[t])
  /\ \A p \in Worker : worker[p].step \in DecidingSteps => RecallsIndex(worker[p], index[worker[p].tier], dirs[worker[p].tier])

\* A command is about to write the index of a tier.
Writes(t) == \E p \in Worker : worker[p].step = "write" /\ worker[p].tier = t

\* Without a failure: the index is exact unless it is about to be written, and then what will be written is.
MemosAreExact ==
  /\ \A t \in Tier : ~Writes(t) => AllSound(index[t].has, dirs[t])
  /\ \A p \in Worker : worker[p].step = "write" => AllSound(worker[p].memo.has, dirs[worker[p].tier])
  /\ \A p \in Worker : worker[p].step \in {"place", "delete"} =>
       \A v \in Version \ {worker[p].ver} : worker[p].memo.has[v] = index[worker[p].tier].has[v]

\* What is known of the memories: the less, the more went wrong.
MemosKnow ==
  /\ "lock" \notin spoiled => MemosMove
  /\ spoiled = {} => MemosMatch
  /\ spoiled = {} /\ faults = 0 => MemosAreExact

\* Nothing is remembered at first.
LEMMA MemoStart ==
  ASSUME StoreInit
  PROVE  MemosKnow
<1>1. \A p \in Worker : worker[p].step = "off"
  BY DEF StoreInit, Off
<1>2. PICK has \in {Empty.has} \union {[v \in Version |-> b] : b \in Bytes} :
        /\ dirs = [project |-> [v \in Version |-> NoFiles], global |-> [v \in Version |-> [asset |-> has[v], receipt |-> has[v]]]]
        /\ index = [project |-> Empty, global |-> [active |-> IF has = Empty.has THEN 0 ELSE 1, has |-> has]]
  BY DEF StoreInit
<1>3. \A v \in Version : Empty.has[v] = Gone /\ NoFiles.receipt = Gone /\ Sound(NoFiles, Gone)
  BY DEF Empty, NoFiles, Sound
<1>4. index["project"] = Empty /\ dirs["project"] = [v \in Version |-> NoFiles]
  BY <1>2
<1>5. index["global"].has = has /\ dirs["global"] = [v \in Version |-> [asset |-> has[v], receipt |-> has[v]]]
  BY <1>2
<1>6. MatchesFiles(index["project"].has, dirs["project"]) /\ AllSound(index["project"].has, dirs["project"])
  BY <1>3, <1>4 DEF MatchesFiles, AllSound
<1>7. MatchesFiles(index["global"].has, dirs["global"]) /\ AllSound(index["global"].has, dirs["global"])
  BY <1>5 DEF MatchesFiles, AllSound, Sound
<1>8. QED
  BY <1>1, <1>6, <1>7 DEF MemosKnow, MemosMove, MemosMatch, MemosAreExact, DecidingSteps, Tier

\* A step that leaves files and indexes alone, and lets nobody decide.
LEMMA QuietStep ==
  ASSUME MemosKnow, UNCHANGED <<dirs, index>>, spoiled \subseteq spoiled', faults' = 0 => faults = 0,
         \A q \in Worker : worker'[q].step \in DecidingSteps => worker'[q] = worker[q],
         \A q \in Worker : worker[q].step = "write" /\ faults' = 0 => worker'[q] = worker[q]
  PROVE  MemosKnow'
<1>1. ASSUME "lock" \notin spoiled' PROVE MemosMove'
  BY <1>1 DEF MemosKnow, MemosMove
<1>2. ASSUME spoiled' = {} PROVE MemosMatch'
  <2>1. MemosMatch
    BY <1>2 DEF MemosKnow
  <2>2. QED
    BY <2>1 DEF MemosMatch
<1>3. ASSUME spoiled' = {}, faults' = 0 PROVE MemosAreExact'
  <2>1. MemosAreExact
    BY <1>3 DEF MemosKnow
  <2>2. \A t \in Tier : Writes(t) => Writes(t)'
    BY <1>3 DEF Writes
  <2>3. \A q \in Worker : worker'[q].step = "write" => worker'[q] = worker[q]
    BY DEF DecidingSteps
  <2>4. \A q \in Worker : worker'[q].step \in {"place", "delete"} => worker'[q] = worker[q]
    BY DEF DecidingSteps
  <2>5. QED
    BY <2>1, <2>2, <2>3, <2>4 DEF MemosAreExact
<1>4. QED
  BY <1>1, <1>2, <1>3 DEF MemosKnow

\* Whoever is inside a tier is so alone.
LEMMA InsideAlone ==
  ASSUME LockKnows, "lock" \notin spoiled, NEW p \in Worker, NEW q \in Worker, worker[p].step \in InStore, worker[q].step \in InStore,
         worker[p].tier = worker[q].tier
  PROVE  p = q
BY DEF LockKnows, LocksHold, Holding

\* A command that has read the index remembers one that matches what is there.
LEMMA MemoRead ==
  ASSUME TypedAndSane, LockKnows, MemosKnow, NEW p \in Worker, Reads(p)
  PROVE  MemosKnow'
<1> DEFINE w == worker[p]
           t == worker[p].tier
           d == worker'[p]
<1>1. /\ \A q \in Worker \ {p} : worker'[q] = worker[q]
      /\ w.step = "read" /\ UNCHANGED <<mutex, recovering, dirs, index, commands, faults>>
  BY ReadStep
<1>2. PICK ix \in IndexesRead(t) :
        /\ d = Decides(w, ix)
        /\ spoiled' = spoiled \union (IF w.verb = "merge" /\ MergeIndexes(ix, w.memo).has # ix.has THEN {"merge"} ELSE {})
  BY ReadStep
<1>3. /\ w \in Workers /\ t \in Tier /\ Sane(w) /\ index[t] \in Indexes /\ Fits(index[t]) /\ dirs[t] \in [Version -> FilePairs]
      /\ faults \in Nat
  BY DEF TypedAndSane, StoreTyped, WorkersAreSane, Workers
<1>4. /\ ix \in Indexes /\ Fits(ix)
      /\ \A v \in Version : index[t].has[v] # Gone => ix.has[v] = index[t].has[v]
      /\ \A v \in Version : index[t].has[v] = Gone => ix.has[v] = Gone \/ (Recovered(dirs[t][v]) /\ ix.has[v] = dirs[t][v].receipt)
      /\ index[t].active # 0 => ix.active = index[t].active
  BY <1>3, ReadIndexes
<1>5. /\ d \in Workers /\ Sane(d) /\ d.tier = t /\ d.verb = w.verb
      /\ d.step \in {"missing", "leave", "delete", "place", "write"}
      /\ d.step \in DecidingSteps =>
           /\ \A v \in Version : ix.has[v] # Gone /\ d.memo.has[v] = Gone => d.verb = "remove" /\ d.ver = v
           /\ ix.active # 0 /\ d.memo.active # ix.active => d.memo.has[ix.active] = Gone /\ d.memo.active = LatestVersion(d.memo)
      /\ d.step = "write" => d.memo.has = ix.has \/ (w.verb = "merge" /\ d.memo = MergeIndexes(ix, w.memo))
      /\ d.step = "place" =>
           /\ d.memo.has[d.ver] = d.bytes /\ ix.has[d.ver] = Gone /\ ~Exists(dirs[d.tier][d.ver])
           /\ \A v \in Version : v # d.ver => d.memo.has[v] = ix.has[v]
      /\ d.step = "delete" => d.memo.has[d.ver] = Gone /\ \A v \in Version : v # d.ver => d.memo.has[v] = ix.has[v]
  BY <1>1, <1>2, <1>3, <1>4, VersionDecided
<1>6. spoiled \subseteq spoiled'
  BY <1>2
<1>7. ASSUME spoiled' = {}, d.step = "write" PROVE d.memo.has = ix.has
  <2>1. ~(w.verb = "merge" /\ MergeIndexes(ix, w.memo).has # ix.has)
    BY <1>2, <1>7
  <2>2. QED
    BY <1>5, <1>7, <2>1
<1>8. \A q \in Worker \ {p} : worker[q].tier = t /\ worker[q].step \in InStore => "lock" \in spoiled
  BY <1>1, InsideAlone DEF InStore
<1>9. d.step = "place" => d.ver \in Version /\ dirs[t][d.ver] = NoFiles
  BY <1>5 DEF Sane, Exists
<1> HIDE DEF w, d
<1>10. ASSUME "lock" \notin spoiled' PROVE MemosMove'
  <2>1. MemosMove
    BY <1>6, <1>10 DEF MemosKnow
  <2>2. ASSUME d.step \in DecidingSteps PROVE MovesTo(index[t], d.memo, d)
    <3>1. \A v \in Version : index[t].has[v] # Gone /\ d.memo.has[v] = Gone => d.verb = "remove" /\ d.ver = v
      BY <1>4, <1>5, <2>2
    <3>2. index[t].active # 0 /\ d.memo.active # index[t].active =>
            d.memo.has[index[t].active] = Gone /\ d.memo.active = LatestVersion(d.memo)
      BY <1>4, <1>5, <2>2
    <3>3. QED
      BY <3>1, <3>2 DEF MovesTo
  <2>3. ASSUME NEW q \in Worker, worker'[q].step \in DecidingSteps
        PROVE  MovesTo(index[worker'[q].tier], worker'[q].memo, worker'[q])
    <3>1. CASE q = p
      BY <1>5, <2>2, <2>3, <3>1 DEF d
    <3>2. CASE q # p
      <4>1. worker'[q] = worker[q]
        BY <1>1, <3>2
      <4>2. QED
        BY <2>1, <2>3, <4>1 DEF MemosMove
    <3>3. QED
      BY <3>1, <3>2
  <2>4. QED
    BY <1>1, <2>3 DEF MemosMove, MovesTo
<1>11. ASSUME spoiled' = {} PROVE MemosMatch'
  <2>1. MemosMatch
    BY <1>6, <1>11 DEF MemosKnow
  <2>2. MatchesFiles(index[t].has, dirs[t])
    BY <1>3, <2>1 DEF MemosMatch
  <2>3. MatchesFiles(ix.has, dirs[t])
    BY <1>4, <2>2 DEF MatchesFiles
  <2>4. ASSUME d.step \in DecidingSteps PROVE RecallsIndex(d, index[t], dirs[t])
    <3>1. CASE d.step = "write"
      <4>1. d.memo.has = ix.has
        BY <1>7, <1>11, <3>1
      <4>2. MatchesFiles(d.memo.has, dirs[t])
        BY <2>3, <4>1
      <4>3. QED
        BY <1>4, <3>1, <4>1, <4>2 DEF RecallsIndex
    <3>2. CASE d.step = "place"
      <4>1. NoFiles.receipt = Gone
        BY DEF NoFiles
      <4>2. MatchesFiles(d.memo.has, dirs[t])
        BY <1>5, <1>9, <2>3, <3>2, <4>1 DEF MatchesFiles
      <4>3. \A v \in Version : index[t].has[v] # Gone /\ d.memo.has[v] # Gone => d.memo.has[v] = index[t].has[v]
        BY <1>4, <1>5, <3>2
      <4>4. index[t].has[d.ver] = Gone
        BY <1>4, <1>5, <1>9, <3>2
      <4>5. QED
        BY <1>5, <1>9, <3>2, <4>2, <4>3, <4>4 DEF RecallsIndex
    <3>3. CASE d.step = "delete"
      <4>1. MatchesFiles(d.memo.has, dirs[t])
        BY <1>5, <2>3, <3>3 DEF MatchesFiles
      <4>2. \A v \in Version : index[t].has[v] # Gone /\ d.memo.has[v] # Gone => d.memo.has[v] = index[t].has[v]
        BY <1>4, <1>5, <3>3
      <4>3. QED
        BY <1>5, <3>3, <4>1, <4>2 DEF RecallsIndex
    <3>4. QED
      BY <2>4, <3>1, <3>2, <3>3 DEF DecidingSteps
  <2>5. ASSUME NEW q \in Worker, worker'[q].step \in DecidingSteps
        PROVE  RecallsIndex(worker'[q], index[worker'[q].tier], dirs[worker'[q].tier])
    <3>1. CASE q = p
      BY <1>5, <2>4, <2>5, <3>1 DEF d
    <3>2. CASE q # p
      <4>1. worker'[q] = worker[q]
        BY <1>1, <3>2
      <4>2. QED
        BY <2>1, <2>5, <4>1 DEF MemosMatch
    <3>3. QED
      BY <3>1, <3>2
  <2>6. index' = index /\ dirs' = dirs
    BY <1>1
  <2>7. QED
    BY <2>1, <2>5, <2>6 DEF MemosMatch
<1>12. ASSUME spoiled' = {}, faults' = 0 PROVE MemosAreExact'
  <2>1. MemosAreExact /\ index' = index /\ dirs' = dirs
    BY <1>1, <1>6, <1>12 DEF MemosKnow
  <2>2. ~Writes(t)
    <3>1. ASSUME NEW q \in Worker, worker[q].step = "write", worker[q].tier = t PROVE FALSE
      <4>1. q # p
        BY <1>1, <3>1 DEF w
      <4>2. QED
        BY <1>6, <1>8, <1>12, <3>1, <4>1 DEF InStore
    <3>2. QED
      BY <3>1 DEF Writes
  <2>3. AllSound(index[t].has, dirs[t])
    BY <1>3, <2>1, <2>2 DEF MemosAreExact
  <2>4. \A v \in Version : ix.has[v] = index[t].has[v]
    <3>1. ASSUME NEW v \in Version, index[t].has[v] = Gone PROVE ~Recovered(dirs[t][v])
      <4>1. dirs[t][v] = [asset |-> Gone, receipt |-> Gone]
        BY <2>3, <3>1 DEF AllSound, Sound
      <4>2. QED
        BY <4>1 DEF Recovered
    <3>2. QED
      BY <1>4, <3>1
  <2>5. d.step = "write" => AllSound(d.memo.has, dirs[t])
    BY <1>7, <1>12, <2>3, <2>4 DEF AllSound
  <2>6. d.step \in {"place", "delete"} => \A v \in Version \ {d.ver} : d.memo.has[v] = index[t].has[v]
    BY <1>5, <2>4
  <2>7. \A s \in Tier : Writes(s) => Writes(s)'
    <3>1. ASSUME NEW s \in Tier, NEW q \in Worker, worker[q].step = "write", worker[q].tier = s PROVE Writes(s)'
      <4>1. q # p
        BY <1>1, <3>1 DEF w
      <4>2. worker'[q] = worker[q]
        BY <1>1, <4>1
      <4>3. QED
        BY <3>1, <4>2 DEF Writes
    <3>2. QED
      BY <3>1 DEF Writes
  <2>8. \A s \in Tier : ~Writes(s)' => AllSound(index[s].has, dirs[s])
    BY <2>1, <2>7 DEF MemosAreExact
  <2>9. \A q \in Worker : worker'[q].step = "write" => AllSound(worker'[q].memo.has, dirs[worker'[q].tier])
    <3>1. ASSUME NEW q \in Worker, worker'[q].step = "write" PROVE AllSound(worker'[q].memo.has, dirs[worker'[q].tier])
      <4>1. CASE q = p
        BY <1>5, <2>5, <3>1, <4>1 DEF d
      <4>2. CASE q # p
        <5>1. worker'[q] = worker[q]
          BY <1>1, <4>2
        <5>2. QED
          BY <2>1, <3>1, <5>1 DEF MemosAreExact
      <4>3. QED
        BY <4>1, <4>2
    <3>2. QED
      BY <3>1
  <2>10. \A q \in Worker : worker'[q].step \in {"place", "delete"} =>
           \A v \in Version \ {worker'[q].ver} : worker'[q].memo.has[v] = index[worker'[q].tier].has[v]
    <3>1. ASSUME NEW q \in Worker, worker'[q].step \in {"place", "delete"}
          PROVE  \A v \in Version \ {worker'[q].ver} : worker'[q].memo.has[v] = index[worker'[q].tier].has[v]
      <4>1. CASE q = p
        BY <1>5, <2>6, <3>1, <4>1 DEF d
      <4>2. CASE q # p
        <5>1. worker'[q] = worker[q]
          BY <1>1, <4>2
        <5>2. QED
          BY <2>1, <3>1, <5>1 DEF MemosAreExact
      <4>3. QED
        BY <4>1, <4>2
    <3>2. QED
      BY <3>1
  <2>11. QED
    BY <2>1, <2>8, <2>9, <2>10 DEF MemosAreExact
<1>13. QED
  BY <1>10, <1>11, <1>12 DEF MemosKnow

\* A version's directory is placed or removed as the index to be written says, or the step fails.
LEMMA MemoDirectory ==
  ASSUME TypedAndSane, LockKnows, MemosKnow, NEW p \in Worker, Place(p) \/ RemoveVersion(p)
  PROVE  MemosKnow'
<1> DEFINE w == worker[p]
           t == worker[p].tier
           d == worker'[p]
<1>1. /\ \A q \in Worker \ {p} : worker'[q] = worker[q]
      /\ w.step \in {"place", "delete"} /\ w.ver \in Version /\ t \in Tier
      /\ d.step \in {"write", "leave"}
      /\ d.memo = w.memo /\ d.tier = t /\ d.ver = w.ver /\ d.verb = w.verb
      /\ d.step = "leave" => faults' = faults + 1
      /\ UNCHANGED <<index, spoiled>>
  BY DirectoryStep
<1>2. PICK files \in FilePairs :
        /\ dirs' = [dirs EXCEPT ![t] = [@ EXCEPT ![w.ver] = files]]
        /\ d.step = "write" => files = IF w.step = "place" THEN [asset |-> w.bytes, receipt |-> w.bytes] ELSE NoFiles
        /\ d.step = "leave" => files = dirs[t][w.ver] \/ files.receipt \in {Gone, dirs[t][w.ver].receipt}
  BY DirectoryStep
<1>3. dirs \in [Tier -> [Version -> FilePairs]] /\ faults \in Nat /\ \A q \in Worker : worker[q].tier \in Tier
  BY DEF TypedAndSane, StoreTyped, Workers
<1>4. /\ dirs'[t][w.ver] = files /\ \A v \in Version \ {w.ver} : dirs'[t][v] = dirs[t][v]
      /\ \A s \in Tier \ {t} : dirs'[s] = dirs[s]
  BY <1>1, <1>2, <1>3
<1>5. "lock" \notin spoiled => \A q \in Worker \ {p} : worker[q].step \in DecidingSteps => worker[q].tier # t
  BY <1>1, InsideAlone DEF InStore, DecidingSteps
<1>6. w.step \in DecidingSteps
  BY <1>1 DEF DecidingSteps
<1> HIDE DEF d, t
<1>7. ASSUME "lock" \notin spoiled' PROVE MemosMove'
  <2>1. MemosMove
    BY <1>1, <1>7 DEF MemosKnow
  <2>2. MovesTo(index[t], w.memo, w)
    BY <1>6, <2>1 DEF MemosMove, t
  <2>3. MovesTo(index[t], d.memo, d)
    BY <1>1, <2>2 DEF MovesTo
  <2>4. ASSUME NEW q \in Worker, worker'[q].step \in DecidingSteps
        PROVE  MovesTo(index[worker'[q].tier], worker'[q].memo, worker'[q])
    <3>1. CASE q = p
      BY <1>1, <2>3, <3>1 DEF d
    <3>2. CASE q # p
      BY <1>1, <2>1, <2>4, <3>2 DEF MemosMove
    <3>3. QED
      BY <3>1, <3>2
  <2>5. QED
    BY <1>1, <2>4 DEF MemosMove, MovesTo
<1>8. ASSUME spoiled' = {} PROVE MemosMatch'
  <2>1. MemosMatch /\ "lock" \notin spoiled
    BY <1>1, <1>8 DEF MemosKnow
  <2>2. RecallsIndex(w, index[t], dirs[t]) /\ MatchesFiles(index[t].has, dirs[t])
    BY <1>1, <1>6, <2>1 DEF MemosMatch, t
  <2>3. index[t].has[w.ver] # Gone /\ files.receipt # Gone => index[t].has[w.ver] = files.receipt
    <3>1. CASE d.step = "leave"
      BY <1>1, <1>2, <2>2, <3>1 DEF MatchesFiles
    <3>2. CASE d.step = "write" /\ w.step = "place"
      BY <2>2, <3>2 DEF RecallsIndex
    <3>3. CASE d.step = "write" /\ w.step = "delete"
      BY <1>2, <3>3 DEF NoFiles
    <3>4. QED
      BY <1>1, <3>1, <3>2, <3>3
  <2>4. MatchesFiles(index[t].has, dirs'[t])
    BY <1>4, <2>2, <2>3 DEF MatchesFiles
  <2>5. ASSUME d.step = "write" PROVE RecallsIndex(d, index[t], dirs'[t])
    <3>1. files.receipt = Gone \/ w.memo.has[w.ver] = files.receipt
      BY <1>1, <1>2, <2>2, <2>5 DEF RecallsIndex, NoFiles
    <3>2. MatchesFiles(w.memo.has, dirs'[t])
      BY <1>4, <2>2, <3>1 DEF MatchesFiles, RecallsIndex
    <3>3. QED
      BY <1>1, <2>2, <2>5, <3>2 DEF RecallsIndex
  <2>6. ASSUME NEW q \in Worker, worker'[q].step \in DecidingSteps
        PROVE  RecallsIndex(worker'[q], index[worker'[q].tier], dirs'[worker'[q].tier])
    <3>1. CASE q = p
      BY <1>1, <2>5, <2>6, <3>1 DEF d, DecidingSteps
    <3>2. CASE q # p
      <4>1. worker'[q] = worker[q]
        BY <1>1, <3>2
      <4>2. dirs'[worker[q].tier] = dirs[worker[q].tier]
        BY <1>3, <1>4, <1>5, <2>1, <2>6, <3>2, <4>1
      <4>3. QED
        BY <2>1, <2>6, <4>1, <4>2 DEF MemosMatch
    <3>3. QED
      BY <3>1, <3>2
  <2>7. ASSUME NEW s \in Tier PROVE MatchesFiles(index[s].has, dirs'[s])
    BY <1>4, <2>1, <2>4 DEF MemosMatch
  <2>8. index' = index
    BY <1>1
  <2>9. QED
    BY <2>6, <2>7, <2>8 DEF MemosMatch
<1>9. ASSUME spoiled' = {}, faults' = 0 PROVE MemosAreExact'
  <2>1. d.step = "write" /\ faults = 0
    <3>1. d.step = "leave" => FALSE
      BY <1>1, <1>3, <1>9
    <3>2. d.step = "write"
      BY <1>1, <3>1
    <3>3. d.step = "write" => faults' = faults
      BY DirectoryStep DEF d
    <3>4. QED
      BY <1>9, <3>2, <3>3
  <2>2. MemosAreExact /\ MemosMatch /\ "lock" \notin spoiled
    BY <1>1, <1>9, <2>1 DEF MemosKnow
  <2>3. RecallsIndex(w, index[t], dirs[t])
    BY <1>6, <2>2 DEF MemosMatch, t
  <2>4. ~Writes(t)
    <3>1. \A q \in Worker : worker[q].step = "write" /\ worker[q].tier = t => FALSE
      BY <1>1, <1>5, <2>2 DEF DecidingSteps
    <3>2. QED
      BY <3>1 DEF Writes
  <2>5. AllSound(index[t].has, dirs[t])
    BY <1>1, <2>2, <2>4 DEF MemosAreExact
  <2>6. \A v \in Version \ {w.ver} : w.memo.has[v] = index[t].has[v]
    BY <1>1, <2>2 DEF MemosAreExact, t
  <2>7. Sound(files, w.memo.has[w.ver])
    <3>1. CASE w.step = "place"
      BY <1>2, <2>1, <2>3, <3>1 DEF RecallsIndex, Sound
    <3>2. CASE w.step = "delete"
      BY <1>2, <2>1, <2>3, <3>2 DEF RecallsIndex, Sound, NoFiles
    <3>3. QED
      BY <1>1, <3>1, <3>2
  <2>8. AllSound(w.memo.has, dirs'[t])
    BY <1>4, <2>5, <2>6, <2>7 DEF AllSound
  <2>9. \A q \in Worker : worker'[q].step = "write" => AllSound(worker'[q].memo.has, dirs'[worker'[q].tier])
    <3>1. ASSUME NEW q \in Worker, worker'[q].step = "write" PROVE AllSound(worker'[q].memo.has, dirs'[worker'[q].tier])
      <4>1. CASE q = p
        BY <1>1, <2>8, <4>1 DEF d
      <4>2. CASE q # p
        <5>1. worker'[q] = worker[q]
          BY <1>1, <4>2
        <5>2. dirs'[worker[q].tier] = dirs[worker[q].tier]
          BY <1>3, <1>4, <1>5, <2>2, <3>1, <4>2, <5>1 DEF DecidingSteps
        <5>3. QED
          BY <2>2, <3>1, <5>1, <5>2 DEF MemosAreExact
      <4>3. QED
        BY <4>1, <4>2
    <3>2. QED
      BY <3>1
  <2>10. \A q \in Worker : worker'[q].step \in {"place", "delete"} =>
           \A v \in Version \ {worker'[q].ver} : worker'[q].memo.has[v] = index[worker'[q].tier].has[v]
    <3>1. \A q \in Worker : worker'[q].step \in {"place", "delete"} => worker'[q] = worker[q]
      BY <1>1, <2>1 DEF d
    <3>2. QED
      BY <2>2, <3>1 DEF MemosAreExact
  <2>11. ASSUME NEW s \in Tier, ~Writes(s)' PROVE AllSound(index[s].has, dirs'[s])
    <3>1. s # t
      BY <1>1, <2>1, <2>11 DEF Writes, d
    <3>2. ~Writes(s)
      <4>1. \A q \in Worker : worker[q].step = "write" => worker'[q] = worker[q]
        BY <1>1
      <4>2. QED
        BY <2>11, <4>1 DEF Writes
    <3>3. QED
      BY <1>4, <2>2, <3>1, <3>2 DEF MemosAreExact
  <2>12. index' = index
    BY <1>1
  <2>13. QED
    BY <2>9, <2>10, <2>11, <2>12 DEF MemosAreExact
<1>10. QED
  BY <1>7, <1>8, <1>9 DEF MemosKnow

\* The index is replaced by what its writer remembers.
LEMMA MemoIndex ==
  ASSUME TypedAndSane, LockKnows, MemosKnow, NEW p \in Worker, WriteIndex(p)
  PROVE  MemosKnow'
<1> DEFINE w == worker[p]
           t == worker[p].tier
<1>1. /\ \A q \in Worker \ {p} : worker'[q] = worker[q]
      /\ w.step = "write" /\ worker'[p].step = "leave" /\ t \in Tier
      /\ UNCHANGED <<dirs, spoiled>>
      /\ \/ index' = [index EXCEPT ![t] = w.memo] /\ faults' = faults
         \/ index' = index /\ faults' = faults + 1
  BY IndexStep
<1>2. index \in [Tier -> Indexes] /\ faults \in Nat /\ \A q \in Worker : worker[q].tier \in Tier
  BY DEF TypedAndSane, StoreTyped, Workers
<1>3. (index'[t] = w.memo \/ (index'[t] = index[t] /\ faults' # 0)) /\ \A s \in Tier \ {t} : index'[s] = index[s]
  BY <1>1, <1>2
<1>4. "lock" \notin spoiled => \A q \in Worker \ {p} : worker[q].step \in DecidingSteps => worker[q].tier # t
  BY <1>1, InsideAlone DEF InStore, DecidingSteps
<1>5. \A q \in Worker : worker'[q].step \in DecidingSteps => q # p /\ worker'[q] = worker[q]
  BY <1>1 DEF DecidingSteps
<1>6. "lock" \notin spoiled => \A q \in Worker : worker'[q].step \in DecidingSteps => index'[worker'[q].tier] = index[worker'[q].tier]
  BY <1>2, <1>3, <1>4, <1>5
<1>7. w.step \in DecidingSteps
  BY <1>1 DEF DecidingSteps
<1>8. ASSUME "lock" \notin spoiled' PROVE MemosMove'
  <2>1. MemosMove
    BY <1>1, <1>8 DEF MemosKnow
  <2>2. QED
    BY <1>1, <1>5, <1>6, <1>8, <2>1 DEF MemosMove, MovesTo
<1>9. ASSUME spoiled' = {} PROVE MemosMatch'
  <2>1. MemosMatch /\ "lock" \notin spoiled
    BY <1>1, <1>9 DEF MemosKnow
  <2>2. MatchesFiles(w.memo.has, dirs[t])
    BY <1>7, <2>1 DEF MemosMatch, RecallsIndex
  <2>3. \A s \in Tier : MatchesFiles(index'[s].has, dirs[s])
    BY <1>3, <2>1, <2>2 DEF MemosMatch
  <2>4. \A q \in Worker : worker'[q].step \in DecidingSteps => RecallsIndex(worker'[q], index'[worker'[q].tier], dirs[worker'[q].tier])
    BY <1>5, <1>6, <2>1 DEF MemosMatch
  <2>5. dirs' = dirs
    BY <1>1
  <2>6. QED
    BY <2>3, <2>4, <2>5 DEF MemosMatch
<1>10. ASSUME spoiled' = {}, faults' = 0 PROVE MemosAreExact'
  <2>1. faults = 0 /\ index'[t] = w.memo
    BY <1>1, <1>2, <1>3, <1>10
  <2>2. MemosAreExact /\ "lock" \notin spoiled /\ dirs' = dirs
    BY <1>1, <1>10, <2>1 DEF MemosKnow
  <2>3. AllSound(w.memo.has, dirs[t])
    BY <1>1, <2>2 DEF MemosAreExact
  <2>4. ASSUME NEW s \in Tier, ~Writes(s)' PROVE AllSound(index'[s].has, dirs[s])
    <3>1. CASE s = t
      BY <2>1, <2>3, <3>1
    <3>2. CASE s # t
      <4>1. ~Writes(s)
        <5>1. \A q \in Worker : worker[q].step = "write" /\ worker[q].tier = s => worker'[q] = worker[q]
          BY <1>1, <3>2
        <5>2. QED
          BY <2>4, <5>1 DEF Writes
      <4>2. QED
        BY <1>3, <2>2, <3>2, <4>1 DEF MemosAreExact
    <3>3. QED
      BY <3>1, <3>2
  <2>5. \A q \in Worker : worker'[q].step = "write" => AllSound(worker'[q].memo.has, dirs[worker'[q].tier])
    BY <1>5, <2>2 DEF MemosAreExact, DecidingSteps
  <2>6. \A q \in Worker : worker'[q].step \in {"place", "delete"} =>
          worker'[q] = worker[q] /\ index'[worker[q].tier] = index[worker[q].tier]
    BY <1>5, <1>6, <2>2 DEF DecidingSteps
  <2>7. QED
    BY <2>2, <2>4, <2>5, <2>6 DEF MemosAreExact
<1>11. QED
  BY <1>8, <1>9, <1>10 DEF MemosKnow

\* Every step keeps what is known of the memories.
LEMMA MemoStep ==
  ASSUME TypedAndSane, LockKnows, MemosKnow, StoreNext \/ UNCHANGED storeVars
  PROVE  MemosKnow'
<1>1. faults \in Nat
  BY DEF TypedAndSane, StoreTyped
<1>2. ASSUME NEW p \in Worker,
             MakeLock(p) \/ NameOwner(p) \/ StartRecovery(p) \/ LookAgain(p) \/ RemoveStale(p) \/ EndRecovery(p)
      PROVE  MemosKnow'
  <2>1. /\ \A q \in Worker \ {p} : worker'[q] = worker[q]
        /\ worker'[p].step \notin DecidingSteps /\ worker[p].step \notin DecidingSteps
        /\ UNCHANGED <<dirs, index, commands, faults, spoiled>>
    BY <1>2, ProtocolStep
  <2>2. worker[p].step # "write"
    BY <2>1 DEF DecidingSteps
  <2>3. QED
    BY <2>1, <2>2, QuietStep
<1>3. ASSUME NEW p \in Worker, StartCommand(p)
      PROVE  MemosKnow'
  <2>1. /\ \A q \in Worker \ {p} : worker'[q] = worker[q]
        /\ worker'[p].step = "lock" /\ worker[p] = Off /\ UNCHANGED <<dirs, index, faults, spoiled>>
    BY <1>3, LaunchedIsSane
  <2>2. worker'[p].step \notin DecidingSteps /\ worker[p].step # "write"
    BY <2>1 DEF DecidingSteps, Off
  <2>3. QED
    BY <2>1, <2>2, QuietStep
<1>4. ASSUME NEW p \in Worker, LeaveLock(p)
      PROVE  MemosKnow'
  <2>1. /\ \A q \in Worker \ {p} : worker'[q] = worker[q]
        /\ worker'[p].step \in {"off", "lock"} /\ worker[p].step \in {"leave", "missing"}
        /\ UNCHANGED <<dirs, index, faults, spoiled>>
    BY <1>4, LeaveStep
  <2>2. worker'[p].step \notin DecidingSteps /\ worker[p].step # "write"
    BY <2>1 DEF DecidingSteps
  <2>3. QED
    BY <2>1, <2>2, QuietStep
<1>5. ASSUME NEW p \in Worker, Killed(p)
      PROVE  MemosKnow'
  <2>1. /\ \A q \in Worker \ {p} : worker'[q] = worker[q]
        /\ worker'[p].step = "off" /\ faults' = faults + 1 /\ UNCHANGED <<dirs, index, spoiled>>
    BY <1>5, KillStep
  <2>2. worker'[p].step \notin DecidingSteps
    BY <2>1 DEF DecidingSteps
  <2>3. faults' # 0
    BY <1>1, <2>1
  <2>4. QED
    BY <2>1, <2>2, <2>3, QuietStep
<1>6. ASSUME NEW t \in Tier, Grows(t)
      PROVE  MemosKnow'
  <2>1. UNCHANGED <<worker, dirs, index, faults>> /\ spoiled \subseteq spoiled'
    BY <1>6 DEF Grows
  <2>2. QED
    BY <2>1, QuietStep
<1>7. CASE UNCHANGED storeVars
  <2>1. UNCHANGED <<worker, dirs, index, faults, spoiled>>
    BY <1>7 DEF storeVars
  <2>2. QED
    BY <2>1, QuietStep
<1>8. QED
  BY <1>2, <1>3, <1>4, <1>5, <1>6, <1>7, MemoRead, MemoDirectory, MemoIndex DEF StoreNext, StoreStep

--------------------------------------------------------------------------------

\* The invariant of the package store.
StoreKnows == TypedAndSane /\ LockKnows /\ MemosKnow

\* The invariant holds at first.
LEMMA StoreStart ==
  ASSUME StoreInit
  PROVE  StoreKnows
BY TypedStart, LockStart, MemoStart DEF StoreKnows

\* Every step keeps it.
LEMMA StoreKeeps ==
  ASSUME StoreKnows, StoreNext \/ UNCHANGED storeVars
  PROVE  StoreKnows'
BY TypedStep, MutexStep, MemoStep DEF StoreKnows

\* Both ways to ask for a package agree: an index that a reader may get fits, so its active version is 0 or indexed.
LEMMA BothAgree ==
  ASSUME TypedAndSane
  PROVE  AnswersAgree
<1>1. ASSUME NEW mine \in IndexesRead("project"), NEW ours \in IndexesRead("global"), NEW read, read["project"] = mine, read["global"] = ours
      PROVE  GetInstalled(read) = ListInstalled(read)
  <2>1. "project" \in Tier /\ "global" \in Tier /\ Tier = {"project", "global"}
    BY DEF Tier
  <2>2. \A t \in Tier : index[t] \in Indexes /\ Fits(index[t]) /\ dirs[t] \in [Version -> FilePairs]
    BY DEF TypedAndSane, StoreTyped, WorkersAreSane
  <2>3. /\ mine \in Indexes /\ Fits(mine) /\ ours \in Indexes /\ Fits(ours)
    BY <2>1, <2>2, ReadIndexes
  <2>4. \A t \in Tier : read[t] \in Indexes /\ Fits(read[t])
    BY <1>1, <2>1, <2>3
  <2>5. ASSUME NEW t \in Tier PROVE SelectVersion(read[t], 0) = read[t].active
    <3>1. read[t].active \in Indexed(read[t]) \/ read[t].active = 0
      BY <2>4 DEF Fits
    <3>2. QED
      BY <3>1 DEF SelectVersion
  <2> DEFINE a == read["project"].active
             b == read["global"].active
             P == a # 0 /\ dirs["project"][a].asset # Gone
             G == b # 0 /\ dirs["global"][b].asset # Gone
             shown == {t \in Tier : read[t].active # 0 /\ dirs[t][read[t].active].asset # Gone}
  <2>6. GetInstalled(read) = IF P THEN <<"project", a>> ELSE IF G THEN <<"global", b>> ELSE <<>>
    <3>1. SelectVersion(read["project"], 0) = a /\ SelectVersion(read["global"], 0) = b
      BY <2>1, <2>5
    <3>2. QED
      BY <3>1 DEF GetInstalled
  <2>7. ListInstalled(read) = IF shown = {} THEN <<>> ELSE IF "project" \in shown THEN <<"project", a>> ELSE <<"global", b>>
    BY DEF ListInstalled
  <2>8. ("project" \in shown <=> P) /\ ("global" \in shown <=> G) /\ shown \subseteq Tier
    BY <2>1
  <2> HIDE DEF a, b, P, G, shown
  <2>9. CASE P
    BY <2>6, <2>7, <2>8, <2>9
  <2>10. CASE ~P /\ G
    BY <2>1, <2>6, <2>7, <2>8, <2>10
  <2>11. CASE ~P /\ ~G
    <3>1. shown = {}
      BY <2>1, <2>8, <2>11
    <3>2. QED
      BY <2>6, <2>7, <2>11, <3>1
  <2>12. QED
    BY <2>9, <2>10, <2>11
<1>2. QED
  BY <1>1 DEF AnswersAgree

\* It says what the run checks.
LEMMA StoreTells ==
  ASSUME StoreKnows
  PROVE  StoreInv
<1>1. TypedAndSane /\ LockKnows /\ MemosKnow
  BY DEF StoreKnows
<1>2. AnswersAgree
  BY <1>1, BothAgree
<1>3. ASSUME "lock" \notin spoiled PROVE OneInside
  BY <1>1, <1>3, InsideAlone DEF OneInside, InTier, InStore
<1>4. ASSUME spoiled = {} PROVE EntriesMatchReceipts
  BY <1>1, <1>4 DEF MemosKnow, MemosMatch, MatchesFiles, EntriesMatchReceipts
<1>5. ASSUME spoiled = {} PROVE IndexIsExact
  <2>1. ASSUME NEW t \in Tier
        PROVE  /\ index[t].active # 0 <=> Indexed(index[t]) # {}
               /\ index[t].active # 0 => index[t].active \in Indexed(index[t])
    <3>1. Fits(index[t])
      BY <1>1 DEF TypedAndSane, WorkersAreSane
    <3>2. 0 \notin Indexed(index[t])
      BY DEF Indexed, Version
    <3>3. QED
      BY <3>1, <3>2 DEF Fits
  <2>2. ASSUME NEW t \in Tier, faults = 0, \A p \in Worker : ~(InTier(p) /\ worker[p].tier = t)
        PROVE  \A v \in Version : Sound(dirs[t][v], index[t].has[v])
    <3>1. ~Writes(t)
      BY <2>2 DEF Writes, InTier
    <3>2. QED
      BY <1>1, <1>5, <2>2, <3>1 DEF MemosKnow, MemosAreExact, AllSound
  <2>3. QED
    BY <2>1, <2>2 DEF IndexIsExact
<1>6. QED
  BY <1>2, <1>3, <1>4, <1>5 DEF StoreInv

\* The index of a tier changes only when a writer replaces it.
LEMMA IndexMoves ==
  ASSUME TypedAndSane, StoreNext \/ UNCHANGED storeVars, index' # index
  PROVE  \E p \in Worker : WriteIndex(p)
<1>1. ASSUME NEW p \in Worker, StoreStep(p), ~WriteIndex(p) PROVE FALSE
  <2>1. CASE MakeLock(p) \/ NameOwner(p) \/ StartRecovery(p) \/ LookAgain(p) \/ RemoveStale(p) \/ EndRecovery(p)
    BY <2>1, ProtocolStep
  <2>2. CASE StartCommand(p)
    BY <2>2, LaunchedIsSane
  <2>3. CASE Reads(p)
    BY <2>3, ReadStep
  <2>4. CASE Place(p) \/ RemoveVersion(p)
    BY <2>4, DirectoryStep
  <2>5. CASE LeaveLock(p) \/ Killed(p)
    BY <2>5, LeaveStep, KillStep
  <2>6. QED
    BY <1>1, <2>1, <2>2, <2>3, <2>4, <2>5 DEF StoreStep
<1>2. ASSUME NEW t \in Tier, Grows(t) PROVE FALSE
  BY <1>2 DEF Grows
<1>3. CASE UNCHANGED storeVars
  BY <1>3 DEF storeVars
<1>4. QED
  BY <1>1, <1>2, <1>3 DEF StoreNext

\* An index moves by the removal of a version only.
LEMMA StoreMoves ==
  ASSUME StoreKnows, StoreNext \/ UNCHANGED storeVars
  PROVE  StoreMovesByRemoval
<1>1. TypedAndSane /\ LockKnows /\ MemosKnow
  BY DEF StoreKnows
<1>2. \A t \in Tier : index[t] \in Indexes /\ Fits(index[t])
  BY <1>1 DEF TypedAndSane, StoreTyped, WorkersAreSane
<1>3. SUFFICES ASSUME NEW t \in Tier, "lock" \notin spoiled
      PROVE  LET removed == {v \in Indexed(index[t]) : index'[t].has[v] = Gone} IN
             /\ \A v \in removed : \E p \in Worker : IsAt(p, "write") /\ worker[p].verb = "remove" /\ worker[p].ver = v
             /\ spoiled = {} => \A v \in Indexed(index[t]) \ removed : index'[t].has[v] = index[t].has[v]
             /\ (index[t].active \in Version /\ index'[t].active # index[t].active) =>
                  index[t].active \in removed /\ index'[t].active = LatestVersion(index'[t])
  BY DEF StoreMovesByRemoval
<1>4. CASE index'[t] = index[t]
  BY <1>4 DEF Indexed
<1>5. CASE index'[t] # index[t]
  <2>1. PICK p \in Worker : WriteIndex(p)
    BY <1>1, <1>5, IndexMoves
  <2>2. /\ worker[p].step = "write" /\ worker[p].tier \in Tier
        /\ index' = [index EXCEPT ![worker[p].tier] = worker[p].memo] \/ index' = index
    BY <1>1, <2>1, IndexStep
  <2>3. index \in [Tier -> Indexes]
    BY <1>1 DEF TypedAndSane, StoreTyped
  <2>4. t = worker[p].tier /\ index'[t] = worker[p].memo
    BY <1>5, <2>2, <2>3
  <2>5. MovesTo(index[t], worker[p].memo, worker[p])
    BY <1>1, <1>3, <2>2, <2>4 DEF MemosKnow, MemosMove, DecidingSteps
  <2>6. spoiled = {} => RecallsIndex(worker[p], index[t], dirs[t])
    BY <1>1, <2>2, <2>4 DEF MemosKnow, MemosMatch, DecidingSteps
  <2> DEFINE next == worker[p].memo
             removed == {v \in Indexed(index[t]) : next.has[v] = Gone}
  <2>7. \A v \in removed : worker[p].verb = "remove" /\ worker[p].ver = v
    BY <2>5 DEF MovesTo, Indexed
  <2>8. spoiled = {} => \A v \in Indexed(index[t]) \ removed : next.has[v] = index[t].has[v]
    BY <2>6 DEF RecallsIndex, Indexed
  <2>9. ASSUME index[t].active \in Version, next.active # index[t].active
        PROVE  index[t].active \in removed /\ next.active = LatestVersion(next)
    <3>1. index[t].active # 0
      BY <2>9 DEF Version
    <3>2. index[t].active \in Indexed(index[t])
      BY <1>2, <3>1 DEF Fits
    <3>3. QED
      BY <2>5, <2>9, <3>1, <3>2 DEF MovesTo
  <2>10. index'[t] = next
    BY <2>4
  <2> HIDE DEF next
  <2>11. QED
    BY <2>2, <2>7, <2>8, <2>9, <2>10 DEF IsAt, LatestVersion, Indexed
<1>6. QED
  BY <1>4, <1>5

--------------------------------------------------------------------------------

(***************************************************************************)
(* The specification: whichever part runs.                                 *)
(***************************************************************************)

\* What is known of the part that runs.
RetiredInv ==
  /\ part = "workspace" => WorkspaceKnows
  /\ part = "resolve" => ResolveInv
  /\ part = "store" => StoreKnows
  /\ part = "publish" => CheckKnows /\ PublisherKnows
  /\ part = "packs" => PackKnows

\* It holds at first and every step keeps it.
LEMMA RetiredInvariant == RetiredSpec => []RetiredInv
<1>1. RetiredInit => RetiredInv
  BY WorkspaceStart, ResolveStart, StoreStart, CheckStart, PublisherStart, PackStart DEF RetiredInit, RetiredInv
<1>2. RetiredInv /\ [RetiredNext]_retiredVars => RetiredInv'
  <2>1. ASSUME RetiredInv, [RetiredNext]_retiredVars
        PROVE  /\ part' = part
               /\ part = "workspace" => WorkspaceNext \/ UNCHANGED workspaceVars
               /\ part = "resolve" => ResolveNext \/ UNCHANGED resolveVars
               /\ part = "store" => StoreNext \/ UNCHANGED storeVars
               /\ part = "publish" => PublishNext \/ UNCHANGED publishVars
               /\ part = "packs" => PackNext \/ UNCHANGED packVars
    BY <2>1 DEF RetiredNext, retiredVars
  <2>2. QED
    BY <2>1, WorkspaceStep, ResolveStep, StoreKeeps, CheckStep, PublisherStep, PackStep DEF RetiredInv
<1>3. QED
  BY <1>1, <1>2, PTL DEF RetiredSpec

\* What is stored agrees with what is said of it, for any number of processes and any crashes: the workspace record
\* and its snapshots, the package directories and their index, the evidence of a publication, the report of a pack.
THEOREM StoresStayTrue == RetiredSpec => []StoresAgree
<1>1. RetiredInv => StoresAgree
  BY WorkspaceTells, StoreTells, CheckTells, PublisherTells, PackTells DEF RetiredInv, StoresAgree, PublicationsAreTrue
<1>2. QED
  BY <1>1, RetiredInvariant, PTL

\* An attachment is loaded only for a reason the task names, and a conflict of reasons asks or refuses, for every
\* set of attachments and every change of theirs between two steps of a call.
THEOREM ResolutionsStayClear == RetiredSpec => []ResolutionsAreClear
<1>1. RetiredInv => ResolutionsAreClear
  BY DEF RetiredInv, ResolutionsAreClear, ResolveInv
<1>2. QED
  BY <1>1, RetiredInvariant, PTL

\* A command changes one attachment of the record, and a version leaves the index by its removal only.
THEOREM ChangesHaveARight == RetiredSpec => StoresChangeByRight
<1>1. RetiredInv /\ [RetiredNext]_retiredVars =>
        [/\ part = "workspace" => RecordChangesByOne
         /\ part = "store" => StoreMovesByRemoval]_retiredVars
  BY RecordMoves, StoreMoves DEF RetiredInv, RetiredNext, retiredVars
<1>2. QED
  BY <1>1, RetiredInvariant, PTL DEF RetiredSpec, StoresChangeByRight

\* What a cleanup deletes was named by the plan its caller approved, and is accounted for.
THEOREM CleanupsDeleteTheApproved == RetiredSpec => CleanupsAreApproved
<1>1. RetiredInv /\ [RetiredNext]_retiredVars => [part = "workspace" => CleanupIsApproved]_retiredVars
  BY CleanupMoves DEF RetiredInv, RetiredNext, retiredVars
<1>2. QED
  BY <1>1, RetiredInvariant, PTL DEF RetiredSpec, CleanupsAreApproved

\* A choice is loaded only for the record and the candidates it was made for, or for a task that still runs.
THEOREM ChoicesStayBound == RetiredSpec => ChoicesAreBound
<1>1. RetiredInv /\ [RetiredNext]_retiredVars => [part = "resolve" => ChoiceIsBound]_retiredVars
  BY ChoiceStep DEF RetiredInv, RetiredNext, retiredVars
<1>2. QED
  BY <1>1, RetiredInvariant, PTL DEF RetiredSpec, ChoicesAreBound

================================================================================
