---------------------------- MODULE ExclusiveOutput ----------------------------
(***************************************************************************)
(* What saving a new asset promises to its caller and to every reader of   *)
(* the output directory: an output path goes from absent to one whole      *)
(* asset in a single step, an occupied path is never overwritten by a      *)
(* save, a save that reports success has committed and a save that reports *)
(* a refusal has not.  A killed save reports nothing, committed or not.    *)
(*                                                                         *)
(* The outside world may create and delete files at the output paths, and  *)
(* a power loss may roll any path back to something it held before: the    *)
(* program does not promise directory durability.                          *)
(***************************************************************************)
CONSTANTS Saver,      \* the saving runs
          Path,       \* the output paths
          Dest,       \* the output path of each run
          Absent,     \* nothing at the path
          Foreign,    \* a file some other program put at the path
          Torn        \* an asset that is not whole: never a legal content

VARIABLES content,    \* content[p]: Absent, Foreign, Torn or the run whose asset it is
          held,       \* held[p]: what the path has held so far
          report      \* report[s]: "pending", "saved", "refused" or "lost"

vars == <<content, held, report>>

Init ==
  /\ content \in [Path -> {Absent, Foreign}]
  /\ held = [p \in Path |-> {content[p]}]
  /\ report = [s \in Saver |-> "pending"]

Put(p, c) ==
  /\ content' = [content EXCEPT ![p] = c]
  /\ held' = [held EXCEPT ![p] = @ \union {c}]

Committed(s) == s \in held[Dest[s]]

\* The whole asset appears at a free path, at most once per run.
Commit(s) ==
  /\ report[s] = "pending"
  /\ ~ Committed(s)
  /\ content[Dest[s]] = Absent
  /\ Put(Dest[s], s)
  /\ UNCHANGED report

Answer(s) ==
  /\ report[s] = "pending"
  /\ report' = [report EXCEPT ![s] = IF Committed(s) THEN "saved" ELSE "refused"]
  /\ UNCHANGED <<content, held>>

Lose(s) ==
  /\ report[s] = "pending"
  /\ report' = [report EXCEPT ![s] = "lost"]
  /\ UNCHANGED <<content, held>>

\* Another program creates a file at a free path or removes what is there.
Outside(p) ==
  /\ \/ content[p] = Absent /\ Put(p, Foreign)
     \/ content[p] # Absent /\ Put(p, Absent)
  /\ UNCHANGED report

PowerLoss ==
  /\ content' \in {c \in [Path -> Saver \union {Absent, Foreign}] :
                      \A p \in Path : c[p] \in held[p]}
  /\ \E R \in SUBSET {s \in Saver : report[s] = "pending"} :
       report' = [s \in Saver |-> IF s \in R THEN "lost" ELSE report[s]]
  /\ UNCHANGED held

Next ==
  \/ \E s \in Saver : Commit(s) \/ Answer(s) \/ Lose(s)
  \/ \E p \in Path : Outside(p)
  \/ PowerLoss

Spec == Init /\ [][Next]_vars
================================================================================
