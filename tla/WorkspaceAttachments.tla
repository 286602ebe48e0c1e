--------------------------- MODULE WorkspaceAttachments ---------------------------
(***************************************************************************)
(* The workspace store of retired/src/workspace-attachments.js: a record   *)
(* of attachments, private snapshots of their assets, a lock file that     *)
(* names its owner's pid, and a cleanup that stages what it deletes.       *)
(* Commands are processes that may crash at every system call.             *)
(***************************************************************************)
EXTENDS Naturals, FiniteSets, SequencesExt, TLC

CONSTANTS
  Proc,       \* slots in which processes run, one command each
  Digest,     \* assets, each named by its digest
  None,
  MaxAttachments,  \* MAX_ATTACHMENTS, of a record and of a history
  MaxRuns,    \* bound on the commands started
  MaxCrashes  \* bound on the crashes

ASSUME WorkspaceAssumption == MaxAttachments \in Nat /\ MaxRuns \in Nat /\ MaxCrashes \in Nat

VARIABLES
  job,        \* job[p]: its pid, command, step and what it has in memory
  lock,       \* attachments.lock: 0, or the pid it names
  record,     \* attachments.json: None, or attachment id -> attachment
  store,      \* .kdna/assets: the snapshots
  staging,    \* .cleanup-staging-*: plan -> [written, files]
  receipt,    \* cleanup-last-receipt.json
  previews,   \* the cleanup plans users have seen
  runs, crashes,
  broken      \* a live process's lock has been taken away (history)

workspaceVars == <<job, lock, record, store, staging, receipt, previews, runs, crashes, broken>>

Recovery == <<"found", "restore", "unplan", "rmdir", "recovered">>

\* Mutant of Storing: the record is written before the snapshot is stored.
StoringLate == <<"write", "store">>

Storing == <<"store", "write">>

\* Mutant of Undo: a cleanup that fails only removes its plan.
UndoNothing == <<"unplan">>

Undo == <<"restore", "unplan", "rmdir">>

\* The commands, and the two ways a cleanup puts back what it has staged.
Program ==
  [attach |-> <<"lock", "read">> \o Storing,
   enable |-> <<"lock", "read", "verify", "write">>,
   disable |-> <<"lock", "read", "write">>,
   switch |-> <<"initial", "lock", "read", "verify">> \o Storing,
   rollback |-> <<"lock", "read", "verify", "write">>,
   remove |-> <<"lock", "read", "write">>,
   preview |-> <<"lock">> \o Recovery \o <<"plan">>,
   cleanup |-> <<"lock">> \o Recovery \o
                 <<"plan", "mkdir", "planfile", "move", "recheck", "delete", "unplan", "rmdir", "pass">>,
   unmove |-> Undo,
   undelete |-> Undo \o <<"partial">>]

Idle == [pid |-> 0, command |-> "none", at |-> 0, lk |-> "out", arg |-> None, id |-> 0, was |-> None, seen |-> None,
         plan |-> None, todo |-> {}, moved |-> {}, deleted |-> {}, restored |-> {}]

NoReceipt == [status |-> "none", plan |-> None, deleted |-> {}, restored |-> {}]

Attachment(asset, history) == [asset |-> asset, on |-> TRUE, history |-> history]

\* No workspace yet, an attachment that has been switched once, or a removed one.
WorkspaceInit ==
  /\ job = [p \in Proc |-> Idle] /\ lock = 0 /\ staging = <<>> /\ receipt = NoReceipt
  /\ \/ record = None /\ store = {}
     \/ \E new, old \in Digest : new # old /\ record = [id \in {0} |-> Attachment(new, <<old>>)] /\ store = {new, old}
     \/ record = <<>> /\ store = Digest
  /\ previews = {} /\ runs = 0 /\ crashes = 0 /\ broken = FALSE

--------------------------------------------------------------------------------

Steps(p) == Program[job[p].command]

At(p, step) == job[p].lk = "in" /\ job[p].at \in DOMAIN Steps(p) /\ Steps(p)[job[p].at] = step

Before(p, step) == job[p].pid # 0 /\ job[p].lk = "out" /\ Steps(p)[job[p].at] = step

\* What p has in memory becomes with, and p goes on to its next step.
Goes(p, with) == job' = [job EXCEPT ![p] = [with EXCEPT !.at = @ + 1]]

ProcessIsAlive(pid) == \E p \in Proc : job[p].pid = pid

\* The attachments of the record, if there is one.
Ids == IF record = None THEN {} ELSE DOMAIN record

Begins(p, command, id, arg, was) ==
  /\ job[p] = Idle /\ runs < MaxRuns /\ runs' = runs + 1
  /\ job' = [job EXCEPT ![p] = [Idle EXCEPT !.pid = runs + 1, !.at = 1, !.command = command, !.id = id, !.arg = arg, !.was = was]]
  /\ UNCHANGED <<lock, record, store, staging, receipt, previews, crashes, broken>>

\* The inspected bytes of an asset whose digest the user approved.
Prepared == Digest

StartAttach(p) == \E d \in Prepared : Begins(p, "attach", runs + 1, d, None)

StartSwitch(p) == \E id \in Ids, d \in Prepared : Begins(p, "switch", id, d, None)

StartMutation(p) ==
  \E id \in Ids, command \in {"enable", "disable", "rollback", "remove"} : Begins(p, command, id, None, None)

StartCleanup(p) ==
  /\ record # None
  /\ Begins(p, "preview", 0, None, None) \/ \E plan \in previews : Begins(p, "cleanup", 0, None, plan)

\* switchWorkspaceAttachment reads and verifies before the lock what its preview shows.
Initial(p) ==
  /\ Before(p, "initial") /\ job[p].id \in Ids
  /\ record[job[p].id].asset \in store
  /\ Goes(p, [job[p] EXCEPT !.was = record[job[p].id]])
  /\ UNCHANGED <<lock, record, store, staging, receipt, previews, runs, crashes, broken>>

\* withWorkspaceLock: the durable owner file is linked to the lock's name.
Link(p) ==
  /\ Before(p, "lock")
  /\ IF lock = 0 THEN lock' = job[p].pid /\ Goes(p, [job[p] EXCEPT !.lk = "in"])
     ELSE lock' = lock /\ job' = [job EXCEPT ![p].lk = "blocked"]
  /\ UNCHANGED <<record, store, staging, receipt, previews, runs, crashes, broken>>

\* recoverDeadLock reads the owner. A lock that has gone meanwhile is reported as held.
InspectLock(p) ==
  /\ job[p].lk = "blocked"
  /\ job' = [job EXCEPT ![p] = IF lock # 0 /\ ~ProcessIsAlive(lock) THEN [@ EXCEPT !.lk = "stealing"] ELSE Idle]
  /\ UNCHANGED <<lock, record, store, staging, receipt, previews, runs, crashes, broken>>

\* It renames whatever then has the lock's name, and tries again.
StealLock(p) ==
  /\ job[p].lk = "stealing"
  /\ lock' = 0 /\ broken' = (broken \/ (lock # 0 /\ ProcessIsAlive(lock)))
  /\ job' = [job EXCEPT ![p].lk = "out"]
  /\ UNCHANGED <<record, store, staging, receipt, previews, runs, crashes>>

\* The finally block unlinks the lock, whoever owns it.
Leave(p) ==
  /\ job[p].lk = "leaving" \/ (job[p].lk = "in" /\ job[p].at > Len(Steps(p)))
  /\ lock' = 0 /\ broken' = (broken \/ lock \notin {0, job[p].pid})
  /\ job' = [job EXCEPT ![p] = Idle]
  /\ UNCHANGED <<record, store, staging, receipt, previews, runs, crashes>>

\* A call fails: a cleanup puts back what it has staged, every command leaves its lock.
Fail(p) ==
  /\ job[p].pid # 0 /\ job[p].lk \in {"in", "out"}
  /\ LET j == job[p]
         Undoes(how) == [j EXCEPT !.command = how, !.at = 1, !.todo = j.moved, !.restored = {}]
     IN job' = [job EXCEPT ![p] =
          IF j.lk = "out" THEN Idle
          ELSE IF At(p, "move") \/ At(p, "recheck") THEN Undoes("unmove")
          ELSE IF At(p, "delete") THEN Undoes("undelete")
          ELSE [j EXCEPT !.lk = "leaving"]]
  /\ UNCHANGED <<lock, record, store, staging, receipt, previews, runs, crashes, broken>>

Crash(p) ==
  /\ crashes < MaxCrashes /\ crashes' = crashes + 1 /\ job[p].pid # 0 /\ job' = [job EXCEPT ![p] = Idle]
  /\ UNCHANGED <<lock, record, store, staging, receipt, previews, runs, broken>>

Starts(p) == StartAttach(p) \/ StartSwitch(p) \/ StartMutation(p) \/ StartCleanup(p)

Locks(p) == Starts(p) \/ Initial(p) \/ Link(p) \/ InspectLock(p) \/ StealLock(p) \/ Leave(p) \/ Fail(p) \/ Crash(p)

--------------------------------------------------------------------------------
(* The record.                                                                 *)

\* Mutant of IsBound: a switch takes the attachment as it now is.
IsBoundNever(p) == TRUE

\* A switch's attachment is still the one its preview showed.
IsBound(p) == job[p].command = "switch" => record[job[p].id] = job[p].was

Read(p) ==
  /\ At(p, "read")
  /\ IF job[p].command = "attach" THEN Cardinality(Ids) < MaxAttachments
     ELSE job[p].id \in Ids /\ IsBound(p)
  /\ job[p].command = "rollback" => record[job[p].id].history # <<>>
  /\ Goes(p, [job[p] EXCEPT !.seen = IF record = None THEN <<>> ELSE record])
  /\ UNCHANGED <<lock, record, store, staging, receipt, previews, runs, crashes, broken>>

\* verifyAssetReference: the current snapshot, and for a rollback the one it returns to.
Verify(p) ==
  /\ At(p, "verify")
  /\ LET attachment == job[p].seen[job[p].id]
     IN /\ attachment.asset \in store
        /\ job[p].command = "rollback" => Last(attachment.history) \in store
  /\ Goes(p, job[p])
  /\ UNCHANGED <<lock, record, store, staging, receipt, previews, runs, crashes, broken>>

\* storeSnapshot: a verified copy renamed to its digest, unless it is there.
Store(p) ==
  /\ At(p, "store") /\ store' = store \union {job[p].arg} /\ Goes(p, job[p])
  /\ UNCHANGED <<lock, record, staging, receipt, previews, runs, crashes, broken>>

Mutated(p) ==
  LET j == job[p]
      a == j.seen[j.id]
  IN CASE j.command = "attach" -> [id \in DOMAIN j.seen \union {j.id} |-> IF id = j.id THEN Attachment(j.arg, <<>>) ELSE j.seen[id]]
       [] j.command = "enable" -> [j.seen EXCEPT ![j.id].on = TRUE]
       [] j.command = "disable" -> [j.seen EXCEPT ![j.id].on = FALSE]
       [] j.command = "switch" -> [j.seen EXCEPT ![j.id] = [a EXCEPT !.asset = j.arg, !.history = Append(a.history, a.asset)]]
       [] j.command = "rollback" -> [j.seen EXCEPT ![j.id] = [a EXCEPT !.asset = Last(a.history), !.history = Front(a.history)]]
       [] j.command = "remove" -> [id \in DOMAIN j.seen \ {j.id} |-> j.seen[id]]

\* atomicWriteRecord: the record in memory replaces the file, if it is a valid one.
Write(p) ==
  /\ At(p, "write") /\ record' = Mutated(p) /\ Goes(p, job[p])
  /\ \A id \in DOMAIN record' : Len(record'[id].history) <= MaxAttachments
  /\ UNCHANGED <<lock, store, staging, receipt, previews, runs, crashes, broken>>

Mutates(p) == Read(p) \/ Verify(p) \/ Store(p) \/ Write(p)

--------------------------------------------------------------------------------
(* Cleanup.                                                                    *)

\* Mutant of Referenced: the versions a rollback returns to are not counted.
ReferencedNow(attachments) == {attachments[id].asset : id \in DOMAIN attachments}

\* referencedSnapshotPaths: current assets and those a rollback returns to.
Referenced(attachments) ==
  UNION {{attachments[id].asset} \union Range(attachments[id].history) : id \in DOMAIN attachments}

\* The staging directory may be gone only when the lock was not exclusive.
IsThere(p) == job[p].plan \in DOMAIN staging

Staged(p) == staging[job[p].plan]

\* recoverInterruptedCleanup: nothing staged, or one staging directory with its plan.
Found(p) ==
  /\ At(p, "found") /\ Cardinality(DOMAIN staging) < 2
  /\ IF staging = <<>> THEN job' = [job EXCEPT ![p].at = @ + Len(Recovery)]
     ELSE \E plan \in DOMAIN staging :
            staging[plan].written /\ Goes(p, [job[p] EXCEPT !.plan = plan, !.todo = plan.eligible])
  /\ UNCHANGED <<lock, record, store, staging, receipt, previews, runs, crashes, broken>>

\* restoreStagedSnapshots: what is not staged is counted as missing; a collision fails.
Restore(p) ==
  /\ At(p, "restore") /\ IsThere(p)
  /\ \/ \E d \in job[p].todo \intersect Staged(p).files :
          /\ d \notin store /\ store' = store \union {d}
          /\ staging' = [staging EXCEPT ![job[p].plan].files = @ \ {d}]
          /\ job' = [job EXCEPT ![p] = [job[p] EXCEPT !.todo = @ \ {d}, !.restored = @ \union {d}]]
     \/ /\ job[p].todo \intersect Staged(p).files = {}
        /\ Goes(p, IF job[p].command \in {"preview", "cleanup"} THEN [job[p] EXCEPT !.deleted = @ \union job[p].todo, !.todo = {}]
                   ELSE [job[p] EXCEPT !.todo = {}])
        /\ UNCHANGED <<store, staging>>
  /\ UNCHANGED <<lock, record, receipt, previews, runs, crashes, broken>>

\* removeEmptyStaging: plan.json, then the directory.
Unplan(p) ==
  /\ At(p, "unplan") /\ IsThere(p) /\ staging' = [staging EXCEPT ![job[p].plan].written = FALSE] /\ Goes(p, job[p])
  /\ UNCHANGED <<lock, record, store, receipt, previews, runs, crashes, broken>>

Rmdir(p) ==
  /\ At(p, "rmdir") /\ IsThere(p) /\ Staged(p).files = {}
  /\ staging' = [plan \in DOMAIN staging \ {job[p].plan} |-> staging[plan]] /\ Goes(p, job[p])
  /\ UNCHANGED <<lock, record, store, receipt, previews, runs, crashes, broken>>

\* The receipts that report a cleanup or its recovery.
Report(p) ==
  /\ \E status \in {"recovered", "pass", "partial"} :
       /\ At(p, status)
       /\ receipt' = [status |-> status, plan |-> job[p].plan, deleted |-> job[p].deleted, restored |-> job[p].restored]
  /\ Goes(p, [job[p] EXCEPT !.plan = None, !.deleted = {}, !.restored = {}])
  /\ UNCHANGED <<lock, record, store, staging, previews, runs, crashes, broken>>

\* Mutant of IsApproved: any plan is executed that exists when cleanup runs.
IsApprovedAny(p, plan) == TRUE

\* A cleanup executes only the plan that its user saw.
IsApproved(p, plan) == job[p].command = "cleanup" => plan = job[p].was

\* inspectCleanupCandidates and cleanupPlan; a preview ends here.
Plan(p) ==
  /\ At(p, "plan") /\ record # None
  /\ LET plan == [record |-> record, eligible |-> store \ Referenced(record)]
     IN /\ IsApproved(p, plan)
        /\ previews' = IF job[p].command = "preview" THEN previews \union {plan} ELSE previews
        /\ Goes(p, [job[p] EXCEPT !.plan = plan, !.todo = plan.eligible])
  /\ UNCHANGED <<lock, record, store, staging, receipt, runs, crashes, broken>>

MakeStaging(p) ==
  /\ At(p, "mkdir") /\ job[p].plan \notin DOMAIN staging
  /\ staging' = [plan \in DOMAIN staging \union {job[p].plan} |->
                  IF plan = job[p].plan THEN [written |-> FALSE, files |-> {}] ELSE staging[plan]]
  /\ Goes(p, job[p])
  /\ UNCHANGED <<lock, record, store, receipt, previews, runs, crashes, broken>>

WritePlan(p) ==
  /\ At(p, "planfile") /\ IsThere(p) /\ staging' = [staging EXCEPT ![job[p].plan].written = TRUE] /\ Goes(p, job[p])
  /\ UNCHANGED <<lock, record, store, receipt, previews, runs, crashes, broken>>

\* One eligible snapshot after the other is renamed into the staging directory.
Move(p) ==
  /\ At(p, "move") /\ IsThere(p)
  /\ \/ \E d \in job[p].todo \intersect store :
          /\ store' = store \ {d} /\ staging' = [staging EXCEPT ![job[p].plan].files = @ \union {d}]
          /\ job' = [job EXCEPT ![p] = [job[p] EXCEPT !.todo = @ \ {d}, !.moved = @ \union {d}]]
     \/ job[p].todo = {} /\ Goes(p, job[p]) /\ UNCHANGED <<store, staging>>
  /\ UNCHANGED <<lock, record, receipt, previews, runs, crashes, broken>>

\* The record is read once more before anything is deleted.
Recheck(p) ==
  /\ At(p, "recheck") /\ record = job[p].plan.record /\ Goes(p, [job[p] EXCEPT !.todo = job[p].moved])
  /\ UNCHANGED <<lock, record, store, staging, receipt, previews, runs, crashes, broken>>

\* Each deletion is followed by a receipt of those so far, which a crash can leave behind.
Delete(p) ==
  /\ At(p, "delete") /\ IsThere(p) /\ (job[p].deleted # {} => receipt.deleted = job[p].deleted)
  /\ \/ \E d \in job[p].todo \intersect Staged(p).files :
          /\ staging' = [staging EXCEPT ![job[p].plan].files = @ \ {d}]
          /\ job' = [job EXCEPT ![p] = [job[p] EXCEPT !.todo = @ \ {d}, !.deleted = @ \union {d}]]
     \/ job[p].todo = {} /\ Goes(p, job[p]) /\ UNCHANGED staging
  /\ UNCHANGED <<lock, record, store, receipt, previews, runs, crashes, broken>>

Progress(p) ==
  /\ At(p, "delete") /\ job[p].deleted # {} /\ receipt.deleted # job[p].deleted
  /\ receipt' = [status |-> "progress", plan |-> job[p].plan, deleted |-> job[p].deleted, restored |-> {}]
  /\ UNCHANGED <<job, lock, record, store, staging, previews, runs, crashes, broken>>

Cleans(p) ==
  \/ Found(p) \/ Restore(p) \/ Unplan(p) \/ Rmdir(p) \/ Report(p) \/ Plan(p) \/ MakeStaging(p) \/ WritePlan(p)
  \/ Move(p) \/ Recheck(p) \/ Delete(p) \/ Progress(p)

\* Nobody is running, and no command is left to start or all that is left is refused.
AllEnded == (\A p \in Proc : job[p] = Idle) /\ UNCHANGED workspaceVars

WorkspaceNext == (\E p \in Proc : Locks(p) \/ Mutates(p) \/ Cleans(p)) \/ AllEnded

WorkspaceSpec == WorkspaceInit /\ [][WorkspaceNext]_workspaceVars

WorkspaceSymmetry == Permutations(Proc) \union Permutations(Digest)

--------------------------------------------------------------------------------
(* Properties.                                                                 *)

Inside(p) == job[p].lk \in {"in", "leaving"}

\* A dead process's lock is recovered without weakening exclusive mutation.
ExclusiveMutation == \A p, q \in Proc : Inside(p) /\ Inside(q) => p = q

\* The last receipt says exactly what became of the snapshots it names, for every status.
ReceiptIsExact == [][receipt' # receipt => receipt'.deleted \intersect store' = {}]_workspaceVars

\* The snapshots that the record's attachments use, or would return to, are in the store, through
\* any interleaving of commands, cleanups that stop half-way and their recovery, as long as no
\* process has lost its lock.
ReferencedIsStored ==
  broken \/ record = None \/ \A id \in DOMAIN record : record[id].asset \in store /\ \A d \in Range(record[id].history) : d \in store

WorkspaceInv == ReferencedIsStored

\* No mutation is lost: the record changes by one attachment at a time, and one that is switched is
\* the one that its user was shown.
RecordChangesByOne ==
  ~broken /\ record' # record /\ record # None =>
    LET Has(attachments, id) == id \in DOMAIN attachments
        changed == {id \in DOMAIN record \union DOMAIN record' :
                      ~Has(record, id) \/ ~Has(record', id) \/ record[id] # record'[id]}
    IN /\ Cardinality(changed) = 1
       /\ \A id \in changed : \A p \in Proc : At(p, "write") /\ job[p].command = "switch" => record[id] = job[p].was

\* Bytes leave the disk only by a cleanup whose exact plan its user has seen and whose record still
\* is the record; a cleanup that succeeds or reports a failed deletion accounts for all that it staged.
OnDisk == store \union UNION {staging[plan].files : plan \in DOMAIN staging}

CleanupIsApproved ==
  /\ \A d \in OnDisk \ OnDisk' : \E p \in Proc : job[p].was \in previews /\ d \in job[p].was.eligible /\ (broken \/ record = job[p].was.record)
  /\ ~broken /\ receipt' # receipt /\ receipt'.status \in {"pass", "partial"} =>
       /\ receipt'.deleted \intersect store' = {} /\ receipt'.restored \subseteq store'
       /\ receipt'.deleted \union receipt'.restored = receipt'.plan.eligible

================================================================================
