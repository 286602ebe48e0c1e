------------------------------- MODULE PackageStore -------------------------------
(***************************************************************************)
(* The two-tier package store of retired/src/package-store.js: version     *)
(* directories with a receipt beside the asset, an index that a crash may  *)
(* leave behind them, and a lock directory whose owner is a second write.  *)
(* One package; a worker runs one command and may crash at any step.       *)
(***************************************************************************)
EXTENDS Naturals, FiniteSetsExt

CONSTANTS
  Worker,       \* slots in which processes run
  Bytes,        \* assets by digest
  Gone,         \* no such file, entry or version
  MaxCommands,  \* bound on the commands started
  MaxFaults     \* bound on the crashes and failed writes

ASSUME StoreAssumption == Gone \notin Bytes /\ MaxCommands \in Nat /\ MaxFaults \in Nat

Tier == {"project", "global"}
Version == 1..2

VARIABLES
  worker,     \* worker[p]: its pid, tier, verb, arguments, step and the index it has read
  mutex,      \* mutex[t]: the lock directory, the pid in owner.json, older than INDEX_LOCK_STALE_MS
  recovering, \* recovering[t]: the lock's .recovery directory
  dirs,       \* dirs[t][v]: the asset and the digest its receipt names
  index,      \* index[t]: the active version and the digest of each indexed version
  commands, faults,
  spoiled     \* "lock": one was stolen before its owner named itself; "merge": a stale index was written (history)

storeVars == <<worker, mutex, recovering, dirs, index, commands, faults, spoiled>>

Off == [pid |-> 0, verb |-> "none", tier |-> "global", ver |-> 0, bytes |-> Gone, step |-> "off", memo |-> Gone]

Free == [dir |-> FALSE, owner |-> 0, old |-> FALSE]

Empty == [active |-> 0, has |-> [v \in Version |-> Gone]]

NoFiles == [asset |-> Gone, receipt |-> Gone]

\* Nothing installed, or two versions in the global tier, the older one active; a global lock a dead process may have left.
StoreInit ==
  /\ worker = [p \in Worker |-> Off]
  /\ \E left \in {Free, [dir |-> TRUE, owner |-> MaxCommands + 1, old |-> TRUE]} :
       mutex = [project |-> Free, global |-> left]
  /\ recovering = [t \in Tier |-> FALSE]
  /\ \E has \in {Empty.has} \union {[v \in Version |-> b] : b \in Bytes} :
       /\ dirs = [project |-> [v \in Version |-> NoFiles], global |-> [v \in Version |-> [asset |-> has[v], receipt |-> has[v]]]]
       /\ index = [project |-> Empty, global |-> [active |-> IF has = Empty.has THEN 0 ELSE 1, has |-> has]]
  /\ commands = 0 /\ faults = 0 /\ spoiled = {}

--------------------------------------------------------------------------------
(* The index. *)

Indexed(ix) == {v \in Version : ix.has[v] # Gone}

LatestVersion(ix) == IF Indexed(ix) = {} THEN 0 ELSE Max(Indexed(ix))

NormalizeRecord(ix) == [ix EXCEPT !.active = IF @ \in Indexed(ix) THEN @ ELSE LatestVersion(ix)]

SelectVersion(ix, v) ==
  LET wanted == IF v = 0 THEN ix.active ELSE v IN IF wanted \in Indexed(ix) THEN wanted ELSE 0

Exists(files) == files # NoFiles

\* installedIntegrity: the bytes and the receipt are those of the entry.
Sound(files, digest) == files = [asset |-> digest, receipt |-> digest]

\* recoverReceiptEntry
Recovered(files) == files.receipt # Gone /\ files.asset = files.receipt

\* recoverOrphanVersions: what a reader may get, the order of the directories being the file system's.
IndexesRead(t) ==
  LET orphans == {v \in Version : index[t].has[v] = Gone /\ Recovered(dirs[t][v])}
      has == [v \in Version |-> IF v \in orphans THEN dirs[t][v].receipt ELSE index[t].has[v]]
  IN IF index[t].active # 0 \/ orphans = {} THEN {[index[t] EXCEPT !.has = has]}
     ELSE {[active |-> v, has |-> has] : v \in orphans}

\* Mutant of MergeIndexes: the caller's active version wins.
MergeIndexesTheirs(current, incoming) ==
  NormalizeRecord([active |-> IF incoming.active # 0 THEN incoming.active ELSE current.active,
                   has |-> [v \in Version |-> IF incoming.has[v] # Gone THEN incoming.has[v] ELSE current.has[v]]])

MergeIndexes(current, incoming) ==
  NormalizeRecord([active |-> IF current.active # 0 THEN current.active ELSE incoming.active,
                   has |-> [v \in Version |-> IF incoming.has[v] # Gone THEN incoming.has[v] ELSE current.has[v]]])

\* getInstalled of the active version, given the two indexes it reads: the tier and version that answer.
GetInstalled(read) ==
  LET found(t) == LET w == SelectVersion(read[t], 0) IN IF w # 0 /\ dirs[t][w].asset # Gone THEN w ELSE 0
  IN IF found("project") # 0 THEN <<"project", found("project")>>
     ELSE IF found("global") # 0 THEN <<"global", found("global")>> ELSE <<>>

\* listInstalled: the project's map over the global one.
ListInstalled(read) ==
  LET shown == {t \in Tier : read[t].active # 0 /\ dirs[t][read[t].active].asset # Gone}
      tier == IF "project" \in shown THEN "project" ELSE "global"
  IN IF shown = {} THEN <<>> ELSE <<tier, read[tier].active>>

--------------------------------------------------------------------------------
(* withIndexLock *)

Lives(pid) == pid # 0 /\ \E p \in Worker : worker[p].pid = pid

StepsTo(p, step) == worker' = [worker EXCEPT ![p].step = step]

IsAt(p, step) == worker[p].step = step

Exits(p) == worker' = [worker EXCEPT ![p] = Off]

\* Mutant of IsStale: any lock old enough is taken to be abandoned.
IsStaleByAge(t) == mutex[t].old

IsStale(t) == mutex[t].old /\ ~Lives(mutex[t].owner)

MakeLock(p) ==
  LET t == worker[p].tier IN
  /\ IsAt(p, "lock")
  /\ \/ ~mutex[t].dir /\ mutex' = [mutex EXCEPT ![t].dir = TRUE] /\ StepsTo(p, "own")
     \/ mutex[t].dir /\ IsStale(t) /\ mutex' = mutex /\ StepsTo(p, "recover")
     \/ mutex[t].dir /\ ~IsStale(t) /\ mutex' = mutex /\ Exits(p)   \* INDEX_LOCK_TIMEOUT_MS
  /\ UNCHANGED <<recovering, dirs, index, commands, faults, spoiled>>

\* The owner record is written with wx; on a failure the directory is removed, whoever it belongs to.
NameOwner(p) ==
  LET t == worker[p].tier IN
  /\ IsAt(p, "own")
  /\ IF mutex[t].dir /\ mutex[t].owner = 0
     THEN mutex' = [mutex EXCEPT ![t] = [@ EXCEPT !.owner = worker[p].pid, !.old = FALSE]] /\ StepsTo(p, "read")
     ELSE /\ mutex' = [mutex EXCEPT ![t] = Free]
          /\ IF mutex[t].dir THEN StepsTo(p, "lock") ELSE Exits(p)
  /\ UNCHANGED <<recovering, dirs, index, commands, faults, spoiled>>

Grows(t) ==
  /\ mutex[t].dir /\ ~mutex[t].old
  /\ mutex' = [mutex EXCEPT ![t].old = TRUE]
  /\ spoiled' = spoiled \union (IF \E p \in Worker : worker[p].tier = t /\ IsAt(p, "own") THEN {"lock"} ELSE {})
  /\ UNCHANGED <<worker, recovering, dirs, index, commands, faults>>

StartRecovery(p) ==
  LET t == worker[p].tier IN
  /\ IsAt(p, "recover")
  /\ recovering' = [recovering EXCEPT ![t] = TRUE]
  /\ StepsTo(p, IF recovering[t] THEN "lock" ELSE "recheck")
  /\ UNCHANGED <<mutex, dirs, index, commands, faults, spoiled>>

\* Mutant of LookAgain: the lock found stale before is removed without a second look.
LookAgainNot(p) ==
  /\ IsAt(p, "recheck") /\ StepsTo(p, "unlink")
  /\ UNCHANGED <<mutex, recovering, dirs, index, commands, faults, spoiled>>

LookAgain(p) ==
  LET t == worker[p].tier IN
  /\ IsAt(p, "recheck") /\ StepsTo(p, IF mutex[t].dir /\ IsStale(t) THEN "unlink" ELSE "recovered")
  /\ UNCHANGED <<mutex, recovering, dirs, index, commands, faults, spoiled>>

RemoveStale(p) ==
  /\ IsAt(p, "unlink") /\ mutex' = [mutex EXCEPT ![worker[p].tier] = Free] /\ StepsTo(p, "recovered")
  /\ UNCHANGED <<recovering, dirs, index, commands, faults, spoiled>>

EndRecovery(p) ==
  /\ IsAt(p, "recovered") /\ recovering' = [recovering EXCEPT ![worker[p].tier] = FALSE] /\ StepsTo(p, "lock")
  /\ UNCHANGED <<mutex, dirs, index, commands, faults, spoiled>>

--------------------------------------------------------------------------------
(* The commands. removeInstalled tries the project tier first. *)

Launches(p, verb, tier, ver, bytes, memo) ==
  /\ worker[p] = Off /\ commands < MaxCommands /\ commands' = commands + 1
  /\ worker' = [worker EXCEPT ![p] = [pid |-> commands + 1, verb |-> verb, tier |-> tier, ver |-> ver, bytes |-> bytes,
                                      step |-> "lock", memo |-> memo]]
  /\ UNCHANGED <<mutex, recovering, dirs, index, faults, spoiled>>

\* writeIndex is given what readIndex returned at some time before.
StartCommand(p) ==
  \/ \E t \in Tier, v \in Version, b \in Bytes : Launches(p, "install", t, v, b, Gone)
  \/ \E v \in {0} \union Version : Launches(p, "remove", "project", v, Gone, Gone)
  \/ \E ix \in IndexesRead("global") : Launches(p, "merge", "global", 0, Gone, ix)

\* Mutant of Added: the version installed last becomes the active one.
AddedActive(ix, v, digest) == [active |-> v, has |-> [ix.has EXCEPT ![v] = digest]]

\* A package that has an active version keeps it.
Added(ix, v, digest) == [active |-> IF ix.active # 0 THEN ix.active ELSE v, has |-> [ix.has EXCEPT ![v] = digest]]

\* Mutant of Without: the active version stays named when it is removed.
WithoutMove(ix, v) == [ix EXCEPT !.has = [@ EXCEPT ![v] = Gone]]

Without(ix, v) == NormalizeRecord([ix EXCEPT !.has = [@ EXCEPT ![v] = Gone]])

\* The step a command takes once it has read the index ix: refused, or going on with the index it will write.
Decides(w, ix) ==
  LET files == dirs[w.tier][w.ver]
      target == SelectVersion(ix, w.ver)
  IN CASE w.verb = "merge" -> [w EXCEPT !.step = "write", !.memo = MergeIndexes(ix, w.memo)]
       [] w.verb = "remove" -> IF target = 0 THEN [w EXCEPT !.step = "missing"]
                               ELSE [w EXCEPT !.step = "delete", !.ver = target, !.memo = Without(ix, target)]
       [] w.verb = "install" /\ ix.has[w.ver] # Gone ->
            [w EXCEPT !.step = IF ix.has[w.ver] = w.bytes /\ Sound(files, w.bytes) THEN "write" ELSE "leave", !.memo = ix]
       [] w.verb = "install" /\ ix.has[w.ver] = Gone ->
            [w EXCEPT !.step = IF Exists(files) THEN "leave" ELSE "place", !.memo = Added(ix, w.ver, w.bytes)]

Reads(p) ==
  /\ IsAt(p, "read")
  /\ \E ix \in IndexesRead(worker[p].tier) :
       /\ worker' = [worker EXCEPT ![p] = Decides(@, ix)]
       /\ spoiled' = spoiled \union (IF worker[p].verb = "merge" /\ MergeIndexes(ix, worker[p].memo).has # ix.has THEN {"merge"} ELSE {})
  /\ UNCHANGED <<mutex, recovering, dirs, index, commands, faults>>

\* The staged copy is verified, its receipt written, and the directory renamed; or a step fails and nothing stays.
Place(p) ==
  LET w == worker[p] IN
  /\ IsAt(p, "place")
  /\ \/ /\ dirs' = [dirs EXCEPT ![w.tier] = [@ EXCEPT ![w.ver] = [asset |-> w.bytes, receipt |-> w.bytes]]]
        /\ StepsTo(p, "write") /\ faults' = faults
     \/ faults < MaxFaults /\ faults' = faults + 1 /\ StepsTo(p, "leave") /\ dirs' = dirs
  /\ UNCHANGED <<mutex, recovering, index, commands, spoiled>>

\* rmSync of the version's directory; it may stop half-way.
RemoveVersion(p) ==
  LET w == worker[p]
      set(files) == dirs' = [dirs EXCEPT ![w.tier] = [@ EXCEPT ![w.ver] = files]] IN
  /\ IsAt(p, "delete")
  /\ \/ set(NoFiles) /\ StepsTo(p, "write") /\ faults' = faults
     \/ /\ faults < MaxFaults /\ faults' = faults + 1 /\ StepsTo(p, "leave")
        /\ set([dirs[w.tier][w.ver] EXCEPT !.asset = Gone]) \/ set([dirs[w.tier][w.ver] EXCEPT !.receipt = Gone])
  /\ UNCHANGED <<mutex, recovering, index, commands, spoiled>>

\* writeJsonFile replaces the index or leaves it.
WriteIndex(p) ==
  LET w == worker[p] IN
  /\ IsAt(p, "write") /\ StepsTo(p, "leave")
  /\ \/ index' = [index EXCEPT ![w.tier] = w.memo] /\ faults' = faults
     \/ faults < MaxFaults /\ faults' = faults + 1 /\ index' = index
  /\ UNCHANGED <<mutex, recovering, dirs, commands, spoiled>>

\* The lock directory at the lock's name is removed; a removal that found nothing goes on to the global tier.
LeaveLock(p) ==
  LET w == worker[p] IN
  /\ w.step \in {"leave", "missing"}
  /\ mutex' = [mutex EXCEPT ![w.tier] = Free]
  /\ IF w.step = "missing" /\ w.tier = "project"
     THEN worker' = [worker EXCEPT ![p] = [@ EXCEPT !.tier = "global", !.step = "lock"]] ELSE Exits(p)
  /\ UNCHANGED <<recovering, dirs, index, commands, faults, spoiled>>

\* The process is killed; at its last step the owner's name may already be gone.
Killed(p) ==
  /\ worker[p] # Off /\ faults < MaxFaults /\ faults' = faults + 1 /\ Exits(p)
  /\ \/ mutex' = mutex
     \/ worker[p].step \in {"leave", "missing"} /\ mutex' = [mutex EXCEPT ![worker[p].tier] = [@ EXCEPT !.owner = 0, !.old = FALSE]]
  /\ UNCHANGED <<recovering, dirs, index, commands, spoiled>>

StoreStep(p) ==
  \/ MakeLock(p) \/ NameOwner(p) \/ StartRecovery(p) \/ LookAgain(p) \/ RemoveStale(p) \/ EndRecovery(p)
  \/ StartCommand(p) \/ Reads(p) \/ Place(p) \/ RemoveVersion(p) \/ WriteIndex(p) \/ LeaveLock(p) \/ Killed(p)

StoreNext == (\E p \in Worker : StoreStep(p)) \/ (\E t \in Tier : Grows(t))

StoreSpec == StoreInit /\ [][StoreNext]_storeVars

--------------------------------------------------------------------------------

InTier(p) == worker[p].step \in {"read", "place", "delete", "write", "leave", "missing"}

\* One worker at a time is inside a tier, unless one was robbed while it had not named itself for 30 seconds.
OneInside ==
  \A p, q \in Worker : InTier(p) /\ InTier(q) /\ worker[p].tier = worker[q].tier => p = q

\* What the index says of a version and what its receipt says never differ, whatever crashed or failed.
EntriesMatchReceipts ==
  \A t \in Tier, v \in Version :
    (index[t].has[v] # Gone /\ dirs[t][v].receipt # Gone) => index[t].has[v] = dirs[t][v].receipt

\* The active version is an indexed one, and without a failure the index lists exactly the directories at rest.
IndexIsExact ==
  \A t \in Tier :
    /\ index[t].active # 0 <=> Indexed(index[t]) # {}
    /\ index[t].active # 0 => index[t].active \in Indexed(index[t])
    /\ (faults = 0 /\ \A p \in Worker : ~(InTier(p) /\ worker[p].tier = t)) =>
         \A v \in Version : Sound(dirs[t][v], index[t].has[v])

\* The two ways to ask for a package name the same version of the same tier, orphans included.
AnswersAgree ==
  \A mine \in IndexesRead("project"), ours \in IndexesRead("global") :
    LET read == [project |-> mine, global |-> ours] IN GetInstalled(read) = ListInstalled(read)

\* The package store, with its lock, its crashes and its failed writes: withIndexLock, installAsset, removeInstalled.
StoreInv ==
  AnswersAgree /\ ("lock" \notin spoiled => OneInside) /\ (spoiled = {} => EntriesMatchReceipts /\ IndexIsExact)

\* The active version of a package moves only when it is removed, and then to the latest that remains; a version
\* keeps its digest while it is indexed, and leaves the index only by its own removal.
StoreMovesByRemoval ==
  \A t \in Tier : "lock" \notin spoiled =>
    LET removed == {v \in Indexed(index[t]) : index'[t].has[v] = Gone} IN
    /\ \A v \in removed : \E p \in Worker : IsAt(p, "write") /\ worker[p].verb = "remove" /\ worker[p].ver = v
    /\ spoiled = {} => \A v \in Indexed(index[t]) \ removed : index'[t].has[v] = index[t].has[v]
    /\ (index[t].active \in Version /\ index'[t].active # index[t].active) =>
         index[t].active \in removed /\ index'[t].active = LatestVersion(index'[t])
================================================================================
