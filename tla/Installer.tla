-------------------------------- MODULE Installer --------------------------------
(***************************************************************************)
(* Installing from a registry: retired/src/install.js and registry.js.     *)
(* The registry is an edition that expires; a copy is cached and shared by *)
(* the commands that run, each of which loads, resolves, downloads and     *)
(* verifies before it asks the package store (its operations are atomic    *)
(* here: PackageStore models them).                                        *)
(***************************************************************************)
EXTENDS Naturals, FiniteSetsExt, Sequences

CONSTANTS
  Shell,        \* slots in which commands run
  MaxCalls,     \* bound on the commands started
  MaxMishaps    \* bound on failed store operations and killed processes

ASSUME InstallerAssumption == MaxCalls \in Nat /\ MaxMishaps \in Nat /\ "nobody" \notin Shell

Pkg == {"first", "second"}
Rel == 1..2
Where == {"project", "global"}

VARIABLES
  shell,      \* shell[s]: the command, its package, pin and place, the registry it loaded, its step
  editions,   \* editions[e][n][r]: what edition e of the registry says of release r of n
  edition,    \* the one published
  expired,    \* the editions past their expires_at
  cached,     \* the copy in the cache, 0 for none
  stock,      \* stock[l][n][r]: the bytes installed: "none", "listed" (those of the registry's digest) or "other"
  chosen,     \* chosen[l][n]: the active release
  temps,      \* temporary downloads
  logged,     \* installs in the audit log
  unlogged,   \* installs whose line could not be written there (history)
  calls, mishaps

installerVars == <<shell, editions, edition, expired, cached, stock, chosen, temps, logged, unlogged, calls, mishaps>>

\* A command as it starts, for one package or a list of them.
Begun(verb, group, queue, pin, place, goal, step) ==
  [verb |-> verb, name |-> Head(queue), pin |-> pin, place |-> place, refresh |-> FALSE, got |-> 0, base |-> 0, goal |-> goal,
   step |-> step, rest |-> Tail(queue), group |-> group, total |-> Len(queue), done |-> 0, failed |-> 0]

AtPrompt == Begun("none", "none", <<"first">>, 0, "global", 0, "prompt")

NoBytes == [r \in Rel |-> "none"]

\* What a registry says of the releases: "absent", "open" for installable, "yanked" or "revoked" for withdrawn, "barred" for
\* restricted access, "loose" for one without a digest, "bare" for one without a URL.
Edition(first, second) == [n \in Pkg |-> IF n = "first" THEN first ELSE [r \in Rel |-> IF r = 1 THEN second ELSE "absent"]]

\* Two editions, the second with a newer release and another package; a machine with or without the first release.
InstallerInit ==
  /\ shell = [s \in Shell |-> AtPrompt] /\ edition = 1 /\ expired = {} /\ temps = {} /\ logged = {} /\ unlogged = {} /\ calls = 0 /\ mishaps = 0
  /\ \E says \in {<<"open", "loose">>, <<"yanked", "barred">>, <<"revoked", "bare">>} :
       editions = <<Edition(<<"open", "absent">>, says[2]), Edition(<<"open", says[1]>>, "open")>>
  /\ cached \in {0, 1}
  /\ \E has \in {"none", "listed"} : LET where == "project" IN
       /\ stock = [l \in Where |-> [n \in Pkg |-> IF l = where /\ n = "first" THEN [r \in Rel |-> IF r = 1 THEN has ELSE "none"] ELSE NoBytes]]
       /\ chosen = [l \in Where |-> [n \in Pkg |-> IF l = where /\ n = "first" /\ has # "none" THEN 1 ELSE 0]]

--------------------------------------------------------------------------------
(* The registry. *)

\* selectRegistryEntry: the pinned release, or the newest that is not yanked.
SelectRegistryEntry(entries, pin) ==
  IF pin # 0 THEN (IF entries[pin] = "absent" THEN 0 ELSE pin)
  ELSE Max({0} \union {r \in Rel : entries[r] \notin {"absent", "yanked"}})

\* Mutant of Resolves: a release that was withdrawn is taken when it is named.
ResolvesAny(entries, pin) == SelectRegistryEntry(entries, pin)

\* RegistryResolver.resolve: the release, or 0 where it throws.
Resolves(entries, pin) ==
  LET r == SelectRegistryEntry(entries, pin) IN IF r # 0 /\ entries[r] \in {"yanked", "revoked"} THEN 0 ELSE r

\* installCluster passes over what it cannot download; installFromRegistry also wants public access and a digest.
Downloads(mark, group) == mark \notin (IF group = "cluster" THEN {"bare"} ELSE {"barred", "loose", "bare"})

\* getInstalled: the active release of the project, or the global one.
HasPlace(n) == {l \in Where : chosen[l][n] # 0}

FoundIn(n) == IF chosen["project"][n] # 0 THEN "project" ELSE "global"

--------------------------------------------------------------------------------
(* How a command goes on. *)

Does(s, step) == shell[s].step = step

Shows(s, with) == shell' = [shell EXCEPT ![s] = with]

\* The next package of a cluster or of an update of everything; or the report.
NextOf(w, failed) ==
  IF w.rest = <<>> THEN [w EXCEPT !.done = w.done + 1, !.failed = w.failed + failed, !.step = "report"]
  ELSE [verb |-> w.verb, name |-> Head(w.rest), pin |-> 0, place |-> "global", refresh |-> w.refresh,
        got |-> IF w.group = "all" THEN 0 ELSE w.got, base |-> 0, goal |-> 0, step |-> IF w.group = "all" THEN "find" ELSE "resolve",
        rest |-> Tail(w.rest), group |-> w.group, total |-> w.total, done |-> w.done + 1, failed |-> w.failed + failed]

\* Mutant of Abandons: a package that fails counts as failed, and not as done.
AbandonsUncounted(w) == IF w.group = "all" THEN [NextOf(w, 1) EXCEPT !.done = w.done] ELSE AtPrompt

\* error(): the process ends. An update of everything runs each in a process of its own and counts it.
Abandons(w) == IF w.group = "all" THEN NextOf(w, 1) ELSE AtPrompt

\* An exception in the loop of a cluster is a warning; anywhere else it ends the process.
Throws(w) == IF w.group = "cluster" THEN NextOf(w, 0) ELSE Abandons(w)

CallInstall(s, n, r, l) == Shows(s, Begun("install", "none", <<n>>, r, l, 0, "load"))

CallCluster(s) == Shows(s, Begun("install", "cluster", <<"first", "second">>, 0, "global", 0, "load"))

\* cmdUpdateAll takes the names installed when it starts.
CallUpdateAll(s, queue) ==
  /\ {queue[i] : i \in DOMAIN queue} = {n \in Pkg : HasPlace(n) # {}}
  /\ Shows(s, Begun("update", "all", queue, 0, "global", 0, "find"))

Call(s) ==
  /\ shell[s] = AtPrompt /\ calls < MaxCalls /\ calls' = calls + 1
  /\ \/ \E r \in {0, 2}, l \in Where : CallInstall(s, "first", r, l)
     \/ CallCluster(s)
     \/ Shows(s, Begun("update", "none", <<"first">>, 0, "global", 0, "find"))
     \/ \E queue \in {<<"first">>, <<"second">>, <<"first", "second">>} : CallUpdateAll(s, queue)
     \/ \E r \in {0, 1} : Shows(s, Begun("remove", "none", <<"first">>, r, "global", 0, "remove"))
     \/ \E r \in Rel : Shows(s, Begun("file", "none", <<"first">>, 0, "global", r, "assess"))
  /\ UNCHANGED <<editions, edition, expired, cached, stock, chosen, temps, logged, unlogged, mishaps>>

\* RegistrySource.load: the cached copy, or a fetched one; a fetch that fails falls back on the cache.
LoadRegistry(s) ==
  LET w == shell[s] IN
  /\ Does(s, "load")
  /\ \/ ~w.refresh /\ cached # 0 /\ Shows(s, [w EXCEPT !.got = cached, !.step = "judge"])
     \/ /\ w.refresh \/ cached = 0
        /\ \/ Shows(s, [w EXCEPT !.got = edition, !.step = "save"])
           \/ Shows(s, [w EXCEPT !.got = cached, !.step = "judge"])
  /\ UNCHANGED <<editions, edition, expired, cached, stock, chosen, temps, logged, unlogged, calls, mishaps>>

\* The fetched copy is cached before it is judged.
SaveRegistry(s) ==
  /\ Does(s, "save") /\ cached' = shell[s].got /\ Shows(s, [shell[s] EXCEPT !.step = "judge"])
  /\ UNCHANGED <<editions, edition, expired, stock, chosen, temps, logged, unlogged, calls, mishaps>>

\* Mutant of JudgeRegistry: an expired copy is used where it cannot be fetched again.
JudgeRegistryLax(s) ==
  LET w == shell[s] IN
  /\ Does(s, "judge")
  /\ Shows(s, IF w.got = 0 THEN Abandons(w)
            ELSE IF w.got \in expired /\ ~w.refresh THEN [w EXCEPT !.refresh = TRUE, !.step = "load"]
            ELSE [w EXCEPT !.step = "resolve"])
  /\ UNCHANGED <<editions, edition, expired, cached, stock, chosen, temps, logged, unlogged, calls, mishaps>>

\* registryTrustIssues: an expired copy is fetched once more.
JudgeRegistry(s) ==
  LET w == shell[s] IN
  /\ Does(s, "judge")
  /\ Shows(s, IF w.got = 0 THEN Abandons(w)
            ELSE IF w.got \notin expired THEN [w EXCEPT !.step = "resolve"]
            ELSE IF w.refresh THEN Abandons(w) ELSE [w EXCEPT !.refresh = TRUE, !.step = "load"])
  /\ UNCHANGED <<editions, edition, expired, cached, stock, chosen, temps, logged, unlogged, calls, mishaps>>

\* Mutant of IsNewer: any other release is an update.
IsNewerOther(release, installed) == release # installed

\* cmdUpdate: only a newer release is installed.
IsNewer(release, installed) == release > installed

\* An update that found a newer release starts the install of just that one, with a resolver of its own.
ResolveEntry(s) ==
  LET w == shell[s]
      entries == editions[w.got][w.name]
      r == Resolves(entries, w.pin)
  IN /\ Does(s, "resolve")
     /\ IF w.verb = "update"
        THEN Shows(s, IF r = 0 THEN Abandons(w)
                    ELSE IF ~IsNewer(r, w.base) THEN NextOf(w, 0)
                    ELSE [w EXCEPT !.verb = "install", !.pin = r, !.refresh = FALSE, !.got = 0, !.step = "load"])
        ELSE \/ Shows(s, IF r = 0 THEN Throws(w)
                       ELSE IF Downloads(entries[r], w.group) THEN [w EXCEPT !.goal = r, !.step = "download"] ELSE Throws(w))
             \/ w.base = 0 /\ w.group = "none" /\ Shows(s, AtPrompt)   \* confirmStatus: declined
     /\ UNCHANGED <<editions, edition, expired, cached, stock, chosen, temps, logged, unlogged, calls, mishaps>>

Mine(s) == {f \in temps : f.by = s}

\* A temporary file is left to nobody.
GivesUp(s) == temps' = (temps \ Mine(s)) \union {[f EXCEPT !.by = "nobody"] : f \in Mine(s)}

\* unlinkSync in a try whose catch is empty.
Unlinks(s) ==
  \/ temps' = temps \ Mine(s) /\ mishaps' = mishaps
  \/ GivesUp(s) /\ mishaps < MaxMishaps /\ mishaps' = mishaps + 1

\* downloadFile, after its retries; what a download that failed has written is unlinked, if that works.
Download(s) ==
  LET w == shell[s] IN
  /\ Does(s, "download")
  /\ \/ Shows(s, Abandons(w)) /\ UNCHANGED <<temps, mishaps>>
     \/ /\ Shows(s, Abandons(w)) /\ mishaps < MaxMishaps /\ mishaps' = mishaps + 1
        /\ temps' = temps \union {[by |-> "nobody", bytes |-> "other"]}
     \/ \E bytes \in {"listed", "other"} :
          /\ temps' = temps \union {[by |-> s, bytes |-> bytes]} /\ mishaps' = mishaps
          /\ Shows(s, [w EXCEPT !.step = "verify"])
  /\ UNCHANGED <<editions, edition, expired, cached, stock, chosen, logged, unlogged, calls>>

BytesOf(s) == (CHOOSE f \in Mine(s) : TRUE).bytes

\* Mutant of DigestFits: the digest is not compared.
DigestFitsAny(s) == TRUE

\* The digest is compared where the entry has one.
DigestFits(s) == BytesOf(s) = "listed" \/ editions[shell[s].got][shell[s].name][shell[s].goal] = "loose"

\* auditLog: "best-effort, never block on it"; lost is 1 when the line could not be written.
AuditLog(n, r, lost) ==
  /\ logged' = IF lost = 0 THEN logged \union {<<n, r>>} ELSE logged
  /\ unlogged' = IF lost = 0 THEN unlogged ELSE unlogged \union {<<n, r>>}

VerifyDigest(s) ==
  /\ Does(s, "verify")
  /\ IF DigestFits(s)
     THEN /\ Shows(s, [shell[s] EXCEPT !.step = "install"]) /\ temps' = temps
          /\ \E lost \in {0, 1} :
               AuditLog(shell[s].name, shell[s].goal, lost) /\ mishaps' = mishaps + lost /\ mishaps' <= MaxMishaps
     ELSE Shows(s, Abandons(shell[s])) /\ Unlinks(s) /\ UNCHANGED <<logged, unlogged>>
  /\ UNCHANGED <<editions, edition, expired, cached, stock, chosen, calls>>

\* installAsset as PackageStore has it: a release already there with other bytes is refused, one with the same
\* bytes is left alone, and the active release stays.
Stocked(w, bytes) ==
  LET has == stock[w.place][w.name] IN
  /\ has[w.goal] \in {"none", bytes}
  /\ stock' = [stock EXCEPT ![w.place][w.name][w.goal] = bytes]
  /\ chosen' = IF chosen[w.place][w.name] = 0 THEN [chosen EXCEPT ![w.place][w.name] = w.goal] ELSE chosen

NotStocked(w, bytes, lost) ==
  /\ stock' = stock /\ chosen' = chosen
  /\ \/ stock[w.place][w.name][w.goal] \notin {"none", bytes} /\ mishaps' = mishaps + lost
     \/ mishaps' = mishaps + lost + 1
  /\ mishaps' <= MaxMishaps

\* The temporary file is unlinked when the install succeeded.
InstallDownload(s) ==
  LET w == shell[s] IN
  /\ Does(s, "install")
  /\ \/ Stocked(w, BytesOf(s)) /\ Unlinks(s) /\ Shows(s, NextOf(w, 0))
     \/ NotStocked(w, BytesOf(s), 0) /\ GivesUp(s) /\ Shows(s, Throws(w))
  /\ UNCHANGED <<editions, edition, expired, cached, logged, unlogged, calls>>

\* installFromLocalFile: an asset that is not valid is refused, unless that is allowed.
InstallFile(s) ==
  LET w == shell[s] IN
  /\ Does(s, "assess") /\ Shows(s, AtPrompt)
  /\ \/ UNCHANGED <<stock, chosen, logged, unlogged, mishaps>>
     \/ \E bytes \in {"listed", "other"}, lost \in {0, 1} :
          /\ AuditLog(w.name, w.goal, lost)
          /\ \/ Stocked(w, bytes) /\ mishaps' = mishaps + lost /\ mishaps' <= MaxMishaps
             \/ NotStocked(w, bytes, lost)
  /\ UNCHANGED <<editions, edition, expired, cached, temps, calls>>

\* cmdUpdate looks for the package; one that is not installed is told so, and nothing is wrong; one that is no longer
\* what was installed is an error (assertInstalledIntegrity).
FindInstalled(s) ==
  LET w == shell[s] IN
  /\ Does(s, "find")
  /\ \/ HasPlace(w.name) # {} /\ Shows(s, Abandons(w))
     \/ Shows(s, IF HasPlace(w.name) = {} THEN NextOf(w, 0)
               ELSE [w EXCEPT !.verb = "update", !.place = FoundIn(w.name), !.base = chosen[FoundIn(w.name)][w.name], !.refresh = TRUE, !.step = "load"])
  /\ UNCHANGED <<editions, edition, expired, cached, stock, chosen, temps, logged, unlogged, calls, mishaps>>

\* The release that is removed at l: the one named, if it is there, or the active one.
Removes(w, l) == IF w.pin = 0 THEN chosen[l][w.name] ELSE IF stock[l][w.name][w.pin] # "none" THEN w.pin ELSE 0

\* cmdRemove, as removeInstalled does it: the project's release first, the newest that remains becoming active.
RemoveRelease(s) ==
  LET w == shell[s]
      l == IF Removes(w, "project") # 0 THEN "project" ELSE "global"
      left == {r \in Rel : stock[l][w.name][r] # "none"} \ {Removes(w, l)}
  IN /\ Does(s, "remove") /\ Shows(s, AtPrompt)
     /\ IF Removes(w, l) = 0 THEN UNCHANGED <<stock, chosen>>
        ELSE /\ stock' = [stock EXCEPT ![l][w.name][Removes(w, l)] = "none"]
             /\ chosen' = IF chosen[l][w.name] = Removes(w, l) THEN [chosen EXCEPT ![l][w.name] = Max({0} \union left)] ELSE chosen
     /\ UNCHANGED <<editions, edition, expired, cached, temps, logged, unlogged, calls, mishaps>>

\* The summary of a cluster or an update of everything, or the end of a single command.
ReportEnd(s) ==
  /\ Does(s, "report") /\ Shows(s, AtPrompt)
  /\ UNCHANGED <<editions, edition, expired, cached, stock, chosen, temps, logged, unlogged, calls, mishaps>>

\* A command is killed; an update of everything takes its subprocess with it.
KillShell(s) ==
  /\ shell[s] # AtPrompt /\ mishaps < MaxMishaps /\ mishaps' = mishaps + 1 /\ Shows(s, AtPrompt) /\ GivesUp(s)
  /\ UNCHANGED <<editions, edition, expired, cached, stock, chosen, logged, unlogged, calls>>

\* The registry publishes its next edition; time passes an expires_at.
RegistryMoves ==
  /\ \/ edition = 1 /\ edition' = 2 /\ expired' = expired
     \/ \E e \in 1..2 \ expired : expired' = 1..e /\ edition' = edition
  /\ UNCHANGED <<shell, editions, cached, stock, chosen, temps, logged, unlogged, calls, mishaps>>

InstallerStep(s) ==
  \/ Call(s) \/ LoadRegistry(s) \/ SaveRegistry(s) \/ JudgeRegistry(s) \/ ResolveEntry(s) \/ Download(s) \/ VerifyDigest(s)
  \/ InstallDownload(s) \/ InstallFile(s) \/ FindInstalled(s) \/ RemoveRelease(s) \/ ReportEnd(s) \/ KillShell(s)

InstallerNext == (\E s \in Shell : InstallerStep(s)) \/ RegistryMoves

InstallerSpec == InstallerInit /\ [][InstallerNext]_installerVars

--------------------------------------------------------------------------------

\* install, installCluster and cmdUpdateAll: what is installed was logged unless writing its line failed, a command has a
\* temporary file only while it verifies or installs it, and a summary counts every name once.
InstallerInv ==
  /\ \A l \in Where, n \in Pkg, r \in Rel : stock[l][n][r] # "none" => <<n, r>> \in logged \union unlogged \union {<<"first", 1>>}
  /\ \A f \in temps : f.by \in Shell => shell[f.by].step \in {"verify", "install"}
  /\ \A s \in Shell : (Does(s, "report") /\ shell[s].group # "none") => shell[s].done = shell[s].total /\ shell[s].failed <= shell[s].total

\* A release reaches the store from a registry copy that had not expired when it was resolved, that lists it as neither
\* yanked nor revoked, with the bytes of its digest; an unpinned install takes the newest such; an update adds only a
\* release newer than the one it found; a temporary file is given up only where the store refused its release, or in a
\* mishap.
InstallsAreListed ==
  /\ \A s \in Shell :
       LET w == shell[s] IN
       /\ (Does(s, "judge") /\ shell'[s].step = "resolve") => w.got \in {1, 2} \ expired
       /\ (w.verb = "install" /\ shell'[s].step = "download") =>
            LET mark == editions[w.got][w.name] IN
            /\ mark[shell'[s].goal] \notin {"absent", "yanked", "revoked"}
            /\ w.pin = 0 => \A r \in Rel : r > shell'[s].goal => mark[r] \in {"absent", "yanked"}
       /\ (Does(s, "install") /\ shell'[s] # w /\ stock' # stock) =>
            /\ stock'[w.place][w.name][w.goal] = "listed" \/ editions[w.got][w.name][w.goal] = "loose"
            /\ w.base # 0 => w.goal > w.base
  /\ \A f \in temps' \ temps : f.by \notin Shell =>
       mishaps' > mishaps \/ \E s \in Shell : Does(s, "install") /\ stock[shell[s].place][shell[s].name][shell[s].goal] \notin {"none", f.bytes}
================================================================================
