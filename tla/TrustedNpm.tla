------------------------------- MODULE TrustedNpm -------------------------------
(***************************************************************************)
(* How core-release-authority.js gets the one npm release it trusts:       *)
(* downloadTrustedNpmBytes, which waits for the first of many events of an *)
(* HTTPS response, provisionTrustedNpmTarball, which keeps the bytes at a  *)
(* destination several provisioners may share, and the invocation that     *)
(* verifies the tarball, unpacks it into private temporary directories and *)
(* runs one npm command in a third.                                        *)
(*                                                                         *)
(* A download is counted in chunks: Audited of them are the audited        *)
(* release, in its own order or altered.                                   *)
(***************************************************************************)
EXTENDS Naturals, FiniteSets

CONSTANTS
  Provisioner,  \* processes that provision one destination
  User,         \* processes that run an npm command from it
  Audited,      \* chunks of the audited release
  MaxChunks,    \* TRUSTED_NPM_COMPRESSED_LIMIT
  Missing

ASSUME NpmAssumption ==
  /\ Audited \in 1..MaxChunks /\ MaxChunks \in Nat
  /\ Missing \notin [by : Provisioner \union {"before"}, content : {"audited", "other"}]

VARIABLES
  net,    \* net[p]: the exchange of p, see Exchange
  got,    \* got[p]: how the promise of p settled: "none", "bytes", "error"
  pc,     \* pc[p]: where p stands
  kept,   \* what is at the destination: Missing or [by, content]
  dirs    \* the private directories that exist: <<user, kind>>

npmVars == <<net, got, pc, kept, dirs>>

\* `state` of the connection, whether the code has destroyed it, content-length, chunks received,
\* 'end' seen, and whether the chunks are the audited ones.
Exchange == [state : {"idle", "asked", "body", "over"}, destroyed : BOOLEAN,
             declared : 1..MaxChunks \union {Missing}, total : 0..(MaxChunks + 1),
             ended : BOOLEAN, altered : BOOLEAN]

NoExchange == [state |-> "idle", destroyed |-> FALSE, declared |-> Missing, total |-> 0,
         ended |-> FALSE, altered |-> FALSE]

NpmInit ==
  /\ net = [p \in Provisioner |-> NoExchange] /\ got = [p \in Provisioner |-> "none"]
  /\ pc = [p \in Provisioner \union User |-> "start"]
  /\ kept \in {Missing, [by |-> "before", content |-> "audited"], [by |-> "before", content |-> "other"]}
  /\ dirs = {}

--------------------------------------------------------------------------------
(* The download.                                                               *)

\* Mutant of Finish: a later event settles the promise anew.
FinishAgain(p, how) == got' = [got EXCEPT ![p] = how]

\* finish: the first event settles the promise, later ones do nothing.
Finish(p, how) == got' = [got EXCEPT ![p] = IF @ = "none" THEN how ELSE @]

Asked(p) == net[p].state = "asked" /\ ~net[p].destroyed

Ask(p) ==
  /\ net' = [net EXCEPT ![p] = [NoExchange EXCEPT !.state = "asked"]]

\* The response: another status rejects and drains the body; an invalid or too large content-length
\* destroys the response, whose error the request reports.
Respond(p) ==
  /\ Asked(p)
  /\ \/ /\ net' = [net EXCEPT ![p].state = "over"] /\ Finish(p, "error")
     \/ /\ net' = [net EXCEPT ![p].destroyed = TRUE] /\ got' = got
     \/ /\ \E declared \in 1..MaxChunks \union {Missing}, altered \in BOOLEAN :
             net' = [net EXCEPT ![p].state = "body", ![p].declared = declared, ![p].altered = altered]
        /\ got' = got
  /\ UNCHANGED <<pc, kept, dirs>>

Body(p) == net[p].state = "body" /\ ~net[p].destroyed /\ ~net[p].ended

\* response.on('data'): one chunk over the limit destroys the response and is dropped.
Data(p) ==
  /\ Body(p)
  /\ net' = [net EXCEPT ![p].total = @ + 1, ![p].destroyed = (@ \/ net[p].total = MaxChunks)]
  /\ UNCHANGED <<got, pc, kept, dirs>>

\* Mutant of LengthIsRight: the length is trusted.
LengthIsRightAlways(p) == net[p].total >= 1

LengthIsRight(p) == net[p].total >= 1 /\ net[p].declared \in {Missing, net[p].total}

\* response.on('end')
End(p) ==
  /\ Body(p)
  /\ net' = [net EXCEPT ![p].ended = TRUE]
  /\ Finish(p, IF LengthIsRight(p) THEN "bytes" ELSE "error")
  /\ UNCHANGED <<pc, kept, dirs>>

\* 'aborted' and 'error' of the response and 'error' of the request: the connection is lost, or the
\* code or the timeout has destroyed it.
Breaks(p) ==
  /\ net[p].state \in {"asked", "body"}
  /\ net' = [net EXCEPT ![p].state = "over"]
  /\ Finish(p, "error")
  /\ UNCHANGED <<pc, kept, dirs>>

\* Mutant of Close: an early close settles nothing.
CloseSilent(p) ==
  /\ net[p].state = "body"
  /\ net' = [net EXCEPT ![p].state = "over"]
  /\ UNCHANGED <<got, pc, kept, dirs>>

\* response.on('close'): without an 'end' before it the response closed early.
Close(p) ==
  /\ net[p].state = "body"
  /\ net' = [net EXCEPT ![p].state = "over"]
  /\ IF net[p].ended THEN got' = got ELSE Finish(p, "error")
  /\ UNCHANGED <<pc, kept, dirs>>

\* requested.setTimeout: a silent connection is destroyed.
TimesOut(p) ==
  /\ net[p].state \in {"asked", "body"} /\ ~net[p].destroyed
  /\ net' = [net EXCEPT ![p].destroyed = TRUE]
  /\ UNCHANGED <<got, pc, kept, dirs>>

Network(p) == Respond(p) \/ Data(p) \/ End(p) \/ Breaks(p) \/ Close(p) \/ TimesOut(p)

--------------------------------------------------------------------------------
(* provisionTrustedNpmTarball.                                                 *)

Goto(p, place) == pc' = [pc EXCEPT ![p] = place]

Received(p) ==
  IF ~net[p].altered /\ net[p].total = Audited THEN "audited" ELSE "other"

Provision(p) ==
  /\ pc[p] = "start"
  /\ IF kept = Missing THEN Ask(p) /\ Goto(p, "download") ELSE net' = net /\ Goto(p, "failed")
  /\ UNCHANGED <<got, kept, dirs>>

Downloaded(p) ==
  /\ pc[p] = "download" /\ got[p] # "none"
  /\ Goto(p, IF got[p] = "bytes" /\ Received(p) = "audited" THEN "write" ELSE "failed")
  /\ UNCHANGED <<net, got, kept, dirs>>

\* Mutant of Create: the file at the destination is written over.
CreateOver(p) ==
  /\ pc[p] = "write"
  /\ kept' = [by |-> p, content |-> "other"] /\ Goto(p, "writing")
  /\ UNCHANGED <<net, got, dirs>>

\* fs.writeFileSync with flag wx: the file is created if there is none, then written.
Create(p) ==
  /\ pc[p] = "write"
  /\ IF kept = Missing
     THEN kept' = [by |-> p, content |-> "other"] /\ Goto(p, "writing")
     ELSE kept' = kept /\ Goto(p, "failed")
  /\ UNCHANGED <<net, got, dirs>>

\* A write that fails leaves what has been written: `created` is not set yet.
Written(p) ==
  /\ pc[p] = "writing"
  /\ \/ kept' = [kept EXCEPT !.content = "audited"] /\ Goto(p, "verify")
     \/ kept' = kept /\ Goto(p, "failed")
  /\ UNCHANGED <<net, got, dirs>>

\* verifyTrustedNpmTarball, which may fail on its own; rmSync of the file created.
Verified(p) ==
  /\ pc[p] = "verify"
  /\ \/ kept # Missing /\ kept.content = "audited" /\ Goto(p, "provisioned") /\ kept' = kept
     \/ Goto(p, "failed") /\ kept' = Missing
  /\ UNCHANGED <<net, got, dirs>>

Provisions(p) == Provision(p) \/ Downloaded(p) \/ Create(p) \/ Written(p) \/ Verified(p)

--------------------------------------------------------------------------------
(* resolveTrustedNpmInvocation and runTrustedNpmCommand.                       *)

MakeDir(u, kind) == dirs' = dirs \union {<<u, kind>>}

RemoveDirs(u, kinds) == dirs' = dirs \ ({u} \X kinds)

\* resolveTrustedNpmInvocation: the environment, the Node executable and the tarball are right.
Resolve(u) ==
  /\ pc[u] = "start"
  /\ \/ kept # Missing /\ kept.content = "audited" /\ Goto(u, "unpack")
     \/ Goto(u, "failed")
  /\ UNCHANGED <<net, got, kept, dirs>>

MakeRelease(u) ==
  /\ pc[u] = "unpack"
  /\ \/ MakeDir(u, "release") /\ Goto(u, "extract")
     \/ dirs' = dirs /\ Goto(u, "failed")
  /\ UNCHANGED <<net, got, kept>>

\* Mutant of Extract: what was extracted of a failed release stays.
ExtractKeeps(u) ==
  /\ pc[u] = "extract" /\ dirs' = dirs
  /\ Goto(u, "tools") \/ Goto(u, "failed")
  /\ UNCHANGED <<net, got, kept>>

\* extractTrustedNpmRelease: if (!complete) the root is removed.
Extract(u) ==
  /\ pc[u] = "extract"
  /\ \/ dirs' = dirs /\ Goto(u, "tools")
     \/ RemoveDirs(u, {"release"}) /\ Goto(u, "failed")
  /\ UNCHANGED <<net, got, kept>>

\* createTrustedToolEntries removes its directory, its caller the release.
MakeTools(u) ==
  /\ pc[u] = "tools"
  /\ \/ MakeDir(u, "tools") /\ Goto(u, "link")
     \/ RemoveDirs(u, {"release"}) /\ Goto(u, "failed")
  /\ UNCHANGED <<net, got, kept>>

LinkTools(u) ==
  /\ pc[u] = "link"
  /\ \/ dirs' = dirs /\ Goto(u, "home")
     \/ RemoveDirs(u, {"release", "tools"}) /\ Goto(u, "failed")
  /\ UNCHANGED <<net, got, kept>>

\* makePrivateTemp of the home stands before the try: if it fails nobody cleans the invocation up.
MakeHome(u) ==
  /\ pc[u] = "home"
  /\ \/ MakeDir(u, "home") /\ Goto(u, "configure")
     \/ dirs' = dirs /\ Goto(u, "abandoned")
  /\ UNCHANGED <<net, got, kept>>

\* assertNoProjectNpmConfig, createTokenUserConfig and cleanNpmEnvironment, in the try.
Configure(u) ==
  /\ pc[u] = "configure"
  /\ \/ dirs' = dirs /\ Goto(u, "command")
     \/ RemoveDirs(u, {"home", "release", "tools"}) /\ Goto(u, "failed")
  /\ UNCHANGED <<net, got, kept>>

\* Mutant of RunCommand: only a command that succeeds is cleaned up after.
RunCommandFailing(u) ==
  /\ pc[u] = "command"
  /\ \/ RemoveDirs(u, {"home", "release", "tools"}) /\ Goto(u, "done")
     \/ RemoveDirs(u, {"home"}) /\ Goto(u, "failed")
  /\ UNCHANGED <<net, got, kept>>

\* The command, which ends, times out or cannot be run, and the finally block.
RunCommand(u) ==
  /\ pc[u] = "command"
  /\ RemoveDirs(u, {"home", "release", "tools"})
  /\ Goto(u, "done") \/ Goto(u, "failed")
  /\ UNCHANGED <<net, got, kept>>

Uses(u) == Resolve(u) \/ MakeRelease(u) \/ Extract(u) \/ MakeTools(u) \/ LinkTools(u) \/ MakeHome(u)
  \/ Configure(u) \/ RunCommand(u)

\* All have ended; a promise no event settles any more would be waited for in vain.
NpmEnded ==
  /\ \A p \in Provisioner \union User :
       pc[p] \in {"failed", "provisioned", "abandoned", "done"} \/ (pc[p] = "download" /\ net[p].state = "over")
  /\ UNCHANGED npmVars

NpmNext ==
  \/ \E p \in Provisioner : Network(p) \/ Provisions(p)
  \/ \E u \in User : Uses(u)
  \/ NpmEnded

--------------------------------------------------------------------------------
(* Properties.                                                                 *)

Places == {"start", "download", "write", "writing", "verify", "provisioned", "failed",
           "unpack", "extract", "tools", "link", "home", "configure", "command", "abandoned", "done"}

NpmTypeOK ==
  /\ net \in [Provisioner -> Exchange] /\ got \in [Provisioner -> {"none", "bytes", "error"}]
  /\ pc \in [Provisioner \union User -> Places]
  /\ kept \in {Missing} \union [by : Provisioner \union {"before"}, content : {"audited", "other"}]
  /\ dirs \subseteq User \X {"release", "tools", "home"}

\* A download that resolves has seen the end of a response of the length it declared, within the
\* limit, whatever other events came before and after.
DownloadIsWhole ==
  \A p \in Provisioner : got[p] = "bytes" =>
    net[p].ended /\ net[p].total \in 1..MaxChunks /\ net[p].declared \in {Missing, net[p].total}

\* A provisioner that succeeds leaves the audited release at the destination, also when several
\* provision it at once and one of them failed in the middle of its write.
ProvisionedIsAudited ==
  \A p \in Provisioner : pc[p] = "provisioned" => kept # Missing /\ kept.content = "audited"

\* A user that has come to its end has left no private directory, except when no home could be made.
NoDirectoryIsLeft ==
  \A u \in User : pc[u] \in {"done", "failed"} => ~\E kind \in {"release", "tools", "home"} : <<u, kind>> \in dirs

\* Nothing has come before a response, and a response over the limit is destroyed.
ExchangeIsOrderly ==
  \A p \in Provisioner :
    /\ net[p].state \in {"idle", "asked"} => net[p].total = 0 /\ ~net[p].ended
    /\ net[p].total > MaxChunks => net[p].destroyed
    /\ pc[p] = "start" => net[p].state = "idle" /\ got[p] = "none"

\* Between its creation and its end the file is the provisioner's own, and whole when it is verified.
FileIsOwn ==
  \A p \in Provisioner :
    /\ pc[p] \in {"writing", "verify", "provisioned"} => kept # Missing /\ kept.by = p
    /\ pc[p] = "verify" => kept.content = "audited"

\* The private directories there can be at a place of runTrustedNpmCommand.
Holdings(place) ==
  CASE place \in {"extract", "tools"} -> {"release"}
    [] place \in {"link", "home"} -> {"release", "tools"}
    [] place \in {"configure", "command", "abandoned"} -> {"release", "tools", "home"}
    [] OTHER -> {}

DirectoriesAreHeld == \A u \in User, kind \in {"release", "tools", "home"} : <<u, kind>> \in dirs => kind \in Holdings(pc[u])

\* What the trusted npm is made of, and what is left of it.
NpmIsTrusted == DownloadIsWhole /\ ProvisionedIsAudited /\ NoDirectoryIsLeft

\* The same with what is known of every exchange, file and directory on the way.
NpmInv == NpmTypeOK /\ ExchangeIsOrderly /\ FileIsOwn /\ DirectoriesAreHeld /\ NpmIsTrusted

\* The promise of a download settles once, and no provisioner changes or removes a file that was at
\* the destination before it or is another's.
NpmDiscipline ==
  \A p \in Provisioner :
      /\ got[p] # "none" => got'[p] = got[p]
      /\ Provisions(p) /\ kept # Missing /\ kept.by # p => kept' = kept

================================================================================
