---------------------------- MODULE MCReleaseChannel ----------------------------
(***************************************************************************)
(* The two release authorities of scripts/ for TLC: the jobs of the        *)
(* channels (a stable job and its re-run with any two kinds of             *)
(* interference, or the jobs of both channels at once), or the trusted npm *)
(* and those who provision and use it.  An initial state chooses one; the  *)
(* variables of the other stay 0.                                          *)
(***************************************************************************)
EXTENDS ReleaseChannel, TrustedNpm

VARIABLE part

MCBounds == {[channels |-> {"stable"}, runs |-> 2, faults |-> 2], [channels |-> Channel, runs |-> 1, faults |-> 0]}

AuthorityInit ==
  \/ /\ part = "channel" /\ ChannelInit
     /\ net = 0 /\ got = 0 /\ pc = 0 /\ kept = 0 /\ dirs = 0
  \/ /\ part = "npm" /\ NpmInit
     /\ release = 0 /\ source = 0 /\ files = 0 /\ job = 0 /\ registry = 0 /\ shown = 0 /\ faults = 0 /\ bound = 0

authorityVars == <<channelVars, npmVars, part>>

AuthorityNext ==
  \/ part = "channel" /\ ChannelNext /\ UNCHANGED <<npmVars, part>>
  \/ part = "npm" /\ NpmNext /\ UNCHANGED <<channelVars, part>>

\* A command of a job that has begun goes on, and ends by its own timeouts; nothing is assumed of the registry.  A
\* provisioner runs on; a connection that is destroyed, or on which nothing happens, is told of.
AuthoritySpec ==
  /\ AuthorityInit /\ [][AuthorityNext]_authorityVars
  /\ \A c \in Channel : WF_channelVars(part = "channel" /\ Command(c))
  /\ \A p \in Provisioner :
       /\ WF_npmVars(part = "npm" /\ Provisions(p)) /\ WF_npmVars(part = "npm" /\ TimesOut(p))
       /\ WF_npmVars(part = "npm" /\ Breaks(p) /\ net[p].destroyed)

--------------------------------------------------------------------------------

\* What is on the registry in a job's name is what its release approved, whatever happens to checkout, files and
\* registry meanwhile, and it is never taken for another's.
PublishedAsApproved == part = "channel" => ChannelInv

\* A job that succeeded is public and selected by its tag; a prepare that failed has left nothing.
JobsEndTruly == part = "channel" => JobEndsTruly

\* The npm that is provisioned is the audited one, and nothing of its use is left behind.
NpmIsAudited == part = "npm" => NpmInv

\* What an authority may never do in a step: call the publisher for a version that it can see, pass over a tag that moved,
\* settle a download anew, replace a provisioned file of another.
AuthorityKeepsOff ==
  [][/\ part = "channel" => NoSecondCall /\ OtherTagUntouched
     /\ part = "npm" => NpmDiscipline]_authorityVars

\* No run of a job and no provisioner is under way.
AtRest ==
  /\ part = "channel" => \A c \in Channel : job[c].step \in {"idle", "ended", "succeeded"}
  /\ part = "npm" => \A p \in Provisioner : pc[p] \in {"provisioned", "failed"}

\* Every run of a job ends, also when the registry never shows anything, and every provisioner, also when the server
\* falls silent at any moment.
AuthoritiesEnd == []<>AtRest
================================================================================
