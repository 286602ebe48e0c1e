----------------------------- MODULE AuthorityProofs -----------------------------
(***************************************************************************)
(* Proofs about the release authorities of scripts/, ReleaseChannel and    *)
(* TrustedNpm, for every set of channels, provisioners and users and every *)
(* bound on runs, attempts, chunks and interference.                       *)
(***************************************************************************)
EXTENDS MCReleaseChannel, TLAPS

(***************************************************************************)
(* The trusted npm: the download.                                          *)
(***************************************************************************)

\* An event of an exchange keeps the invariant if what it leaves is orderly and, resolved, whole.
LEMMA EventKeepsInv ==
  ASSUME NpmInv, NEW p \in Provisioner, NEW exchange \in Exchange, NEW how \in {"none", "bytes", "error"},
         net' = [net EXCEPT ![p] = exchange], got' = [got EXCEPT ![p] = how], UNCHANGED <<pc, kept, dirs>>,
         exchange.state \notin {"idle", "asked"} \/ (exchange.total = 0 /\ ~exchange.ended),
         exchange.total > MaxChunks => exchange.destroyed,
         pc[p] # "start",
         how = "bytes" => exchange.ended /\ exchange.total \in 1..MaxChunks
                            /\ exchange.declared \in {Missing, exchange.total}
  PROVE  NpmInv'
<1>1. net \in [Provisioner -> Exchange] /\ got \in [Provisioner -> {"none", "bytes", "error"}]
  BY DEF NpmInv, NpmTypeOK
<1>2. /\ net'[p] = exchange /\ got'[p] = how
      /\ \A q \in Provisioner : q # p => net'[q] = net[q] /\ got'[q] = got[q]
  BY <1>1
<1>3. NpmTypeOK'
  BY <1>1 DEF NpmInv, NpmTypeOK
<1>4. ExchangeIsOrderly'
  <2> SUFFICES ASSUME NEW q \in Provisioner
               PROVE  /\ net'[q].state \in {"idle", "asked"} => net'[q].total = 0 /\ ~net'[q].ended
                      /\ net'[q].total > MaxChunks => net'[q].destroyed
                      /\ pc[q] = "start" => net'[q].state = "idle" /\ got'[q] = "none"
    BY DEF ExchangeIsOrderly
  <2>1. CASE q = p
    BY <1>2, <2>1
  <2>2. CASE q # p
    BY <1>2, <2>2 DEF NpmInv, ExchangeIsOrderly
  <2>3. QED
    BY <2>1, <2>2
<1>5. DownloadIsWhole'
  <2> SUFFICES ASSUME NEW q \in Provisioner, got'[q] = "bytes"
               PROVE  net'[q].ended /\ net'[q].total \in 1..MaxChunks /\ net'[q].declared \in {Missing, net'[q].total}
    BY DEF DownloadIsWhole
  <2>1. CASE q = p
    BY <1>2, <2>1
  <2>2. CASE q # p
    BY <1>2, <2>2 DEF NpmInv, NpmIsTrusted, DownloadIsWhole
  <2>3. QED
    BY <2>1, <2>2
<1>6. FileIsOwn' /\ DirectoriesAreHeld' /\ ProvisionedIsAudited' /\ NoDirectoryIsLeft'
  BY DEF NpmInv, NpmIsTrusted, FileIsOwn, DirectoriesAreHeld, ProvisionedIsAudited, NoDirectoryIsLeft
<1>7. QED
  BY <1>3, <1>4, <1>5, <1>6 DEF NpmInv, NpmIsTrusted

\* What Finish leaves of the promise.
LEMMA FinishSettles ==
  ASSUME NpmInv, NEW p \in Provisioner, NEW how \in {"bytes", "error"}, Finish(p, how)
  PROVE  \E settled \in {"none", "bytes", "error"} :
           /\ got' = [got EXCEPT ![p] = settled]
           /\ settled = "bytes" => got[p] = "bytes" \/ how = "bytes"
           /\ got[p] # "none" => settled = got[p]
<1>1. got \in [Provisioner -> {"none", "bytes", "error"}]
  BY DEF NpmInv, NpmTypeOK
<1>2. QED
  BY <1>1 DEF Finish

\* The events of a download, in whatever order.
LEMMA NetworkKeepsInv ==
  ASSUME NpmInv, NEW p \in Provisioner, Network(p)
  PROVE  NpmInv'
<1>1. net \in [Provisioner -> Exchange] /\ got \in [Provisioner -> {"none", "bytes", "error"}] /\ net[p] \in Exchange
  BY DEF NpmInv, NpmTypeOK
<1>2. /\ net[p].state \in {"idle", "asked"} => net[p].total = 0 /\ ~net[p].ended
      /\ net[p].total > MaxChunks => net[p].destroyed
      /\ pc[p] = "start" => net[p].state = "idle" /\ got[p] = "none"
  BY DEF NpmInv, ExchangeIsOrderly
<1>3. got[p] = "bytes" =>
        net[p].ended /\ net[p].total \in 1..MaxChunks /\ net[p].declared \in {Missing, net[p].total}
  BY DEF NpmInv, NpmIsTrusted, DownloadIsWhole
<1>4. UNCHANGED <<pc, kept, dirs>> /\ net[p].state \in {"asked", "body"} /\ pc[p] # "start"
  BY <1>2 DEF Network, Respond, Data, End, Breaks, Close, TimesOut, Asked, Body
<1>5. got = [got EXCEPT ![p] = got[p]] /\ got[p] \in {"none", "bytes", "error"}
  BY <1>1
\* An event that changes only how the connection stands.
<1>6. ASSUME NEW state \in {"asked", "body", "over"}, NEW destroyed \in BOOLEAN, NEW settled \in {"none", "bytes", "error"},
             state = "asked" => net[p].state = "asked", net[p].destroyed => destroyed,
             net' = [net EXCEPT ![p].state = state, ![p].destroyed = destroyed],
             got' = [got EXCEPT ![p] = settled], settled = "bytes" => got[p] = "bytes"
      PROVE  NpmInv'
  <2> DEFINE exchange == [net[p] EXCEPT !.state = state, !.destroyed = destroyed]
  <2>1. exchange \in Exchange /\ net' = [net EXCEPT ![p] = exchange]
    BY <1>1, <1>6 DEF Exchange
  <2>2. /\ exchange.state = state /\ exchange.destroyed = destroyed /\ exchange.total = net[p].total
        /\ exchange.ended = net[p].ended /\ exchange.declared = net[p].declared
    BY <1>1 DEF Exchange
  <2> HIDE DEF exchange
  <2>3. exchange.state \notin {"idle", "asked"} \/ (exchange.total = 0 /\ ~exchange.ended)
    BY <1>2, <1>6, <2>2
  <2>4. exchange.total > MaxChunks => exchange.destroyed
    BY <1>2, <1>6, <2>2
  <2>5. settled = "bytes" => exchange.ended /\ exchange.total \in 1..MaxChunks
                               /\ exchange.declared \in {Missing, exchange.total}
    BY <1>3, <1>6, <2>2
  <2>6. QED
    BY <1>4, <1>6, <2>1, <2>3, <2>4, <2>5, EventKeepsInv
<1>7. CASE Respond(p)
  <2>1. net[p].state = "asked" /\ got[p] # "bytes"
    BY <1>2, <1>3, <1>7 DEF Respond, Asked
  <2>2. CASE net' = [net EXCEPT ![p].state = "over"] /\ Finish(p, "error")
    <3>1. net' = [net EXCEPT ![p].state = "over", ![p].destroyed = net[p].destroyed] /\ net[p].destroyed \in BOOLEAN
      BY <1>1, <2>2 DEF Exchange
    <3>2. QED
      BY <1>6, <2>2, <3>1, FinishSettles
  <2>3. CASE net' = [net EXCEPT ![p].destroyed = TRUE] /\ got' = got
    <3>1. net' = [net EXCEPT ![p].state = net[p].state, ![p].destroyed = TRUE]
      BY <1>1, <2>3 DEF Exchange
    <3>2. QED
      BY <1>4, <1>5, <1>6, <2>3, <3>1
  <2>4. ASSUME NEW declared \in 1..MaxChunks \union {Missing}, NEW altered \in BOOLEAN, got' = got,
               net' = [net EXCEPT ![p].state = "body", ![p].declared = declared, ![p].altered = altered]
        PROVE  NpmInv'
    <3> DEFINE exchange == [net[p] EXCEPT !.state = "body", !.declared = declared, !.altered = altered]
    <3>1. exchange \in Exchange /\ net' = [net EXCEPT ![p] = exchange]
      BY <1>1, <2>4 DEF Exchange
    <3>2. exchange.state = "body" /\ exchange.total = net[p].total /\ exchange.destroyed = net[p].destroyed
      BY <1>1 DEF Exchange
    <3> HIDE DEF exchange
    <3>3. QED
      BY <1>2, <1>4, <1>5, <2>1, <2>4, <3>1, <3>2, EventKeepsInv
  <2>5. QED
    BY <1>7, <2>2, <2>3, <2>4 DEF Respond
<1>8. CASE Data(p)
  <2> DEFINE destroyed == net[p].destroyed \/ net[p].total = MaxChunks
             exchange == [net[p] EXCEPT !.total = net[p].total + 1, !.destroyed = destroyed]
  <2>1. destroyed \in BOOLEAN /\ net[p].total \in 0..MaxChunks /\ got[p] # "bytes" /\ net[p].state = "body" /\ got' = got
    BY <1>1, <1>2, <1>3, <1>8, NpmAssumption DEF Data, Body, Exchange
  <2>2. destroyed <=> net[p].total = MaxChunks
    BY <1>8 DEF Data, Body
  <2>3. net' = [net EXCEPT ![p].total = net[p].total + 1, ![p].destroyed = destroyed]
    BY <1>1, <1>8 DEF Data
  <2> HIDE DEF destroyed
  <2>4. exchange \in Exchange /\ net' = [net EXCEPT ![p] = exchange]
    <3>1. net[p].total + 1 \in 0..(MaxChunks + 1)
      BY <2>1, NpmAssumption
    <3>2. exchange \in Exchange
      BY <1>1, <2>1, <3>1 DEF Exchange
    <3>3. net' = [net EXCEPT ![p] = exchange]
      BY <1>1, <2>3
    <3>4. QED
      BY <3>2, <3>3
  <2>5. exchange.state = "body" /\ exchange.total = net[p].total + 1 /\ exchange.destroyed = destroyed
    BY <1>1, <2>1 DEF Exchange
  <2> HIDE DEF exchange
  <2>6. exchange.total > MaxChunks => exchange.destroyed
    BY <2>1, <2>2, <2>5, NpmAssumption
  <2>7. QED
    BY <1>4, <1>5, <2>1, <2>4, <2>5, <2>6, EventKeepsInv
<1>9. CASE End(p)
  <2> DEFINE exchange == [net[p] EXCEPT !.ended = TRUE]
  <2>1. exchange \in Exchange /\ net' = [net EXCEPT ![p] = exchange] /\ net[p].state = "body" /\ ~net[p].destroyed
    BY <1>1, <1>9 DEF End, Body, Exchange
  <2>2. /\ exchange.state = "body" /\ exchange.total = net[p].total /\ exchange.destroyed = net[p].destroyed
        /\ exchange.ended = TRUE /\ exchange.declared = net[p].declared
    BY <1>1, <2>1 DEF Exchange
  <2> HIDE DEF exchange
  <2>3. PICK settled \in {"none", "bytes", "error"} :
          /\ got' = [got EXCEPT ![p] = settled]
          /\ settled = "bytes" => got[p] = "bytes" \/ LengthIsRight(p)
    BY <1>9, FinishSettles DEF End
  <2>4. settled = "bytes" => net[p].total \in 1..MaxChunks /\ net[p].declared \in {Missing, net[p].total}
    BY <1>1, <1>2, <1>3, <2>1, <2>3, NpmAssumption DEF LengthIsRight, Exchange
  <2>5. QED
    BY <1>2, <1>4, <2>1, <2>2, <2>3, <2>4, EventKeepsInv
<1>10. CASE Breaks(p) \/ Close(p)
  <2>1. net' = [net EXCEPT ![p].state = "over", ![p].destroyed = net[p].destroyed] /\ net[p].destroyed \in BOOLEAN
    BY <1>1, <1>10 DEF Breaks, Close, Exchange
  <2>2. got' = got \/ Finish(p, "error")
    BY <1>10 DEF Breaks, Close
  <2>3. QED
    BY <1>5, <1>6, <2>1, <2>2, FinishSettles
<1>11. CASE TimesOut(p)
  <2>1. net' = [net EXCEPT ![p].state = net[p].state, ![p].destroyed = TRUE] /\ got' = got
    BY <1>1, <1>11 DEF TimesOut, Exchange
  <2>2. QED
    BY <1>4, <1>5, <1>6, <2>1
<1>12. QED
  BY <1>7, <1>8, <1>9, <1>10, <1>11 DEF Network

(***************************************************************************)
(* The trusted npm: its file and its users.                                *)
(***************************************************************************)

\* A provisioner that moves on keeps the private directories as they are: it holds none itself.
LEMMA ProvisionsKeepDirectories ==
  ASSUME NpmInv, NEW p \in Provisioner, Provisions(p)
  PROVE  DirectoriesAreHeld' /\ NoDirectoryIsLeft'
<1>1. dirs' = dirs /\ pc[p] \in {"start", "download", "write", "writing", "verify"}
  BY DEF Provisions, Provision, Downloaded, Create, Written, Verified
<1>2. \A u \in User : u # p => pc'[u] = pc[u]
  BY DEF NpmInv, NpmTypeOK, Provisions, Provision, Downloaded, Create, Written, Verified, Goto
<1>3. p \in User => \A kind \in {"release", "tools", "home"} : <<p, kind>> \notin dirs
  BY <1>1 DEF NpmInv, DirectoriesAreHeld, Holdings
<1>4. QED
  BY <1>1, <1>2, <1>3 DEF NpmInv, NpmIsTrusted, DirectoriesAreHeld, NoDirectoryIsLeft

\* The steps of a provisioner.
LEMMA ProvisionsKeepsInv ==
  ASSUME NpmInv, NEW p \in Provisioner, Provisions(p)
  PROVE  NpmInv'
<1> DEFINE File == [by : Provisioner \union {"before"}, content : {"audited", "other"}]
           Own(q) == kept # Missing /\ kept.by = q
<1>1. /\ net \in [Provisioner -> Exchange] /\ got \in [Provisioner -> {"none", "bytes", "error"}]
      /\ pc \in [Provisioner \union User -> Places] /\ kept \in {Missing} \union File
      /\ dirs \subseteq User \X {"release", "tools", "home"}
  BY DEF NpmInv, NpmTypeOK
<1>2. \A q \in Provisioner :
        /\ pc[q] \in {"writing", "verify", "provisioned"} => Own(q)
        /\ pc[q] = "verify" => kept.content = "audited"
        /\ pc[q] = "provisioned" => kept.content = "audited"
  BY DEF NpmInv, NpmIsTrusted, FileIsOwn, ProvisionedIsAudited
<1>3. got' = got /\ dirs' = dirs
  BY DEF Provisions, Provision, Downloaded, Create, Written, Verified
<1>4. PICK place \in Places :
        /\ pc' = [pc EXCEPT ![p] = place] /\ place # "start"
        /\ place \in {"writing", "verify", "provisioned"} =>
             kept' # Missing /\ kept'.by = p /\ (place # "writing" => kept'.content = "audited")
  <2>1. CASE Provision(p)
    BY <2>1 DEF Provision, Goto, Places
  <2>2. CASE Downloaded(p)
    BY <2>2 DEF Downloaded, Goto, Places
  <2>3. CASE Create(p)
    BY <2>3, NpmAssumption DEF Create, Goto, Places
  <2>4. CASE Written(p)
    <3>1. Own(p) /\ kept \in File
      BY <1>1, <1>2, <2>4 DEF Written
    <3>2. [kept EXCEPT !.content = "audited"] \in File /\ [kept EXCEPT !.content = "audited"].by = p
            /\ [kept EXCEPT !.content = "audited"].content = "audited"
      BY <3>1
    <3>3. QED
      BY <2>4, <3>1, <3>2, NpmAssumption DEF Written, Goto, Places
  <2>5. CASE Verified(p)
    BY <1>2, <2>5 DEF Verified, Goto, Places
  <2>6. QED
    BY <2>1, <2>2, <2>3, <2>4, <2>5 DEF Provisions
<1>5. /\ kept' \in {Missing} \union File
      /\ kept' # kept => (kept = Missing \/ kept.by = p)
  <2>1. CASE Create(p)
    BY <1>1, <2>1 DEF Create
  <2>2. CASE Written(p) \/ Verified(p)
    <3>1. Own(p) /\ kept \in File
      BY <1>1, <1>2, <2>2 DEF Written, Verified
    <3>2. [kept EXCEPT !.content = "audited"] \in File
      BY <3>1
    <3>3. QED
      BY <2>2, <3>1, <3>2 DEF Written, Verified
  <2>3. CASE Provision(p) \/ Downloaded(p)
    BY <1>1, <2>3 DEF Provision, Downloaded
  <2>4. QED
    BY <2>1, <2>2, <2>3 DEF Provisions
<1>6. pc'[p] = place /\ \A q \in Provisioner : q # p => pc'[q] = pc[q]
  BY <1>1, <1>4
\* No other provisioner relies on a file that this one may change: it is not theirs.
<1>7. ASSUME NEW q \in Provisioner
      PROVE  /\ pc'[q] \in {"writing", "verify", "provisioned"} => kept' # Missing /\ kept'.by = q
             /\ pc'[q] \in {"verify", "provisioned"} => kept'.content = "audited"
  <2>1. CASE q = p
    BY <1>4, <1>6, <2>1
  <2>2. CASE q # p
    <3>1. pc[q] \in {"writing", "verify", "provisioned"} => kept' = kept
      BY <1>2, <1>5, <2>2
    <3>2. QED
      BY <1>2, <1>6, <2>2, <3>1
  <2>3. QED
    BY <2>1, <2>2
<1>8. FileIsOwn' /\ ProvisionedIsAudited'
  BY <1>7 DEF FileIsOwn, ProvisionedIsAudited
<1>9. /\ net' \in [Provisioner -> Exchange]
      /\ \A q \in Provisioner : q # p => net'[q] = net[q]
      /\ \/ net' = net
         \/ net'[p] = [NoExchange EXCEPT !.state = "asked"] /\ got[p] = "none"
  <2>1. CASE Provision(p)
    <3>1. [NoExchange EXCEPT !.state = "asked"] \in Exchange
      <4>1. NoExchange \in Exchange
        BY NpmAssumption DEF NoExchange, Exchange
      <4>2. QED
        BY <4>1 DEF Exchange
    <3>2. got[p] = "none"
      BY <2>1 DEF Provision, NpmInv, ExchangeIsOrderly
    <3>3. QED
      BY <1>1, <2>1, <3>1, <3>2 DEF Provision, Ask
  <2>2. CASE ~Provision(p)
    BY <1>1, <2>2 DEF Provisions, Downloaded, Create, Written, Verified
  <2>3. QED
    BY <2>1, <2>2
<1>10. ExchangeIsOrderly'
  <2> SUFFICES ASSUME NEW q \in Provisioner
               PROVE  /\ net'[q].state \in {"idle", "asked"} => net'[q].total = 0 /\ ~net'[q].ended
                      /\ net'[q].total > MaxChunks => net'[q].destroyed
                      /\ pc'[q] = "start" => net'[q].state = "idle" /\ got'[q] = "none"
    BY DEF ExchangeIsOrderly
  <2>1. CASE net'[q] = net[q]
    BY <1>3, <1>4, <1>6, <2>1 DEF NpmInv, ExchangeIsOrderly
  <2>2. CASE net'[q] # net[q]
    <3>1. q = p /\ net'[p] = [NoExchange EXCEPT !.state = "asked"]
      BY <1>9, <2>2
    <3>2. net'[p].state = "asked" /\ net'[p].total = 0 /\ net'[p].ended = FALSE
      BY <3>1 DEF NoExchange
    <3>3. pc'[p] # "start" /\ ~(0 > MaxChunks)
      BY <1>4, <1>6, NpmAssumption
    <3>4. QED
      BY <3>1, <3>2, <3>3
  <2>3. QED
    BY <2>1, <2>2
<1>11. DownloadIsWhole'
  BY <1>3, <1>9 DEF NpmInv, NpmIsTrusted, DownloadIsWhole
<1>12. NpmTypeOK'
  BY <1>1, <1>3, <1>4, <1>5, <1>9 DEF NpmTypeOK
<1>13. QED
  BY <1>8, <1>10, <1>11, <1>12, ProvisionsKeepDirectories DEF NpmInv, NpmIsTrusted

\* A user only makes and removes directories of its own, and goes where it may hold them.
LEMMA UserKeepsInv ==
  ASSUME NpmInv, NEW u \in User, NEW place \in Places, pc' = [pc EXCEPT ![u] = place], UNCHANGED <<net, got, kept>>,
         place \notin {"start", "writing", "verify", "provisioned"},
         \/ \E kind \in Holdings(place) : MakeDir(u, kind) /\ Holdings(pc[u]) \subseteq Holdings(place)
         \/ dirs' = dirs /\ Holdings(pc[u]) \subseteq Holdings(place)
         \/ \E kinds : RemoveDirs(u, kinds) /\ Holdings(pc[u]) \subseteq kinds
  PROVE  NpmInv'
<1>1. /\ pc \in [Provisioner \union User -> Places] /\ dirs \subseteq User \X {"release", "tools", "home"}
      /\ \A v \in User, kind \in {"release", "tools", "home"} : <<v, kind>> \in dirs => kind \in Holdings(pc[v])
  BY DEF NpmInv, NpmTypeOK, DirectoriesAreHeld
<1>2. pc'[u] = place /\ (\A q \in Provisioner \union User : q # u => pc'[q] = pc[q])
        /\ pc' \in [Provisioner \union User -> Places]
  BY <1>1
<1>3. Holdings(place) \subseteq {"release", "tools", "home"}
  BY DEF Holdings
<1>4. dirs' \subseteq User \X {"release", "tools", "home"}
  BY <1>1, <1>3 DEF MakeDir, RemoveDirs
<1>5. NpmTypeOK'
  BY <1>2, <1>4 DEF NpmInv, NpmTypeOK
<1>6. DirectoriesAreHeld'
  <2> SUFFICES ASSUME NEW v \in User, NEW kind \in {"release", "tools", "home"}, <<v, kind>> \in dirs'
               PROVE  kind \in Holdings(pc'[v])
    BY DEF DirectoriesAreHeld
  <2>1. CASE v # u
    <3>1. <<v, kind>> \in dirs
      BY <2>1 DEF MakeDir, RemoveDirs
    <3>2. QED
      BY <1>1, <1>2, <2>1, <3>1
  <2>2. CASE v = u
    <3>1. CASE \E k \in Holdings(place) : MakeDir(u, k) /\ Holdings(pc[u]) \subseteq Holdings(place)
      BY <1>1, <1>2, <2>2, <3>1 DEF MakeDir
    <3>2. CASE dirs' = dirs /\ Holdings(pc[u]) \subseteq Holdings(place)
      BY <1>1, <1>2, <2>2, <3>2
    <3>3. CASE \E kinds : RemoveDirs(u, kinds) /\ Holdings(pc[u]) \subseteq kinds
      BY <1>1, <1>2, <2>2, <3>3 DEF RemoveDirs
    <3>4. QED
      BY <3>1, <3>2, <3>3
  <2>3. QED
    BY <2>1, <2>2
<1>7. NoDirectoryIsLeft'
  BY <1>6 DEF DirectoriesAreHeld, NoDirectoryIsLeft, Holdings
<1>8. FileIsOwn' /\ ProvisionedIsAudited' /\ ExchangeIsOrderly' /\ DownloadIsWhole'
  BY <1>1, <1>2 DEF NpmInv, NpmIsTrusted, FileIsOwn, ProvisionedIsAudited, ExchangeIsOrderly, DownloadIsWhole
<1>9. QED
  BY <1>5, <1>6, <1>7, <1>8 DEF NpmInv, NpmIsTrusted

\* The steps of a user of the provisioned npm.
LEMMA UsesKeepsInv ==
  ASSUME NpmInv, NEW u \in User, Uses(u)
  PROVE  NpmInv'
<1>1. /\ Holdings("start") = {} /\ Holdings("unpack") = {} /\ Holdings("failed") = {} /\ Holdings("done") = {}
      /\ Holdings("extract") = {"release"} /\ Holdings("tools") = {"release"}
      /\ Holdings("link") = {"release", "tools"} /\ Holdings("home") = {"release", "tools"}
      /\ Holdings("configure") = {"release", "tools", "home"} /\ Holdings("command") = {"release", "tools", "home"}
      /\ Holdings("abandoned") = {"release", "tools", "home"}
  BY DEF Holdings
<1>2. {"unpack", "failed", "extract", "tools", "link", "home", "configure", "command", "abandoned", "done"} \subseteq Places
  BY DEF Places
<1>3. CASE Resolve(u)
  BY <1>1, <1>2, <1>3, UserKeepsInv DEF Resolve, Goto
<1>4. CASE MakeRelease(u)
  BY <1>1, <1>2, <1>4, UserKeepsInv DEF MakeRelease, Goto
<1>5. CASE Extract(u)
  BY <1>1, <1>2, <1>5, UserKeepsInv DEF Extract, Goto
<1>6. CASE MakeTools(u)
  BY <1>1, <1>2, <1>6, UserKeepsInv DEF MakeTools, Goto
<1>7. CASE LinkTools(u)
  BY <1>1, <1>2, <1>7, UserKeepsInv DEF LinkTools, Goto
<1>8. CASE MakeHome(u)
  BY <1>1, <1>2, <1>8, UserKeepsInv DEF MakeHome, Goto
<1>9. CASE Configure(u)
  BY <1>1, <1>2, <1>9, UserKeepsInv DEF Configure, Goto
<1>10. CASE RunCommand(u)
  BY <1>1, <1>2, <1>10, UserKeepsInv DEF RunCommand, Goto
<1>11. QED
  BY <1>3, <1>4, <1>5, <1>6, <1>7, <1>8, <1>9, <1>10 DEF Uses

\* Every step keeps the invariant.
LEMMA NpmStepInv ==
  ASSUME NpmInv, NpmNext \/ UNCHANGED npmVars
  PROVE  NpmInv'
<1>1. CASE UNCHANGED npmVars
  BY <1>1 DEF npmVars, NpmInv, NpmTypeOK, ExchangeIsOrderly, FileIsOwn, DirectoriesAreHeld, NpmIsTrusted, DownloadIsWhole,
              ProvisionedIsAudited, NoDirectoryIsLeft
<1>2. CASE NpmNext
  BY <1>1, <1>2, NetworkKeepsInv, ProvisionsKeepsInv, UsesKeepsInv DEF NpmNext, NpmEnded
<1>3. QED
  BY <1>1, <1>2

\* Nothing has been fetched at first.
LEMMA NpmInitInv ==
  ASSUME NpmInit
  PROVE  NpmInv
<1>1. NoExchange \in Exchange /\ NoExchange.state = "idle" /\ NoExchange.total = 0 /\ NoExchange.ended = FALSE
  BY NpmAssumption DEF NoExchange, Exchange
<1>2. NpmTypeOK
  BY <1>1 DEF NpmInit, NpmTypeOK, Places
<1>3. ExchangeIsOrderly
  BY <1>1, NpmAssumption DEF NpmInit, ExchangeIsOrderly
<1>4. FileIsOwn /\ DirectoriesAreHeld /\ NpmIsTrusted
  BY DEF NpmInit, FileIsOwn, DirectoriesAreHeld, NpmIsTrusted, DownloadIsWhole, ProvisionedIsAudited, NoDirectoryIsLeft
<1>5. QED
  BY <1>2, <1>3, <1>4 DEF NpmInv

(***************************************************************************)
(* The jobs of the channels: what a job reads and decides.                 *)
(***************************************************************************)

\* The candidate of a job is what its release approves, under the commit it approves.
LEMMA CandidateIsApproved ==
  ASSUME NEW c \in Channel, ReadCandidate(c)
  PROVE  ReleaseIsRight(c) /\ [bytes |-> files[c].artifact, commit |-> source[c].commit] = Approved(c)
BY DEF ReadCandidate, InspectRelease, ValidateContext, ReleaseIsRight, Approved

\* What a release approved is an archive and a commit.
LEMMA ApprovedIsThere ==
  ASSUME TypeInv, NEW c \in Channel
  PROVE  Approved(c) \in [bytes : Archive, commit : Coordinate] /\ Approved(c) # None
<1>1. release[c].artifact \in Archive /\ release[c].commit \in Coordinate
  BY DEF TypeInv, Release
<1>2. Approved(c) \in [bytes : Archive, commit : Coordinate]
  BY <1>1 DEF Approved
<1>3. QED
  BY <1>2, ChannelAssumption DEF Archive, Coordinate

\* Each channel has a tag of its own.
LEMMA TagsDiffer ==
  ASSUME NEW c \in Channel, NEW d \in Channel, c # d
  PROVE  Tag(c) # Tag(d) /\ Tag(c) \in {"latest", "native-preview"}
BY ChannelAssumption DEF Tag

\* The parts of the invariant for one job, so that a step of one job is a fact about that one.
Known(c) ==
  LET p == registry.published[c] IN
  /\ p # None => (ReleaseIsRight(c) /\ p = Approved(c)) \/ ("publisher" \in faults /\ p \in Foreign)
  /\ p # None /\ "tags" \notin faults => registry.tags[Tag(c)] = c
  /\ shown.published[c] \in {None, p}

\* What a job in this state, with these retained files, has established.
SoundAs(c, j, f) ==
  /\ j.step \in {"guardTags", "publishTags", "call", "verifyTags"} =>
       ReleaseIsRight(c) /\ [bytes |-> j.bytes, commit |-> j.commit] = Approved(c)
  /\ j.step \in {"verifyTags", "install", "done", "succeeded"} => shown.published[c] = Approved(c)
  /\ j.why = "collision" => "publisher" \in faults
  /\ "files" \notin faults =>
       /\ j.step \in {"check", "host", "prepare", "packed"} => f.artifact = None
       /\ j.step \in {"check", "host", "prepare", "packed", "artifact"} => f.evidence = None
       /\ j.step = "failed" /\ j.why = "prepare" => f = [artifact |-> None, evidence |-> None]

\* What the job of a channel has established.
Sound(c) == SoundAs(c, job[c], files[c])

\* All the rest of the invariant follows from the types and these two.
LEMMA InvFromParts ==
  ChannelInv <=> TypeInv /\ \A c \in Channel : Known(c) /\ Sound(c)
<1>1. ASSUME ChannelInv PROVE TypeInv /\ \A c \in Channel : Known(c) /\ Sound(c)
  BY <1>1 DEF ChannelInv, PublicationIsKnown, DecisionIsApproved, InstalledIsShown, OutputsAreWritten,
              PublicationIsApproved, CollisionIsForeign, JobEndsTruly, FailedPrepareLeavesNothing, Known, Sound, SoundAs, Manifest
<1>2. ASSUME TypeInv, \A c \in Channel : Known(c) /\ Sound(c) PROVE ChannelInv
  <2>1. PublicationIsKnown /\ DecisionIsApproved /\ InstalledIsShown /\ OutputsAreWritten
    BY <1>2 DEF PublicationIsKnown, DecisionIsApproved, InstalledIsShown, OutputsAreWritten, Known, Sound, SoundAs, Manifest
  <2>2. PublishedIsApproved /\ CollisionIsForeign /\ FailedPrepareLeavesNothing
    BY <1>2 DEF PublishedIsApproved, CollisionIsForeign, FailedPrepareLeavesNothing, Known, Sound, SoundAs, Manifest
  <2>3. SuccessIsPublic
    <3>1. \A c \in Channel : Approved(c) # None
      BY <1>2, ApprovedIsThere
    <3>2. QED
      BY <1>2, <3>1 DEF SuccessIsPublic, Known, Sound, SoundAs
  <2>4. QED
    BY <1>2, <2>1, <2>2, <2>3 DEF ChannelInv, PublicationIsApproved, JobEndsTruly
<1>3. QED
  BY <1>1, <1>2

\* The invariant of the next state is that of each of its channels.
LEMMA NextFromParts ==
  (ChannelInv <=> TypeInv /\ \A c \in Channel : Known(c) /\ Sound(c))'
BY InvFromParts, PTL

\* What is known of the registry stays known while the registry does not change.
LEMMA KnownStays ==
  ASSUME ChannelInv, UNCHANGED <<release, registry, shown>>, faults \subseteq faults'
  PROVE  \A d \in Channel : Known(d)'
BY InvFromParts DEF Known, ReleaseIsRight, Approved, Foreign

\* A version that the registry accepts is the approved one, or that of another publisher.
LEMMA AcceptedIsKnown ==
  ASSUME ChannelInv, NEW c \in Channel, NEW content, Accept(c, content), registry.published[c] = None,
         content \in [bytes : Archive, commit : Coordinate],
         UNCHANGED <<release, shown>>, faults \subseteq faults',
         (ReleaseIsRight(c) /\ content = Approved(c)) \/ ("publisher" \in faults' /\ content \in Foreign)
  PROVE  registry' \in Document /\ \A d \in Channel : Known(d)'
<1>1. registry \in Document /\ shown \in Document /\ \A d \in Channel : Known(d)
  BY InvFromParts DEF TypeInv
<1>2. /\ registry' = [published |-> [registry.published EXCEPT ![c] = content],
                      tags |-> [registry.tags EXCEPT ![Tag(c)] = c]]
      /\ registry.published \in [Channel -> {None} \union [bytes : Archive, commit : Coordinate]] /\ registry.tags \in Tags
      /\ Tag(c) \in {"latest", "native-preview"}
  BY <1>1 DEF Accept, Document, Tag
<1>3. registry'.published \in [Channel -> {None} \union [bytes : Archive, commit : Coordinate]] /\ registry'.tags \in Tags
  BY <1>2 DEF Tags
<1>4. registry' \in Document
  BY <1>2, <1>3 DEF Document
<1>5. ASSUME NEW d \in Channel PROVE Known(d)'
  <2>1. CASE d = c
    <3>1. registry'.published[d] = content /\ registry'.tags[Tag(d)] = c
      BY <1>2, <2>1 DEF Tags
    <3>2. shown.published[d] = None
      BY <1>1, <2>1 DEF Known
    <3>3. QED
      BY <2>1, <3>1, <3>2 DEF Known, ReleaseIsRight, Approved, Foreign
  <2>2. CASE d # c
    <3>1. registry'.published[d] = registry.published[d] /\ registry'.tags[Tag(d)] = registry.tags[Tag(d)]
      BY <1>2, <2>2, TagsDiffer DEF Tags
    <3>2. QED
      BY <1>1, <3>1 DEF Known, ReleaseIsRight, Approved, Foreign
  <2>3. QED
    BY <2>1, <2>2
<1>6. QED
  BY <1>4, <1>5

\* A step of a job: it becomes j, with the outputs f, and the other jobs are where they were.
LEMMA RunKeepsInv ==
  ASSUME ChannelInv, NEW c \in Channel, NEW j \in Run, NEW f \in Retained,
         job' = [job EXCEPT ![c] = j], files' = [files EXCEPT ![c] = f], j.runs <= bound.runs,
         source' \in [Channel -> Origin], registry' \in Document, \A d \in Channel : Known(d)',
         UNCHANGED <<release, shown, faults, bound>>, SoundAs(c, j, f)
  PROVE  ChannelInv'
<1>1. TypeInv /\ \A d \in Channel : Sound(d)
  BY InvFromParts
<1>2. /\ job'[c] = j /\ files'[c] = f
      /\ \A d \in Channel : d # c => job'[d] = job[d] /\ files'[d] = files[d]
  BY <1>1 DEF TypeInv
<1>3. TypeInv'
  BY <1>1, <1>2 DEF TypeInv
<1>4. ASSUME NEW d \in Channel PROVE Sound(d)'
  <2>1. SoundAs(d, job'[d], files'[d])
    BY <1>1, <1>2 DEF Sound
  <2>2. QED
    BY <2>1 DEF Sound, SoundAs, ReleaseIsRight, Approved
<1>5. (TypeInv /\ \A d \in Channel : Known(d) /\ Sound(d))'
  BY <1>3, <1>4
<1>6. QED
  BY <1>5, NextFromParts

(***************************************************************************)
(* The steps of a job.                                                     *)
(***************************************************************************)

\* A run at another step is a run.
LEMMA StepOfRun ==
  ASSUME NEW r \in Run, NEW step \in Step
  PROVE  /\ [r EXCEPT !.step = step] \in Run
         /\ [r EXCEPT !.step = step, !.tries = 0] \in Run
         /\ [r EXCEPT !.step = step, !.tries = 0].runs = r.runs
<1> DEFINE n == 0..(Attempts - 1)
           Rec == [step : Step, runs : Nat, bytes : Archive \union {None}, commit : Coordinate \union {None},
                   before : Tags \union {None}, publish : BOOLEAN, tries : n, why : Reason]
           q == [r EXCEPT !.step = step]
<1>1. 0 \in n
  BY ChannelAssumption
<1>2. r \in Rec /\ Run = Rec
  BY DEF Run
<1> HIDE DEF n
<1>3. q \in Rec /\ q.runs = r.runs
  BY <1>2
<1> HIDE DEF q
<1>4. [q EXCEPT !.tries = 0] \in Rec /\ [q EXCEPT !.tries = 0].runs = q.runs
  BY <1>1, <1>3
<1>5. [r EXCEPT !.step = step, !.tries = 0] = [q EXCEPT !.tries = 0]
  BY DEF q
<1> HIDE DEF Rec
<1>6. QED
  BY <1>2, <1>3, <1>4, <1>5 DEF q

\* A job goes on to its next step, with the outputs f.
LEMMA GoesOn ==
  ASSUME ChannelInv, NEW c \in Channel, NEW step \in Step, NEW f \in Retained,
         To(c, step), files' = [files EXCEPT ![c] = f], UNCHANGED <<release, source, registry, shown, faults, bound>>,
         SoundAs(c, [job[c] EXCEPT !.step = step, !.tries = 0], f)
  PROVE  ChannelInv'
<1> DEFINE j == [job[c] EXCEPT !.step = step, !.tries = 0]
<1>1. TypeInv /\ job[c] \in Run /\ job[c].runs <= bound.runs
  BY InvFromParts DEF TypeInv
<1>2. j \in Run /\ j.runs = job[c].runs
  BY <1>1, StepOfRun
<1>3. job' = [job EXCEPT ![c] = j]
  BY <1>1 DEF To, TypeInv
<1>4. SoundAs(c, j, f) /\ \A d \in Channel : Known(d)'
  BY KnownStays
<1>5. source' \in [Channel -> Origin] /\ registry' \in Document
  BY <1>1 DEF TypeInv
<1> HIDE DEF j
<1>6. QED
  BY <1>1, <1>2, <1>3, <1>4, <1>5, RunKeepsInv

\* A job fails: for a collision only if there was another publisher, in prepare without outputs.
LEMMA FailKeepsInv ==
  ASSUME ChannelInv, NEW c \in Channel, NEW why \in Reason, NEW f \in Retained,
         Fail(c, why), files' = [files EXCEPT ![c] = f], source' \in [Channel -> Origin],
         registry' \in Document, \A d \in Channel : Known(d)', UNCHANGED <<release, source, shown, faults, bound>>,
         why = "collision" => "publisher" \in faults,
         why = "prepare" /\ "files" \notin faults => f = [artifact |-> None, evidence |-> None]
  PROVE  ChannelInv'
<1> DEFINE j == [job[c] EXCEPT !.step = "failed", !.why = why]
<1>1. TypeInv /\ job[c] \in Run /\ job[c].runs <= bound.runs
  BY InvFromParts DEF TypeInv
<1>2. j \in Run /\ j.runs = job[c].runs /\ j.step = "failed" /\ j.why = why
  BY <1>1 DEF Run, Step
<1>3. job' = [job EXCEPT ![c] = j]
  BY <1>1 DEF Fail, TypeInv
<1> HIDE DEF j
<1>4. SoundAs(c, j, f)
  BY <1>2 DEF SoundAs
<1>5. QED
  BY <1>1, <1>2, <1>3, <1>4, RunKeepsInv

\* A step that looks at something and goes on if it is right, or fails.
LEMMA GivenKeepsInv ==
  ASSUME ChannelInv, NEW c \in Channel, NEW ok \in BOOLEAN, NEW step \in Step, NEW why \in Reason \ {"collision", "prepare"},
         Given(c, ok, step, why), Rest,
         ok => SoundAs(c, [job[c] EXCEPT !.step = step, !.tries = 0], files[c])
  PROVE  ChannelInv'
<1>1. files[c] \in Retained /\ files' = [files EXCEPT ![c] = files[c]]
  BY InvFromParts DEF TypeInv, Rest
<1>2. CASE ok
  <2>1. To(c, step)
    BY <1>2 DEF Given
  <2>2. SoundAs(c, [job[c] EXCEPT !.step = step, !.tries = 0], files[c])
    BY <1>2
  <2>3. QED
    BY <1>1, <2>1, <2>2, GoesOn DEF Rest
<1>3. CASE ~ok
  <2>1. source' \in [Channel -> Origin] /\ registry' \in Document /\ \A d \in Channel : Known(d)'
    BY InvFromParts, KnownStays DEF TypeInv, Rest
  <2>2. Fail(c, why) /\ why \in Reason /\ why # "collision" /\ why # "prepare"
    BY <1>3 DEF Given
  <2>3. QED
    BY <1>1, <2>1, <2>2, FailKeepsInv DEF Rest
<1>4. QED
  BY <1>2, <1>3

\* What is asked of the next step of a job that goes on with what it has.
LEMMA SoundNext ==
  ASSUME ChannelInv, NEW c \in Channel, NEW step \in Step, NEW f \in Retained, step # "failed",
         step \in {"guardTags", "publishTags", "call", "verifyTags"} => ReleaseIsRight(c) /\ Manifest(c) = Approved(c),
         step \in {"verifyTags", "install", "done", "succeeded"} => shown.published[c] = Approved(c),
         "files" \notin faults =>
           /\ step \in {"check", "host", "prepare", "packed"} => f.artifact = None
           /\ step \in {"check", "host", "prepare", "packed", "artifact"} => f.evidence = None
  PROVE  SoundAs(c, [job[c] EXCEPT !.step = step, !.tries = 0], f)
<1> DEFINE j == [job[c] EXCEPT !.step = step, !.tries = 0]
<1>1. job[c] \in Run /\ Sound(c)
  BY InvFromParts DEF TypeInv
<1>2. j.step = step /\ j.bytes = job[c].bytes /\ j.commit = job[c].commit /\ j.why = job[c].why
  BY <1>1 DEF Run
<1> HIDE DEF j
<1>3. SoundAs(c, j, f)
  BY <1>1, <1>2 DEF Sound, SoundAs, Manifest
<1>4. QED
  BY <1>3 DEF j

\* The commands that look at the source, at the candidate or at the tags, and keep what they have.
LEMMA LooksKeepInv ==
  ASSUME ChannelInv, NEW c \in Channel,
         \/ Check(c) \/ SourceHost(c) \/ Smoke(c) \/ GuardTags(c) \/ PublishTags(c) \/ PublicInstall(c)
  PROVE  ChannelInv'
<1>1. files[c] \in Retained /\ files' = files => files' = [files EXCEPT ![c] = files[c]]
  BY InvFromParts DEF TypeInv
<1>2. files[c] \in Retained /\ job[c] \in Run /\ Sound(c)
  BY InvFromParts DEF TypeInv
<1>3. /\ InspectRelease(c) \in BOOLEAN /\ InspectSource(c) \in BOOLEAN /\ ReadCandidate(c) \in BOOLEAN
      /\ "source" \in Reason \ {"collision", "prepare"} /\ "candidate" \in Reason \ {"collision", "prepare"}
      /\ "channel" \in Reason \ {"collision", "prepare"}
      /\ \A step \in {"host", "prepare", "guard", "publish", "call", "verify", "done"} : step \in Step /\ step # "failed"
  <2>1. source[c] \in Origin
    BY InvFromParts DEF TypeInv
  <2>2. source[c].clean \in BOOLEAN /\ source[c].conforming \in BOOLEAN /\ source[c].main \in BOOLEAN
    BY <2>1 DEF Origin
  <2>3. InspectRelease(c) \in BOOLEAN /\ InspectSource(c) \in BOOLEAN /\ ReadCandidate(c) \in BOOLEAN
    BY <2>2 DEF InspectRelease, InspectSource, ReadCandidate, ValidateContext, ValidateArtifact
  <2>4. QED
    BY <2>3, ChannelAssumption DEF Reason, Step
<1>4. CASE Check(c)
  <2>1. SoundAs(c, [job[c] EXCEPT !.step = "host", !.tries = 0], files[c])
    BY <1>2, <1>3, <1>4, SoundNext DEF Check, Sound, SoundAs
  <2>2. QED
    BY <1>3, <1>4, <2>1, GivenKeepsInv DEF Check
<1>5. CASE SourceHost(c)
  <2>1. SoundAs(c, [job[c] EXCEPT !.step = "prepare", !.tries = 0], files[c])
    BY <1>2, <1>3, <1>5, SoundNext DEF SourceHost, Sound, SoundAs
  <2>2. QED
    BY <1>3, <1>5, <2>1, GivenKeepsInv DEF SourceHost
<1>6. CASE Smoke(c)
  <2>1. SoundAs(c, [job[c] EXCEPT !.step = "guard", !.tries = 0], files[c])
    BY <1>2, <1>3, SoundNext
  <2>2. QED
    BY <1>3, <1>6, <2>1, GivenKeepsInv DEF Smoke
<1>7. CASE PublicInstall(c)
  <2>1. SoundAs(c, [job[c] EXCEPT !.step = "done", !.tries = 0], files[c])
    <3>1. shown.published[c] = Approved(c)
      BY <1>2, <1>7 DEF PublicInstall, Sound, SoundAs
    <3>2. QED
      BY <1>2, <1>3, <3>1, SoundNext
  <2>2. (ReadCandidate(c) /\ SameMembers(c)) \in BOOLEAN
    BY DEF SameMembers
  <2>3. QED
    BY <1>3, <1>7, <2>1, <2>2, GivenKeepsInv DEF PublicInstall
<1>8. ASSUME GuardTags(c) \/ PublishTags(c)
      PROVE  ReleaseIsRight(c) /\ Manifest(c) = Approved(c) /\ Rest
  <2>1. job[c].step \in {"guardTags", "publishTags"} /\ Rest
    BY <1>8 DEF GuardTags, PublishTags
  <2>2. QED
    BY <1>2, <2>1 DEF Sound, SoundAs, Manifest
<1>9. ASSUME Fail(c, "channel"), Rest PROVE ChannelInv'
  <2>1. Given(c, FALSE, "host", "channel")
    BY <1>9 DEF Given
  <2>2. QED
    BY <1>3, <1>9, <2>1, GivenKeepsInv
<1>10. CASE GuardTags(c)
  <2>1. SoundAs(c, [job[c] EXCEPT !.step = "publish", !.tries = 0], files[c])
    BY <1>2, <1>3, SoundNext
  <2>2. (ReadCandidate(c) \/ job[c].publish) \in BOOLEAN
    OBVIOUS
  <2>3. CASE Fail(c, "channel")
    BY <1>8, <1>9, <1>10, <2>3
  <2>4. CASE Given(c, ReadCandidate(c) \/ job[c].publish, "publish", "candidate")
    BY <1>3, <1>8, <1>10, <2>1, <2>2, <2>4, GivenKeepsInv
  <2>5. QED
    BY <1>10, <2>3, <2>4 DEF GuardTags
<1>11. CASE PublishTags(c)
  <2>1. SoundAs(c, [job[c] EXCEPT !.step = "call", !.tries = 0], files[c])
    BY <1>2, <1>3, <1>8, <1>11, SoundNext
  <2>2. SoundAs(c, [job[c] EXCEPT !.step = "verify", !.tries = 0], files[c])
    BY <1>2, <1>3, SoundNext
  <2>3. (ReadCandidate(c) /\ files[c].artifact = job[c].bytes) \in BOOLEAN
    OBVIOUS
  <2>4. CASE Fail(c, "channel")
    BY <1>8, <1>9, <1>11, <2>4
  <2>5. CASE Given(c, ReadCandidate(c) /\ files[c].artifact = job[c].bytes, "call", "candidate")
    BY <1>3, <1>8, <1>11, <2>1, <2>3, <2>5, GivenKeepsInv
  <2>6. CASE Given(c, ReadCandidate(c), "verify", "candidate")
    BY <1>3, <1>8, <1>11, <2>2, <2>6, GivenKeepsInv
  <2>7. QED
    BY <1>11, <2>4, <2>5, <2>6 DEF PublishTags
<1>12. QED
  BY <1>4, <1>5, <1>6, <1>7, <1>10, <1>11

\* A decision is of the candidate, and of the registry: what is there and is not its own is another's.
LEMMA DecideKeepsInv ==
  ASSUME ChannelInv, NEW c \in Channel, NEW step \in {"guardTags", "publishTags", "verifyTags"}, Decide(c, step), Rest,
         step = "verifyTags" => ~(ReadCandidate(c) /\ Absent(c))
  PROVE  ChannelInv'
<1>1. /\ TypeInv /\ files[c] \in Retained /\ job[c] \in Run /\ job[c].runs <= bound.runs /\ Known(c) /\ Sound(c)
      /\ files' = [files EXCEPT ![c] = files[c]] /\ source' \in [Channel -> Origin] /\ registry' \in Document
      /\ \A d \in Channel : Known(d)'
  BY InvFromParts, KnownStays DEF TypeInv, Rest
<1>2. CASE ~ReadCandidate(c)
  BY <1>1, <1>2, FailKeepsInv, ChannelAssumption DEF Decide, Reason, Rest
<1>3. CASE ReadCandidate(c) /\ ~(Absent(c) \/ Identical(c))
  <2>1. ReleaseIsRight(c) /\ [bytes |-> files[c].artifact, commit |-> source[c].commit] = Approved(c)
    BY <1>3, CandidateIsApproved
  <2>2. shown.published[c] # None /\ shown.published[c] # Approved(c)
    BY <1>3, <2>1 DEF Absent, Identical
  <2>3. "publisher" \in faults
    BY <1>1, <2>1, <2>2 DEF Known
  <2>4. Fail(c, "collision") /\ "collision" \in Reason
    BY <1>3 DEF Decide, Reason
  <2>5. QED
    BY <1>1, <2>3, <2>4, FailKeepsInv DEF Rest
<1>4. CASE ReadCandidate(c) /\ (Absent(c) \/ Identical(c))
  <2> DEFINE bytes == files[c].artifact
             commit == source[c].commit
             absent == Absent(c)
             j == [job[c] EXCEPT !.step = step, !.publish = absent, !.bytes = bytes, !.commit = commit]
  <2>1. ReleaseIsRight(c) /\ [bytes |-> bytes, commit |-> commit] = Approved(c)
    BY <1>4, CandidateIsApproved
  <2>2. job' = [job EXCEPT ![c] = j]
    BY <1>1, <1>4 DEF Decide, TypeInv
  <2>3. bytes \in Archive \union {None} /\ commit \in Coordinate \union {None} /\ step \in Step /\ absent \in BOOLEAN
    BY <1>1 DEF TypeInv, Retained, Origin, Step, Absent
  <2> HIDE DEF bytes, commit, absent
  <2>4. j \in Run /\ j.runs = job[c].runs /\ j.step = step /\ j.bytes = bytes /\ j.commit = commit /\ j.why = job[c].why
    <3> DEFINE n == 0..(Attempts - 1)
    <3>1. job[c] \in [step : Step, runs : Nat, bytes : Archive \union {None}, commit : Coordinate \union {None},
                      before : Tags \union {None}, publish : BOOLEAN, tries : n, why : Reason]
      BY <1>1 DEF Run
    <3> HIDE DEF n
    <3>2. /\ j \in [step : Step, runs : Nat, bytes : Archive \union {None}, commit : Coordinate \union {None},
                    before : Tags \union {None}, publish : BOOLEAN, tries : n, why : Reason]
          /\ j.runs = job[c].runs /\ j.step = step /\ j.bytes = bytes /\ j.commit = commit /\ j.why = job[c].why
      BY <2>3, <3>1
    <3>3. QED
      BY <3>2 DEF Run, n
  <2> HIDE DEF j
  <2>5. step = "verifyTags" => shown.published[c] = Approved(c)
    BY <1>4, <2>1 DEF Identical, bytes, commit
  <2>6. SoundAs(c, j, files[c])
    BY <1>1, <2>1, <2>4, <2>5 DEF Sound, SoundAs
  <2>7. QED
    BY <1>1, <2>2, <2>4, <2>6, RunKeepsInv DEF Rest
<1>5. QED
  BY <1>2, <1>3, <1>4

\* The looks at the version that is published, before, during and after.
LEMMA VersionsKeepInv ==
  ASSUME ChannelInv, NEW c \in Channel, GuardVersion(c) \/ PublishVersion(c) \/ VerifyVersion(c)
  PROVE  ChannelInv'
<1>1. ASSUME Fail(c, "invisible"), Rest PROVE ChannelInv'
  <2>1. Given(c, FALSE, "host", "invisible") /\ "invisible" \in Reason \ {"collision", "prepare"} /\ "host" \in Step
    BY <1>1 DEF Given, Reason, Step
  <2>2. QED
    BY <1>1, <2>1, GivenKeepsInv
<1>2. QED
  BY <1>1, DecideKeepsInv DEF GuardVersion, PublishVersion, VerifyVersion

\* The tags are read again, up to the last attempt.
LEMMA AwaitKeepsInv ==
  ASSUME ChannelInv, NEW c \in Channel, AwaitDistTag(c, "await", "verify") \/ AwaitDistTag(c, "verifyTags", "install")
  PROVE  ChannelInv'
<1>1. PICK from \in {"await", "verifyTags"}, next \in {"verify", "install"} :
         AwaitDistTag(c, from, next) /\ (next = "install" => from = "verifyTags")
  OBVIOUS
<1>2. /\ TypeInv /\ files[c] \in Retained /\ job[c] \in Run /\ job[c].runs <= bound.runs /\ Sound(c)
      /\ files' = [files EXCEPT ![c] = files[c]] /\ source' \in [Channel -> Origin] /\ registry' \in Document
      /\ \A d \in Channel : Known(d)'
  BY <1>1, InvFromParts, KnownStays DEF TypeInv, AwaitDistTag, Rest
<1>3. "channel" \in Reason \ {"collision", "prepare"} /\ next \in Step /\ next # "failed" /\ Rest
  BY <1>1, ChannelAssumption DEF Reason, Step, AwaitDistTag
<1>4. CASE Given(c, ValidateChannel(c, shown.tags, TRUE), next, "channel")
  <2>1. SoundAs(c, [job[c] EXCEPT !.step = next, !.tries = 0], files[c])
    <3>1. next = "install" => shown.published[c] = Approved(c)
      BY <1>1, <1>2 DEF AwaitDistTag, Sound, SoundAs
    <3>2. QED
      BY <1>1, <1>2, <1>3, <3>1, SoundNext
  <2>2. ValidateChannel(c, shown.tags, TRUE) \in BOOLEAN
    BY DEF ValidateChannel
  <2>3. QED
    BY <1>3, <1>4, <2>1, <2>2, GivenKeepsInv
<1>5. CASE Exhausted(c) /\ Fail(c, "channel")
  <2>1. Given(c, FALSE, "host", "channel") /\ "host" \in Step
    BY <1>5 DEF Given, Step
  <2>2. QED
    BY <1>3, <2>1, GivenKeepsInv
<1>6. CASE ~Exhausted(c) /\ job' = [job EXCEPT ![c].tries = @ + 1]
  <2> DEFINE n == 0..(Attempts - 1)
             more == job[c].tries + 1
             j == [job[c] EXCEPT !.tries = more]
  <2>1. job' = [job EXCEPT ![c] = j]
    BY <1>2, <1>6 DEF TypeInv
  <2>2. more \in n
    BY <1>2, <1>6, ChannelAssumption DEF Exhausted, Run
  <2>3. job[c] \in [step : Step, runs : Nat, bytes : Archive \union {None}, commit : Coordinate \union {None},
                    before : Tags \union {None}, publish : BOOLEAN, tries : n, why : Reason]
    BY <1>2 DEF Run
  <2> HIDE DEF n, more
  <2>4. /\ j \in [step : Step, runs : Nat, bytes : Archive \union {None}, commit : Coordinate \union {None},
                  before : Tags \union {None}, publish : BOOLEAN, tries : n, why : Reason]
        /\ j.runs = job[c].runs /\ j.step = job[c].step /\ j.bytes = job[c].bytes /\ j.commit = job[c].commit /\ j.why = job[c].why
    BY <2>2, <2>3
  <2> HIDE DEF j
  <2>5. j \in Run
    BY <2>4 DEF Run, n
  <2>6. SoundAs(c, j, files[c])
    BY <1>2, <2>4 DEF Sound, SoundAs
  <2>7. QED
    BY <1>2, <1>3, <2>1, <2>4, <2>5, <2>6, RunKeepsInv DEF Rest
<1>7. QED
  BY <1>1, <1>4, <1>5, <1>6 DEF AwaitDistTag

\* The call: what the registry accepts is the manifest of the job, and that was approved.
LEMMA CallKeepsInv ==
  ASSUME ChannelInv, NEW c \in Channel, CallPublisher(c)
  PROVE  ChannelInv'
<1>1. /\ TypeInv /\ files[c] \in Retained /\ job[c] \in Run /\ job[c].runs <= bound.runs /\ Sound(c)
      /\ files' = [files EXCEPT ![c] = files[c]] /\ source' \in [Channel -> Origin]
      /\ UNCHANGED <<release, source, shown, faults, bound>>
  BY InvFromParts DEF TypeInv, CallPublisher
<1>2. ReleaseIsRight(c) /\ Manifest(c) = Approved(c)
  BY <1>1 DEF CallPublisher, Sound, SoundAs, Manifest
<1>3. registry' \in Document /\ \A d \in Channel : Known(d)'
  <2>1. CASE registry' = registry
    BY <1>1, <2>1, KnownStays DEF TypeInv
  <2>2. CASE registry.published[c] = None /\ Accept(c, Manifest(c))
    <3>1. Manifest(c) \in [bytes : Archive, commit : Coordinate]
      BY <1>1, <1>2, ApprovedIsThere
    <3>2. QED
      BY <1>1, <1>2, <2>2, <3>1, AcceptedIsKnown
  <2>3. QED
    BY <2>1, <2>2 DEF CallPublisher
<1>4. CASE Fail(c, "publisher")
  BY <1>1, <1>3, <1>4, FailKeepsInv, ChannelAssumption DEF Reason
<1>5. CASE To(c, "await")
  <2> DEFINE j == [job[c] EXCEPT !.step = "await", !.tries = 0]
  <2>1. j \in Run /\ j.runs = job[c].runs
    BY <1>1, StepOfRun DEF Step
  <2>2. job' = [job EXCEPT ![c] = j]
    BY <1>1, <1>5 DEF To, TypeInv
  <2>3. SoundAs(c, j, files[c])
    BY <1>1, SoundNext DEF Step
  <2> HIDE DEF j
  <2>4. QED
    BY <1>1, <1>3, <2>1, <2>2, <2>3, RunKeepsInv
<1>6. QED
  BY <1>4, <1>5 DEF CallPublisher

\* A run that begins has nothing of an earlier one, and a fresh checkout.
LEMMA StartKeepsInv ==
  ASSUME ChannelInv, NEW c \in Channel, Start(c)
  PROVE  ChannelInv'
<1> DEFINE more == job[c].runs + 1
           j == [Idle EXCEPT !.step = "check", !.runs = more]
           f == [artifact |-> None, evidence |-> None]
<1>1. TypeInv /\ job[c] \in Run /\ bound \in Bounds
  BY InvFromParts DEF TypeInv
<1>2. more \in Nat /\ more <= bound.runs
  <2>1. job[c].runs \in Nat /\ bound.runs \in Nat /\ job[c].runs < bound.runs
    BY <1>1, ChannelAssumption DEF Start, Run
  <2>2. QED
    BY <2>1
<1> HIDE DEF more
<1>3. 0 \in 0..(Attempts - 1)
  BY ChannelAssumption
<1>4. j.step = "check" /\ j.runs = more /\ j.why = None
  BY DEF Idle
<1>5. j \in Run
  <2> DEFINE n == 0..(Attempts - 1)
             Rec == [step : Step, runs : Nat, bytes : Archive \union {None}, commit : Coordinate \union {None},
                     before : Tags \union {None}, publish : BOOLEAN, tries : n, why : Reason]
             begun == [Idle EXCEPT !.step = "check"]
  <2>1. "idle" \in Step /\ "check" \in Step /\ None \in Reason /\ 0 \in n
    BY <1>3 DEF Step, Reason
  <2> HIDE DEF n
  <2>2. Idle \in Rec
    BY <2>1 DEF Idle
  <2>3. begun \in Rec
    BY <2>1, <2>2
  <2>4. j = [begun EXCEPT !.runs = more]
    OBVIOUS
  <2> HIDE DEF begun, j
  <2>5. j \in Rec
    BY <1>2, <2>3, <2>4
  <2>6. QED
    BY <2>5 DEF Run, n
<1>6. f \in Retained /\ SoundAs(c, j, f)
  <2>1. f \in Retained /\ f.artifact = None /\ f.evidence = None
    BY DEF Retained
  <2> HIDE DEF j
  <2>2. QED
    BY <1>4, <2>1, ChannelAssumption DEF SoundAs
<1>7. source' \in [Channel -> Origin] /\ registry' \in Document /\ \A d \in Channel : Known(d)'
  <2>1. Checkout \in Origin
    BY DEF Checkout, Origin, Coordinate
  <2>2. QED
    BY <1>1, <2>1, KnownStays DEF Start, TypeInv
<1>8. job' = [job EXCEPT ![c] = j] /\ files' = [files EXCEPT ![c] = f] /\ UNCHANGED <<release, shown, faults, bound>>
  BY DEF Start, more
<1> HIDE DEF j
<1>9. j.runs <= bound.runs
  BY <1>2, <1>4
<1> HIDE DEF f
<1>10. QED
  BY <1>1, <1>5, <1>6, <1>7, <1>8, <1>9, RunKeepsInv

\* A run that fails in prepare, or whose outputs are removed, leaves none of its own.
LEMMA RemoveLeavesNothing ==
  ASSUME ChannelInv, NEW c \in Channel, job[c].step \in {"artifact", "retained"}, Remove(c)
  PROVE  \E f \in Retained : /\ files' = [files EXCEPT ![c] = f]
                             /\ "files" \notin faults => f = [artifact |-> None, evidence |-> None]
<1> DEFINE e == IF job[c].step = "retained" THEN None ELSE files[c].evidence
           f == [files[c] EXCEPT !.artifact = None, !.evidence = e]
<1>1. files \in [Channel -> Retained] /\ files[c] \in Retained /\ Sound(c)
  BY InvFromParts DEF TypeInv
<1>2. files' = [files EXCEPT ![c] = f]
  BY <1>1 DEF Remove
<1>3. e \in Evidence \union {None} /\ ("files" \notin faults => e = None)
  BY <1>1 DEF Retained, Sound, SoundAs
<1> HIDE DEF e
<1>4. f \in Retained /\ f.artifact = None /\ f.evidence = e
  BY <1>1, <1>3 DEF Retained
<1> HIDE DEF f
<1>5. "files" \notin faults => f = [artifact |-> None, evidence |-> None]
  BY <1>3, <1>4 DEF Retained
<1>6. QED
  BY <1>2, <1>4, <1>5

\* The two packs, the writing of the outputs and the last look of prepare.
LEMMA PrepareKeepsInv ==
  ASSUME ChannelInv, NEW c \in Channel, Pack(c) \/ RetainArtifact(c) \/ RetainEvidence(c) \/ Rebind(c)
  PROVE  ChannelInv'
<1>1. /\ TypeInv /\ files \in [Channel -> Retained] /\ files[c] \in Retained /\ job[c] \in Run /\ job[c].runs <= bound.runs
      /\ Sound(c) /\ release[c] \in Release /\ source[c] \in Origin
  BY InvFromParts DEF TypeInv
<1>2. /\ UNCHANGED <<release, source, registry, shown, faults, bound>> /\ source' \in [Channel -> Origin]
      /\ registry' \in Document /\ \A d \in Channel : Known(d)'
      /\ "prepare" \in Reason /\ "prepare" # "collision"
  <2>1. UNCHANGED <<release, source, registry, shown, faults, bound>>
    BY DEF Pack, RetainArtifact, RetainEvidence, Rebind, Rest
  <2>2. QED
    BY <1>1, <2>1, KnownStays DEF Reason, TypeInv
<1>3. CASE Pack(c)
  <2>1. job[c].step = "prepare" /\ files' = [files EXCEPT ![c] = files[c]]
    BY <1>1, <1>3 DEF Pack, Rest
  <2>2. "files" \notin faults => files[c] = [artifact |-> None, evidence |-> None]
    BY <1>1, <2>1 DEF Sound, SoundAs, Retained
  <2>3. CASE Fail(c, "prepare")
    BY <1>1, <1>2, <2>1, <2>2, <2>3, FailKeepsInv
  <2>4. ASSUME NEW first \in {"good", "repacked"},
               job' = [job EXCEPT ![c].step = "packed", ![c].bytes = first, ![c].commit = source[c].commit,
                                  ![c].before = shown.tags]
        PROVE  ChannelInv'
    <3> DEFINE n == 0..(Attempts - 1)
               tags == shown.tags
               commit == source[c].commit
               j == [job[c] EXCEPT !.step = "packed", !.bytes = first, !.commit = commit, !.before = tags]
    <3>1. job' = [job EXCEPT ![c] = j]
      BY <1>1, <2>4 DEF TypeInv
    <3>2. tags \in Tags /\ first \in Archive /\ "packed" \in Step /\ commit \in Coordinate
      BY <1>1 DEF TypeInv, Document, Archive, Step, Origin
    <3>3. job[c] \in [step : Step, runs : Nat, bytes : Archive \union {None}, commit : Coordinate \union {None},
                      before : Tags \union {None}, publish : BOOLEAN, tries : n, why : Reason]
      BY <1>1 DEF Run
    <3> HIDE DEF n, tags, commit
    <3>4. /\ j \in [step : Step, runs : Nat, bytes : Archive \union {None}, commit : Coordinate \union {None},
                    before : Tags \union {None}, publish : BOOLEAN, tries : n, why : Reason]
          /\ j.runs = job[c].runs /\ j.step = "packed" /\ j.why = job[c].why
      BY <3>2, <3>3
    <3> HIDE DEF j
    <3>5. j \in Run
      BY <3>4 DEF Run, n
    <3>6. SoundAs(c, j, files[c])
      BY <1>1, <2>2, <3>4 DEF Sound, SoundAs
    <3>7. QED
      BY <1>1, <1>2, <2>1, <3>1, <3>4, <3>5, <3>6, RunKeepsInv
  <2>5. QED
    BY <1>3, <2>3, <2>4 DEF Pack
<1>4. CASE RetainArtifact(c)
  <2> DEFINE f == [files[c] EXCEPT !.artifact = job[c].bytes]
  <2>1. job[c].step = "packed" /\ files' = files => files' = [files EXCEPT ![c] = files[c]]
    BY <1>1
  <2>2. "files" \notin faults => files[c] = [artifact |-> None, evidence |-> None]
    BY <1>1, <1>4 DEF RetainArtifact, Sound, SoundAs, Retained
  <2>3. CASE files' = files /\ Fail(c, "prepare")
    BY <1>1, <1>2, <1>4, <2>1, <2>2, <2>3, FailKeepsInv DEF RetainArtifact
  <2>4. CASE files' = [files EXCEPT ![c].artifact = job[c].bytes] /\ To(c, "artifact")
    <3>1. files' = [files EXCEPT ![c] = f]
      BY <1>1, <2>4
    <3>2. f \in Retained /\ f.evidence = files[c].evidence
      BY <1>1 DEF Retained, Run
    <3> HIDE DEF f
    <3>3. SoundAs(c, [job[c] EXCEPT !.step = "artifact", !.tries = 0], f)
      <4>1. "artifact" \in Step /\ ("files" \notin faults => f.evidence = None)
        BY <2>2, <3>2 DEF Step
      <4>2. QED
        BY <3>2, <4>1, SoundNext
    <3>4. QED
      BY <1>2, <2>4, <3>1, <3>2, <3>3, GoesOn DEF Step
  <2>5. QED
    BY <1>4, <2>3, <2>4 DEF RetainArtifact
<1>5. ASSUME job[c].step \in {"artifact", "retained"}, Remove(c), Fail(c, "prepare") PROVE ChannelInv'
  BY <1>2, <1>5, RemoveLeavesNothing, FailKeepsInv
<1>6. CASE RetainEvidence(c)
  <2> DEFINE e == [release |-> release[c], commit |-> job[c].commit, artifact |-> job[c].bytes, before |-> job[c].before]
             f == [files[c] EXCEPT !.evidence = e]
  <2>1. CASE Remove(c) /\ Fail(c, "prepare")
    BY <1>5, <1>6, <2>1 DEF RetainEvidence
  <2>2. CASE files' = [files EXCEPT ![c].evidence = e] /\ To(c, "retained")
    <3>1. files' = [files EXCEPT ![c] = f]
      BY <1>1, <2>2
    <3>2. e \in Evidence
      BY <1>1 DEF Evidence, Run
    <3> HIDE DEF e
    <3>3. f \in Retained
      BY <1>1, <3>2 DEF Retained
    <3>4. SoundAs(c, [job[c] EXCEPT !.step = "retained", !.tries = 0], f)
      BY <3>3, SoundNext DEF Step
    <3> HIDE DEF f
    <3>5. QED
      BY <1>2, <2>2, <3>1, <3>3, <3>4, GoesOn DEF Step
  <2>3. QED
    BY <1>6, <2>1, <2>2 DEF RetainEvidence
<1>7. CASE Rebind(c)
  <2>1. CASE Remove(c) /\ Fail(c, "prepare")
    BY <1>5, <1>7, <2>1 DEF Rebind
  <2>2. CASE files' = files /\ To(c, "smoke")
    <3>1. files' = [files EXCEPT ![c] = files[c]]
      BY <1>1, <2>2
    <3>2. SoundAs(c, [job[c] EXCEPT !.step = "smoke", !.tries = 0], files[c])
      BY <1>1, SoundNext DEF Step
    <3>3. QED
      BY <1>1, <1>2, <2>2, <3>1, <3>2, GoesOn DEF Step
  <2>3. QED
    BY <1>7, <2>1, <2>2 DEF Rebind
<1>8. QED
  BY <1>3, <1>4, <1>6, <1>7

\* The end of a run: a command that throws, the runner that is lost, the last step of the job.
LEMMA EndsKeepInv ==
  ASSUME ChannelInv, NEW c \in Channel, Break(c) \/ Kill(c) \/ Cleanup(c)
  PROVE  ChannelInv'
<1>1. /\ TypeInv /\ files \in [Channel -> Retained] /\ files[c] \in Retained /\ job[c] \in Run /\ job[c].runs <= bound.runs
      /\ Sound(c)
  BY InvFromParts DEF TypeInv
<1>2. /\ UNCHANGED <<release, source, registry, shown, faults, bound>> /\ source' \in [Channel -> Origin]
      /\ registry' \in Document /\ \A d \in Channel : Known(d)'
  <2>1. UNCHANGED <<release, source, registry, shown, faults, bound>>
    BY DEF Break, Kill, Cleanup, Rest
  <2>2. QED
    BY <1>1, <2>1, KnownStays DEF TypeInv
<1>3. CASE Break(c)
  <2>1. CASE job[c].step \in {"artifact", "retained"}
    <3>1. Remove(c) /\ Fail(c, "prepare") /\ "prepare" \in Reason
      BY <1>3, <2>1 DEF Break, Reason
    <3>2. QED
      BY <1>2, <2>1, <3>1, RemoveLeavesNothing, FailKeepsInv
  <2>2. CASE job[c].step \in {"prepare", "packed"}
    <3>1. Fail(c, "prepare") /\ "prepare" \in Reason /\ files' = [files EXCEPT ![c] = files[c]]
      BY <1>1, <1>3, <2>2 DEF Break, Reason
    <3>2. "files" \notin faults => files[c] = [artifact |-> None, evidence |-> None]
      BY <1>1, <2>2 DEF Sound, SoundAs, Retained
    <3>3. QED
      BY <1>1, <1>2, <3>1, <3>2, FailKeepsInv
  <2>3. CASE job[c].step \notin {"prepare", "packed", "artifact", "retained"}
    <3>1. Fail(c, "tool") /\ "tool" \in Reason /\ files' = [files EXCEPT ![c] = files[c]]
      BY <1>1, <1>3, <2>3 DEF Break, Reason
    <3>2. QED
      BY <1>1, <1>2, <3>1, FailKeepsInv
  <2>4. QED
    BY <2>1, <2>2, <2>3
<1>4. CASE Kill(c)
  <2> DEFINE i == [job[c] EXCEPT !.step = "ended"]
             j == [i EXCEPT !.why = "killed"]
  <2>1. job' = [job EXCEPT ![c] = j] /\ files' = [files EXCEPT ![c] = files[c]]
    BY <1>1, <1>4 DEF Kill, Rest, TypeInv
  <2>2. i \in Run /\ i.runs = job[c].runs /\ i.step = "ended"
    <3>1. "ended" \in Step
      BY DEF Step
    <3>2. i \in Run
      BY <1>1, <3>1, StepOfRun
    <3>3. QED
      BY <1>1, <3>2 DEF Run
  <2> HIDE DEF i
  <2>3. j \in Run /\ j.runs = i.runs /\ j.step = i.step /\ j.why = "killed"
    BY <2>2 DEF Run, Reason
  <2> HIDE DEF j
  <2>4. SoundAs(c, j, files[c])
    BY <2>2, <2>3 DEF SoundAs
  <2>5. QED
    BY <1>1, <1>2, <2>1, <2>2, <2>3, <2>4, RunKeepsInv
<1>5. CASE Cleanup(c)
  <2> DEFINE f == [artifact |-> None, evidence |-> None]
             step == IF job[c].step = "done" THEN "succeeded" ELSE "ended"
  <2>1. To(c, step) /\ files' = [files EXCEPT ![c] = f]
    BY <1>5 DEF Cleanup
  <2>2. f \in Retained /\ f.artifact = None /\ f.evidence = None
    BY DEF Retained
  <2>3. step \in {"succeeded", "ended"} /\ (step = "succeeded" => shown.published[c] = Approved(c))
    BY <1>1 DEF Sound, SoundAs
  <2> HIDE DEF f, step
  <2>4. step \in Step
    BY <2>3 DEF Step
  <2>5. SoundAs(c, [job[c] EXCEPT !.step = step, !.tries = 0], f)
    BY <2>2, <2>3, <2>4, SoundNext
  <2>6. QED
    BY <1>2, <2>1, <2>2, <2>4, <2>5, GoesOn
<1>6. QED
  BY <1>3, <1>4, <1>5

(***************************************************************************)
(* The world around the jobs, and the specification.                       *)
(***************************************************************************)

\* What happens around the jobs keeps the invariant if what was shown stays shown.
LEMMA WorldKeepsInv ==
  ASSUME ChannelInv, UNCHANGED <<release, job, bound>>, faults \subseteq faults',
         source' \in [Channel -> Origin], files' \in [Channel -> Retained], registry' \in Document, shown' \in Document,
         \A d \in Channel : Known(d)', "files" \notin faults' => files' = files,
         \A d \in Channel : shown.published[d] # None => shown'.published[d] = shown.published[d]
  PROVE  ChannelInv'
<1>1. TypeInv /\ \A d \in Channel : Sound(d) /\ Approved(d) # None
  BY InvFromParts, ApprovedIsThere
<1>2. TypeInv'
  BY <1>1 DEF TypeInv
<1>3. ASSUME NEW d \in Channel PROVE Sound(d)'
  <2>1. Approved(d)' = Approved(d) /\ ReleaseIsRight(d)' = ReleaseIsRight(d) /\ job'[d] = job[d]
    BY DEF Approved, ReleaseIsRight
  <2>2. job[d].step \in {"verifyTags", "install", "done", "succeeded"} => shown'.published[d] = Approved(d)
    BY <1>1 DEF Sound, SoundAs
  <2>3. QED
    BY <1>1, <2>1, <2>2 DEF Sound, SoundAs
<1>4. (TypeInv /\ \A d \in Channel : Known(d) /\ Sound(d))'
  BY <1>2, <1>3
<1>5. QED
  BY <1>4, NextFromParts

\* Interference with the checkout, the retained files, the registry or its tags; and what the registry shows.
LEMMA AroundKeepsInv ==
  ASSUME ChannelInv,
         \/ \E c \in Channel : ChangeSource(c) \/ ChangeFiles(c) \/ OtherPublishes(c)
         \/ Replicate \/ MoveTag \/ UNCHANGED channelVars
  PROVE  ChannelInv'
<1>1. /\ TypeInv /\ source \in [Channel -> Origin] /\ files \in [Channel -> Retained]
      /\ registry \in Document /\ shown \in Document /\ \A d \in Channel : Known(d)
  BY InvFromParts DEF TypeInv
<1>2. ASSUME NEW c \in Channel, ChangeSource(c) PROVE ChannelInv'
  <2>1. faults \subseteq faults' /\ UNCHANGED <<release, files, job, registry, shown, bound>>
    BY <1>2 DEF ChangeSource, Interfere
  <2>2. source' \in [Channel -> Origin]
    <3>1. source[c] \in Origin
      BY <1>1
    <3>2. /\ [source[c] EXCEPT !.commit = "other"] \in Origin /\ [source[c] EXCEPT !.clean = FALSE] \in Origin
          /\ [source[c] EXCEPT !.conforming = FALSE] \in Origin /\ [source[c] EXCEPT !.main = FALSE] \in Origin
      BY <3>1 DEF Origin, Coordinate
    <3>3. QED
      BY <1>1, <1>2, <3>2 DEF ChangeSource
  <2>3. QED
    BY <1>1, <2>1, <2>2, KnownStays, WorldKeepsInv
<1>3. ASSUME NEW c \in Channel, ChangeFiles(c) PROVE ChannelInv'
  <2>1. faults \subseteq faults' /\ "files" \in faults' /\ UNCHANGED <<release, source, job, registry, shown, bound>>
    BY <1>3 DEF ChangeFiles, Interfere
  <2>2. files' \in [Channel -> Retained]
    BY <1>1, <1>3 DEF ChangeFiles, Retained, Archive
  <2>3. QED
    BY <1>1, <2>1, <2>2, KnownStays, WorldKeepsInv
<1>4. ASSUME NEW c \in Channel, OtherPublishes(c) PROVE ChannelInv'
  <2>1. PICK content \in Foreign :
          /\ faults \subseteq faults' /\ "publisher" \in faults' /\ UNCHANGED <<release, source, files, job, shown, bound>>
          /\ registry.published[c] = None /\ Accept(c, content)
    BY <1>4 DEF OtherPublishes, Interfere
  <2>2. content \in [bytes : Archive, commit : Coordinate]
    BY DEF Foreign, Archive, Coordinate
  <2>3. registry' \in Document /\ \A d \in Channel : Known(d)'
    BY <2>1, <2>2, AcceptedIsKnown
  <2>4. QED
    BY <1>1, <2>1, <2>3, WorldKeepsInv
<1>5. CASE Replicate
  <2>1. UNCHANGED <<release, source, files, job, registry, faults, bound>> /\ shown' = registry
    BY <1>5 DEF Replicate
  <2>2. \A d \in Channel : Known(d)'
    BY <1>1, <2>1 DEF Known, ReleaseIsRight, Approved, Foreign
  <2>3. \A d \in Channel : shown.published[d] # None => shown'.published[d] = shown.published[d]
    BY <1>1, <2>1 DEF Known
  <2>4. QED
    BY <1>1, <2>1, <2>2, <2>3, WorldKeepsInv
<1>6. CASE MoveTag
  <2>1. /\ faults \subseteq faults' /\ "tags" \in faults' /\ UNCHANGED <<release, source, files, job, shown, bound>>
    BY <1>6 DEF MoveTag, Interfere
  <2>2. registry' \in Document /\ registry'.published = registry.published
    BY <1>1, <1>6 DEF MoveTag, Document, Tags
  <2>3. \A d \in Channel : Known(d)'
    BY <1>1, <2>1, <2>2 DEF Known, ReleaseIsRight, Approved, Foreign
  <2>4. QED
    BY <1>1, <2>1, <2>2, <2>3, WorldKeepsInv
<1>7. CASE UNCHANGED channelVars
  <2>1. UNCHANGED <<release, source, files, job, registry, shown, faults, bound>>
    BY <1>7 DEF channelVars
  <2>2. QED
    BY <1>1, <2>1, KnownStays, WorldKeepsInv
<1>8. QED
  BY <1>2, <1>3, <1>4, <1>5, <1>6, <1>7

\* Every step keeps the invariant.
LEMMA ChannelStepInv ==
  ASSUME ChannelInv, ChannelNext \/ UNCHANGED channelVars
  PROVE  ChannelInv'
<1>1. CASE \E c \in Channel : Command(c)
  BY <1>1, LooksKeepInv, PrepareKeepsInv, VersionsKeepInv, CallKeepsInv, AwaitKeepsInv, EndsKeepInv DEF Command
<1>2. CASE \E c \in Channel : Start(c) \/ Break(c) \/ Kill(c)
  BY <1>2, StartKeepsInv, EndsKeepInv
<1>3. QED
  BY <1>1, <1>2, AroundKeepsInv DEF ChannelNext, Over

\* No job has begun.
LEMMA ChannelInitInv ==
  ASSUME ChannelInit
  PROVE  ChannelInv
<1>1. ASSUME NEW c \in Channel PROVE Releases(c) \subseteq Release
  <2>1. Approval(c) \in Release
    BY DEF Approval, Kind, Release, Coordinate, Archive
  <2> HIDE DEF Approval
  <2>2. /\ [Approval(c) EXCEPT !.kind = "draft"] \in Release /\ [Approval(c) EXCEPT !.artifact = "repacked"] \in Release
        /\ \A f \in {"tagged", "target", "commit", "notes", "companions"} : [Approval(c) EXCEPT ![f] = "other"] \in Release
    BY <2>1 DEF Release, Coordinate, Archive
  <2>3. QED
    BY <2>1, <2>2 DEF Releases
<1>2. release \in [Channel -> Release]
  BY <1>1 DEF ChannelInit
<1>3. Checkout \in Origin /\ [artifact |-> None, evidence |-> None] \in Retained
  BY DEF Checkout, Origin, Coordinate, Retained
<1>4. Idle \in Run /\ Idle.step = "idle" /\ Idle.runs = 0 /\ Idle.why = None
  <2>1. 0 \in 0..(Attempts - 1) /\ "idle" \in Step /\ None \in Reason
    BY ChannelAssumption DEF Step, Reason
  <2>2. QED
    BY <2>1 DEF Idle, Run
<1>5. registry \in Document /\ \A c \in Channel : registry.published[c] = None
  BY DEF ChannelInit, Document, Tags
<1>6. bound.runs \in Nat /\ 0 <= bound.runs
  BY ChannelAssumption DEF ChannelInit
<1>7. TypeInv
  BY <1>2, <1>3, <1>4, <1>5, <1>6 DEF ChannelInit, TypeInv
<1>8. \A c \in Channel : Known(c)
  BY <1>5 DEF ChannelInit, Known
<1>9. ASSUME NEW c \in Channel PROVE Sound(c)
  <2>1. job[c] = Idle
    BY DEF ChannelInit
  <2>2. QED
    BY <1>4, <2>1, ChannelAssumption DEF Sound, SoundAs
<1>10. QED
  BY <1>7, <1>8, <1>9, InvFromParts

(***************************************************************************)
(* What a step may never do.                                               *)
(***************************************************************************)

\* The run of a channel changes only by a step of its own.
LEMMA RunChangesByItself ==
  ASSUME ChannelInv, ChannelNext \/ UNCHANGED channelVars, NEW c \in Channel, job'[c] # job[c]
  PROVE  Start(c) \/ Command(c) \/ Break(c) \/ Kill(c)
<1>1. job \in [Channel -> Run]
  BY InvFromParts DEF TypeInv
<1>2. ASSUME NEW d \in Channel, d # c, NEW j, job' = [job EXCEPT ![d] = j] PROVE FALSE
  BY <1>1, <1>2
<1>3. ASSUME NEW d \in Channel, d # c, NEW step, To(d, step) PROVE FALSE
  BY <1>1, <1>3 DEF To
<1>4. ASSUME NEW d \in Channel, d # c, NEW why, Fail(d, why) PROVE FALSE
  BY <1>1, <1>4 DEF Fail
<1>5. ASSUME NEW d \in Channel, d # c, NEW ok, NEW step, NEW why, Given(d, ok, step, why) PROVE FALSE
  BY <1>3, <1>4, <1>5 DEF Given
<1>6. ASSUME NEW d \in Channel, d # c, NEW step, Decide(d, step) PROVE FALSE
  BY <1>1, <1>4, <1>6 DEF Decide
<1>7. ASSUME NEW d \in Channel, d # c, Check(d) \/ SourceHost(d) \/ Smoke(d) \/ PublicInstall(d) PROVE FALSE
  BY <1>5, <1>7 DEF Check, SourceHost, Smoke, PublicInstall
<1>8. ASSUME NEW d \in Channel, d # c, GuardTags(d) \/ PublishTags(d) PROVE FALSE
  BY <1>4, <1>5, <1>8 DEF GuardTags, PublishTags
<1>9. ASSUME NEW d \in Channel, d # c, GuardVersion(d) \/ PublishVersion(d) \/ VerifyVersion(d) PROVE FALSE
  BY <1>4, <1>6, <1>9 DEF GuardVersion, PublishVersion, VerifyVersion
<1>10. ASSUME NEW d \in Channel, d # c, Pack(d) PROVE FALSE
  BY <1>1, <1>4, <1>10 DEF Pack
<1>11. ASSUME NEW d \in Channel, d # c, RetainArtifact(d) \/ RetainEvidence(d) \/ Rebind(d) \/ CallPublisher(d) PROVE FALSE
  BY <1>3, <1>4, <1>11 DEF RetainArtifact, RetainEvidence, Rebind, CallPublisher
<1>12. ASSUME NEW d \in Channel, d # c, NEW from, NEW next, AwaitDistTag(d, from, next) PROVE FALSE
  BY <1>1, <1>4, <1>5, <1>12 DEF AwaitDistTag
<1>13. ASSUME NEW d \in Channel, d # c, Cleanup(d) \/ Break(d) PROVE FALSE
  BY <1>3, <1>4, <1>13 DEF Cleanup, Break
<1>14. ASSUME NEW d \in Channel, d # c, Start(d) \/ Kill(d) PROVE FALSE
  BY <1>1, <1>14 DEF Start, Kill
<1>15. PICK d \in Channel : Start(d) \/ Command(d) \/ Break(d) \/ Kill(d)
  BY DEF ChannelNext, channelVars, ChangeSource, ChangeFiles, OtherPublishes, Replicate, MoveTag, Over
<1>16. d = c
  BY <1>7, <1>8, <1>9, <1>10, <1>11, <1>12, <1>13, <1>14, <1>15 DEF Command
<1>17. QED
  BY <1>15, <1>16

\* No step publishes what is there already or moves the tag of the other channel.
LEMMA ChannelKeepsOff ==
  ASSUME ChannelInv, ChannelNext \/ UNCHANGED channelVars
  PROVE  NoSecondCall /\ OtherTagUntouched
<1>1. ASSUME NEW c \in Channel, job[c].step = "publish", ~Absent(c), job'[c].step = "publishTags"
      PROVE  ~job'[c].publish
  <2>1. job \in [Channel -> Run] /\ job[c] \in Run
    BY InvFromParts DEF TypeInv
  <2>2. Start(c) \/ Command(c) \/ Break(c) \/ Kill(c)
    BY <1>1, RunChangesByItself
  <2>3. ~Fail(c, "candidate") /\ ~Fail(c, "collision")
    BY <1>1, <2>1 DEF Fail, Run
  <2>4. PublishVersion(c)
    <3>1. ~Break(c) /\ ~Kill(c)
      BY <1>1, <2>1 DEF Break, Kill, Fail, Run
    <3>2. QED
      BY <1>1, <2>2, <3>1 DEF Start, Command, Check, SourceHost, Pack, RetainArtifact, RetainEvidence, Rebind, Smoke,
         GuardVersion, GuardTags, PublishTags, CallPublisher, AwaitDistTag, VerifyVersion, PublicInstall, Cleanup
  <2>5. job' = [job EXCEPT ![c].step = "publishTags", ![c].publish = Absent(c), ![c].bytes = files[c].artifact,
                              ![c].commit = source[c].commit]
    BY <2>3, <2>4 DEF PublishVersion, Decide
  <2>6. job'[c].publish = Absent(c)
    BY <2>1, <2>5 DEF Run
  <2>7. QED
    BY <1>1, <2>6
<1>2. ASSUME NEW c \in Channel, job[c].step = "verifyTags", job'[c].step = "install"
      PROVE  /\ shown.tags["latest"] = (IF c = "stable" THEN c ELSE job[c].before["latest"])
             /\ c = "stable" => shown.tags["native-preview"] = job[c].before["native-preview"]
  <2>1. job \in [Channel -> Run] /\ job[c] \in Run
    BY InvFromParts DEF TypeInv
  <2>2. Start(c) \/ Command(c) \/ Break(c) \/ Kill(c)
    BY <1>2, RunChangesByItself
  <2>3. ~Break(c) /\ ~Kill(c) /\ ~Fail(c, "channel")
    BY <1>2, <2>1 DEF Break, Kill, Fail, Run
  <2>4. AwaitDistTag(c, "verifyTags", "install")
    BY <1>2, <2>2, <2>3 DEF Start, Command, Check, SourceHost, Pack, RetainArtifact, RetainEvidence, Rebind, Smoke,
       GuardVersion, GuardTags, PublishVersion, PublishTags, CallPublisher, AwaitDistTag, VerifyVersion, PublicInstall, Cleanup
  <2>5. ~(job' = [job EXCEPT ![c].tries = @ + 1])
    BY <1>2, <2>1 DEF Run
  <2>6. ValidateChannel(c, shown.tags, TRUE)
    BY <2>3, <2>4, <2>5 DEF AwaitDistTag, Given
  <2>7. QED
    BY <2>6 DEF ValidateChannel
<1>3. QED
  BY <1>1, <1>2 DEF NoSecondCall, OtherTagUntouched

\* No step touches what another provisioner has written.
LEMMA NpmKeepsOff ==
  ASSUME NpmInv, NpmNext \/ UNCHANGED npmVars
  PROVE  NpmDiscipline
<1>1. /\ got \in [Provisioner -> {"none", "bytes", "error"}] /\ FileIsOwn
      /\ pc \in [Provisioner \union User -> Places]
  BY DEF NpmInv, NpmTypeOK
<1>2. ASSUME NEW p \in Provisioner, got[p] # "none" PROVE got'[p] = got[p]
  <2>1. ASSUME NEW q \in Provisioner, NEW how, Finish(q, how) PROVE got'[p] = got[p]
    BY <1>1, <1>2, <2>1 DEF Finish
  <2>2. ASSUME NEW q \in Provisioner, Network(q) PROVE got'[p] = got[p]
    BY <2>1, <2>2 DEF Network, Respond, Data, End, Breaks, Close, TimesOut
  <2>3. ASSUME NEW q \in Provisioner, Provisions(q) PROVE got' = got
    BY <2>3 DEF Provisions, Provision, Downloaded, Create, Written, Verified
  <2>4. ASSUME NEW u \in User, Uses(u) PROVE got' = got
    BY <2>4 DEF Uses, Resolve, MakeRelease, Extract, MakeTools, LinkTools, MakeHome, Configure, RunCommand
  <2>5. CASE UNCHANGED npmVars
    BY <2>5 DEF npmVars
  <2>6. QED
    BY <2>2, <2>3, <2>4, <2>5 DEF NpmNext, NpmEnded
<1>3. ASSUME NEW p \in Provisioner, Provisions(p), kept # Missing, kept.by # p PROVE kept' = kept
  <2>1. pc[p] \notin {"writing", "verify"}
    BY <1>1, <1>3 DEF FileIsOwn
  <2>2. QED
    BY <1>3, <2>1 DEF Provisions, Provision, Downloaded, Create, Written, Verified
<1>4. QED
  BY <1>2, <1>3 DEF NpmDiscipline

(***************************************************************************)
(* The specification: either authority.                                    *)
(***************************************************************************)

AuthorityInv == (part = "channel" => ChannelInv) /\ (part = "npm" => NpmInv)

\* Either invariant holds of the part that runs.
LEMMA AuthorityInvariant == AuthoritySpec => []AuthorityInv
<1>1. AuthorityInit => AuthorityInv
  BY ChannelInitInv, NpmInitInv DEF AuthorityInit, AuthorityInv
<1>2. AuthorityInv /\ [AuthorityNext]_authorityVars => AuthorityInv'
  BY ChannelStepInv, NpmStepInv DEF AuthorityInv, AuthorityNext, authorityVars
<1>3. QED
  BY <1>1, <1>2, PTL DEF AuthoritySpec

\* What a job publishes is what its release approved, under the commit it approved, whatever happens to the
\* checkout, to the retained files and on the registry between its commands; and no job takes a publication
\* of its own, or of an earlier run, for a collision.
THEOREM ReleasesAreTheApproved == AuthoritySpec => []PublishedAsApproved
<1>1. AuthorityInv => PublishedAsApproved
  BY DEF AuthorityInv, PublishedAsApproved
<1>2. QED
  BY <1>1, AuthorityInvariant, PTL

\* A job that succeeded is public and, if nobody moved the tags, selected by its own; a prepare that failed,
\* at whichever of its steps, has left neither artifact nor evidence.
THEOREM JobsEnd == AuthoritySpec => []JobsEndTruly
<1>1. AuthorityInv => JobsEndTruly
  BY DEF AuthorityInv, JobsEndTruly, ChannelInv
<1>2. QED
  BY <1>1, AuthorityInvariant, PTL

\* The npm that is provisioned is the audited one, for any number of provisioners at once, any order of the
\* events of their connections and any limit of the download; its users leave no private directory.
THEOREM NpmIsTheAudited == AuthoritySpec => []NpmIsAudited
<1>1. AuthorityInv => NpmIsAudited
  BY DEF AuthorityInv, NpmIsAudited
<1>2. QED
  BY <1>1, AuthorityInvariant, PTL

\* No run that could see its version calls the publisher, or passes the last look at tags that moved; no
\* download settles twice, and no provisioner touches a file of another.
THEOREM AuthoritiesKeepOff == AuthoritySpec => AuthorityKeepsOff
<1>1. AuthorityInv /\ [AuthorityNext]_authorityVars =>
        [/\ part = "channel" => NoSecondCall /\ OtherTagUntouched
         /\ part = "npm" => NpmDiscipline]_authorityVars
  BY ChannelKeepsOff, NpmKeepsOff DEF AuthorityInv, AuthorityNext, authorityVars
<1>2. QED
  BY <1>1, AuthorityInvariant, PTL DEF AuthoritySpec, AuthorityKeepsOff

================================================================================
