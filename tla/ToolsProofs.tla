------------------------------ MODULE ToolsProofs ------------------------------
(***************************************************************************)
(* Proofs about the tools of retired/ that belong to a device, for every set*)
(* of clients, shells, askers and callers and every bound: the entitlement,*)
(* the installer, the host's consent and its secrets, one after another; and*)
(* at the end what follows for ToolsSpec, of which each is a part, and so  *)
(* are the parts of AssetToolsProofs.                                      *)
(*                                                                         *)
(* Every part has an inductive invariant of its own; ToolsInv says which   *)
(* holds of the part that runs.                                            *)
(***************************************************************************)
EXTENDS MCRetiredTools, AssetToolsProofs

--------------------------------------------------------------------------------
(* Entitlement: the grant, the pair, the marks and the metadata of one domain. *)

Grants == [version : Nat, device : Nat, issuer : Nat]

\* A device key: its public half and what the secret store holds under its two names.
Devices == [public : Nat, agreement : Nat, signing : Nat]

\* The metadata file of the licence.
FileRecords ==
  [kind : {"none", "device", "licence", "torn"}, status : {"none", "pending", "active", "revoked"}, device : Nat]

\* The secrets of the licence.
VaultRecords == [agreement : Nat, signing : Nat, grant : Grants, issuer : Nat, floor : Nat, seen : Nat]

\* Where a command can be.
OrderSteps ==
  {"none", "end", "metadata", "device", "agreement", "signing", "pending", "activation", "exchange", "authorize", "issuer", "grant",
   "floor", "seen", "active", "drop", "revoked", "open", "licence", "legacy", "answer"}

\* What a process has in memory.
ClientRecords ==
  [order : {"none", "activate", "sync", "load", "install", "renew"}, step : OrderSteps, device : Devices, reply : Grants,
   met : FileRecords]

\* Types.
EntitlementTyped ==
  /\ client \in [Client -> ClientRecords] /\ vault \in VaultRecords /\ file \in FileRecords
  /\ server \in [version : Nat, live : BOOLEAN, issuer : {1, 2}, device : Nat]
  /\ clock \in Nat /\ keys \in Nat /\ orders \in Nat /\ harm \in Nat /\ scars \subseteq {"overlap", "crossed", "lost", "torn"}

\* Where a command can be, and what it knows there without a look at what is stored.
ClientIsSane(c) ==
  /\ client[c].order = "none" => client[c] = Away
  /\ client[c].step = "none" => client[c].order = "none"
  /\ client[c].order = "load" => client[c].step \in {"metadata", "open", "end"}
  /\ client[c].order \in {"install", "renew"} => client[c].step \in {"licence", "legacy", "answer", "end"}
  /\ client[c].order = "activate" => client[c].step \notin {"metadata", "exchange", "drop", "revoked"}
  /\ client[c].order \in {"activate", "sync"} => client[c].step \notin {"open", "licence", "legacy", "answer"}
  /\ client[c].order = "sync" => client[c].step # "activation"
  /\ client[c].step \in {"agreement", "signing", "pending"} =>
       /\ client[c].device.public # 0
       /\ client[c].device.agreement = client[c].device.public /\ client[c].device.signing = client[c].device.public
  /\ (client[c].step = "authorize" \/ Installs(c)) => client[c].reply.issuer # 0

\* Installs that do not cross never go back.
InstallsGoForward(c) ==
  /\ \A d \in Client : Installs(c) /\ Installs(d) => c = d
  /\ Next1(c) \in {"issuer", "grant", "floor"} => client[c].reply.version >= vault.floor
  /\ Next1(c) = "issuer" => vault.issuer = 0

\* A command that writes.
Writes(c) == client[c].order \notin {"none", "load"}

\* Both keys of the device that the metadata names are stored.
PairIsStored == file.device # 0 /\ vault.agreement = file.device /\ vault.signing = file.device

\* What is stored is what the command that writes has in memory, as far as it has come.
WritesInOrder(c) ==
  /\ Next1(c) \in {"agreement", "signing", "pending"} => file.kind # "device"
  /\ Next1(c) \in {"signing", "pending"} => vault.agreement = client[c].device.public
  /\ Next1(c) = "pending" => vault.signing = client[c].device.public
  /\ (Next1(c) \in {"activation", "exchange", "authorize"} \/ Installs(c)) =>
       file.kind = "device" /\ client[c].device.public = file.device
  /\ Installs(c) => client[c].reply.device = file.device
  /\ Next1(c) \in {"grant", "floor", "seen", "active"} => client[c].reply.issuer = vault.issuer
  /\ Next1(c) \in {"floor", "seen", "active"} => vault.grant = client[c].reply
  /\ Next1(c) \in {"seen", "active"} => vault.floor = client[c].reply.version
  /\ (client[c].order = "sync" /\ Next1(c) \notin {"metadata", "end"}) =>
       file.kind = "device" /\ client[c].met.kind = "device" /\ client[c].met.device = file.device
  /\ Next1(c) = "revoked" => vault.grant = NoGrant

\* The status of the file, while a command may be between two writes.
StatusIsToBe ==
  file.kind = "device" =>
    /\ file.status = "active" =>
         /\ vault.issuer # 0
         /\ GrantIsLoadable \/ (vault.grant = NoGrant /\ (harm > 0 \/ \E c \in Client : Next1(c) = "revoked"))
    /\ file.status = "revoked" =>
         vault.grant = NoGrant \/ (GrantIsLoadable /\ (harm > 0 \/ \E c \in Client : Next1(c) \in {"floor", "seen", "active"}))

\* What holds as long as nothing overlapped, crashed or was lost.
EntitlementHolds ==
  /\ \A c, d \in Client : Writes(c) /\ Writes(d) => c = d
  /\ file.kind # "torn" /\ (file.kind = "device" => PairIsStored)
  /\ vault.grant = NoGrant \/ vault.grant.issuer # 0
  /\ \A c \in Client : WritesInOrder(c)
  /\ StatusIsToBe

\* What is known between two steps.
EntitlementKnows ==
  /\ EntitlementTyped
  /\ \A c \in Client : ClientIsSane(c)
  /\ "crossed" \notin scars => \A c \in Client : InstallsGoForward(c)
  /\ scars = {} => EntitlementHolds

\* What a command has in memory.
LEMMA ClientFacts ==
  ASSUME EntitlementTyped, NEW c \in Client
  PROVE  /\ client[c] \in ClientRecords /\ client[c].step \in OrderSteps /\ client[c].device \in Devices
         /\ client[c].order \in {"none", "activate", "sync", "load", "install", "renew"}
         /\ client[c].reply \in Grants /\ client[c].met \in FileRecords
         /\ client[c].reply.version \in Nat /\ client[c].reply.issuer \in Nat /\ client[c].reply.device \in Nat
         /\ client[c].device.public \in Nat /\ client[c].device.agreement \in Nat /\ client[c].device.signing \in Nat
<1>1. client[c] \in ClientRecords
  BY DEF EntitlementTyped
<1>2. client[c].step \in OrderSteps /\ client[c].device \in Devices /\ client[c].reply \in Grants /\ client[c].met \in FileRecords
      /\ client[c].order \in {"none", "activate", "sync", "load", "install", "renew"}
  BY <1>1 DEF ClientRecords
<1>3. QED
  BY <1>1, <1>2 DEF Grants, Devices

\* What is stored.
LEMMA StoredFacts ==
  ASSUME EntitlementTyped
  PROVE  /\ vault.agreement \in Nat /\ vault.signing \in Nat /\ vault.grant \in Grants /\ vault.issuer \in Nat
         /\ vault.floor \in Nat /\ vault.seen \in Nat /\ vault.grant.version \in Nat /\ vault.grant.issuer \in Nat
         /\ file.kind \in {"none", "device", "licence", "torn"} /\ file.status \in {"none", "pending", "active", "revoked"}
         /\ file.device \in Nat
         /\ server.version \in Nat /\ server.issuer \in {1, 2} /\ server.device \in Nat /\ server.live \in BOOLEAN
<1>1. vault.grant \in Grants /\ vault.agreement \in Nat /\ vault.signing \in Nat /\ vault.issuer \in Nat
      /\ vault.floor \in Nat /\ vault.seen \in Nat
  BY DEF EntitlementTyped, VaultRecords
<1>2. file.kind \in {"none", "device", "licence", "torn"} /\ file.status \in {"none", "pending", "active", "revoked"}
      /\ file.device \in Nat
  BY DEF EntitlementTyped, FileRecords
<1>3. server.version \in Nat /\ server.issuer \in {1, 2} /\ server.device \in Nat /\ server.live \in BOOLEAN
  BY DEF EntitlementTyped
<1>4. QED
  BY <1>1, <1>2, <1>3 DEF Grants

\* The records that a command starts from are of their types.
LEMMA PlainFacts ==
  /\ Away \in ClientRecords /\ NoGrant \in Grants /\ NoFile \in FileRecords /\ NoDevice \in Devices /\ NoVault \in VaultRecords
  /\ Away.order = "none" /\ Away.step = "none"
<1>1. NoGrant \in Grants /\ NoFile \in FileRecords /\ NoDevice \in Devices
  BY DEF NoGrant, NoFile, NoDevice, Grants, FileRecords, Devices
<1>2. QED
  BY <1>1 DEF Away, ClientRecords, OrderSteps, NoVault, VaultRecords

\* What follows a step.
LEMMA FollowingFacts ==
  ASSUME NEW m \in ClientRecords
  PROVE  /\ Following(m) \in OrderSteps \ {"none"}
         /\ m.step = "metadata" => Following(m) = IF m.order = "load" THEN "open" ELSE "device"
         /\ m.step \in {"device", "pending"} => Following(m) = IF m.order = "activate" THEN "activation" ELSE "exchange"
         /\ m.step = "agreement" => Following(m) = "signing"
         /\ m.step = "signing" => Following(m) = "pending"
         /\ m.step = "activation" => Following(m) = "authorize"
         /\ m.step = "drop" => Following(m) = "revoked"
         /\ m.step = "legacy" => Following(m) = "answer"
         /\ m.step = "answer" => Following(m) = "licence"
         /\ m.step = "issuer" => Following(m) = "grant"
         /\ m.step = "grant" => Following(m) = "floor"
         /\ m.step = "floor" => Following(m) = "seen"
         /\ m.step = "seen" => Following(m) = "active"
         /\ m.step \in {"active", "revoked", "open", "licence"} => Following(m) = "end"
<1>1. DOMAIN Installing = {"issuer", "grant", "floor", "seen", "active"} /\ Installing.issuer = "grant" /\ Installing.grant = "floor"
      /\ Installing.floor = "seen" /\ Installing.seen = "active" /\ Installing.active = "end"
  BY DEF Installing
<1>2. \A s \in DOMAIN Installing : Installing[s] \in OrderSteps \ {"none"}
  BY <1>1 DEF OrderSteps
<1>3. m.step \in OrderSteps
  BY DEF ClientRecords
<1>4. m.step \in {"active", "revoked", "open", "licence"} => Following(m) = "end"
  BY <1>1, <1>3 DEF Following
<1>5. m.step \in DOMAIN Installing => Following(m) = Installing[m.step]
  BY <1>1, <1>3 DEF Following
<1>6. /\ m.step = "metadata" => Following(m) = IF m.order = "load" THEN "open" ELSE "device"
      /\ m.step \in {"device", "pending"} => Following(m) = IF m.order = "activate" THEN "activation" ELSE "exchange"
      /\ m.step = "agreement" => Following(m) = "signing"
      /\ m.step = "signing" => Following(m) = "pending"
      /\ m.step = "activation" => Following(m) = "authorize"
      /\ m.step = "drop" => Following(m) = "revoked"
      /\ m.step = "legacy" => Following(m) = "answer"
      /\ m.step = "answer" => Following(m) = "licence"
  BY <1>1, <1>3 DEF Following
<1>7. m.step \in {"none", "end", "exchange", "authorize"} => Following(m) = "end"
  BY <1>1, <1>3 DEF Following
<1>8. Following(m) \in OrderSteps \ {"none"}
  BY <1>1, <1>2, <1>3, <1>4, <1>5, <1>6, <1>7 DEF OrderSteps
<1>9. QED
  BY <1>1, <1>4, <1>5, <1>6, <1>8

\* A step of one command that goes on.
LEMMA ProceedsFacts ==
  ASSUME EntitlementTyped, NEW c \in Client, NEW with \in ClientRecords, Proceeds(c, with)
  PROVE  \E new \in ClientRecords :
           /\ client' = [client EXCEPT ![c] = new] /\ client'[c] = new /\ new.step = Following(with)
           /\ new.order = with.order /\ new.device = with.device /\ new.reply = with.reply /\ new.met = with.met
<1>1. PICK after : after = Following(with)
  OBVIOUS
<1>2. PICK new : new = [with EXCEPT !.step = after]
  OBVIOUS
<1>3. new \in ClientRecords
  BY <1>1, <1>2, FollowingFacts DEF ClientRecords
<1>4. client' = [client EXCEPT ![c] = new]
  BY <1>1, <1>2 DEF Proceeds
<1>5. client'[c] = new
  BY <1>4 DEF EntitlementTyped
<1>6. QED
  BY <1>1, <1>2, <1>3, <1>4, <1>5 DEF ClientRecords

\* A command that does not write holds nothing back.
LEMMA IdleWritesNothing ==
  ASSUME NEW c \in Client, ClientIsSane(c)', ~Writes(c)'
  PROVE  WritesInOrder(c)'
<1>1. client'[c].step \in {"none", "metadata", "open", "end"} /\ client'[c].order # "sync"
  BY PlainFacts DEF ClientIsSane, Writes
<1>2. ~Installs(c)'
  BY <1>1 DEF Installs, Next1, Installing
<1>3. QED
  BY <1>1, <1>2 DEF WritesInOrder, Next1

\* What the other commands say of themselves stays true when one moves.
LEMMA OthersAreSane ==
  ASSUME EntitlementKnows, NEW c \in Client, NEW new \in ClientRecords, client' = [client EXCEPT ![c] = new]
  PROVE  /\ client' \in [Client -> ClientRecords] /\ client'[c] = new
         /\ \A d \in Client \ {c} : client'[d] = client[d] /\ ClientIsSane(d)'
<1>1. client' \in [Client -> ClientRecords] /\ client'[c] = new /\ \A d \in Client \ {c} : client'[d] = client[d]
  BY DEF EntitlementKnows, EntitlementTyped
<1>2. \A d \in Client \ {c} : ClientIsSane(d)'
  BY <1>1 DEF EntitlementKnows, ClientIsSane, Installs, Next1
<1>3. QED
  BY <1>1, <1>2

\* The marks and fields of the store that an order of writes is about.
SameStore == /\ file' = file /\ vault'.agreement = vault.agreement /\ vault'.signing = vault.signing /\ vault'.grant = vault.grant
             /\ vault'.issuer = vault.issuer /\ vault'.floor = vault.floor

\* Installs stay in order when one command moves.
LEMMA ForwardStays ==
  ASSUME EntitlementKnows, NEW c \in Client, NEW new \in ClientRecords, client' = [client EXCEPT ![c] = new],
         "crossed" \notin scars, InstallsGoForward(c)',
         Installs(c)' => Installs(c) \/ \A d \in Client \ {c} : ~Installs(d),
         Installs(c) \/ (vault'.floor = vault.floor /\ vault'.issuer = vault.issuer)
  PROVE  \A d \in Client : InstallsGoForward(d)'
<1>1. client'[c] = new /\ \A d \in Client \ {c} : client'[d] = client[d]
  BY OthersAreSane
<1>2. \A d \in Client : InstallsGoForward(d)
  BY DEF EntitlementKnows
<1>3. ASSUME NEW d \in Client \ {c} PROVE InstallsGoForward(d)'
  <2>1. Installs(d)' <=> Installs(d)
    BY <1>1 DEF Installs, Next1
  <2>2. CASE ~Installs(d)
    <3>1. Next1(d)' \notin {"issuer", "grant", "floor"}
      BY <2>1, <2>2 DEF Installs, Installing
    <3>2. QED
      BY <2>1, <2>2, <3>1 DEF InstallsGoForward
  <2>3. CASE Installs(d)
    <3>1. ~Installs(c) /\ ~Installs(c)'
      BY <1>2, <2>3 DEF InstallsGoForward
    <3>2. vault'.floor = vault.floor /\ vault'.issuer = vault.issuer
      BY <3>1
    <3>3. \A e \in Client : Installs(e)' => Installs(e)
      BY <1>1, <3>1 DEF Installs, Next1
    <3>4. \A e \in Client : Installs(d)' /\ Installs(e)' => d = e
      BY <1>2, <2>3, <3>3 DEF InstallsGoForward
    <3>5. Next1(d)' = Next1(d) /\ client'[d].reply = client[d].reply
      BY <1>1 DEF Next1
    <3>6. /\ Next1(d) \in {"issuer", "grant", "floor"} => client[d].reply.version >= vault.floor
          /\ Next1(d) = "issuer" => vault.issuer = 0
      BY <1>2 DEF InstallsGoForward
    <3>7. QED
      BY <3>2, <3>4, <3>5, <3>6 DEF InstallsGoForward
  <2>4. QED
    BY <2>2, <2>3
<1>4. QED
  BY <1>3

\* What is stored stays in the order of its writes when one command moves.
LEMMA HoldsOn ==
  ASSUME EntitlementKnows, NEW c \in Client, NEW new \in ClientRecords, client' = [client EXCEPT ![c] = new],
         scars = {}, WritesInOrder(c)', StatusIsToBe', PairIsStored' \/ file'.kind # "device", file'.kind # "torn",
         vault'.grant = NoGrant \/ vault'.grant.issuer # 0,
         Writes(c)' => Writes(c) \/ \A d \in Client \ {c} : ~Writes(d),
         Writes(c) \/ SameStore
  PROVE  EntitlementHolds'
<1>1. client'[c] = new /\ \A d \in Client \ {c} : client'[d] = client[d] /\ ClientIsSane(d)'
  BY OthersAreSane
<1>2. EntitlementHolds
  BY DEF EntitlementKnows
<1>3. \A d \in Client \ {c} : Writes(d)' <=> Writes(d)
  BY <1>1 DEF Writes
<1>4. \A d, e \in Client : Writes(d)' /\ Writes(e)' => d = e
  BY <1>2, <1>3 DEF EntitlementHolds
<1>5. ASSUME NEW d \in Client \ {c} PROVE WritesInOrder(d)'
  <2>1. CASE ~Writes(d)
    BY <1>1, <1>3, <2>1, IdleWritesNothing
  <2>2. CASE Writes(d)
    <3>1. SameStore
      BY <1>2, <2>2 DEF EntitlementHolds
    <3>2. WritesInOrder(d) /\ client'[d] = client[d]
      BY <1>1, <1>2 DEF EntitlementHolds
    <3>3. QED
      BY <3>1, <3>2 DEF SameStore, WritesInOrder, Installs, Next1
  <2>3. QED
    BY <2>1, <2>2
<1>6. QED
  BY <1>4, <1>5 DEF EntitlementHolds

\* The status stays as it is while nothing it is about is written, but for a command that dies between two writes.
LEMMA StatusStays ==
  ASSUME EntitlementKnows, NEW c \in Client, NEW new \in ClientRecords, client' = [client EXCEPT ![c] = new],
         scars = {}, SameStore, harm' \in Nat, harm' >= harm,
         Next1(c) = "revoked" => harm' > 0,
         Next1(c) \in {"floor", "seen", "active"} => harm' > 0 \/ Next1(c)' \in {"floor", "seen", "active"}
  PROVE  StatusIsToBe' /\ (PairIsStored' \/ file'.kind # "device") /\ file'.kind # "torn"
         /\ (vault'.grant = NoGrant \/ vault'.grant.issuer # 0)
<1>1. \A d \in Client \ {c} : client'[d] = client[d]
  BY OthersAreSane
<1>2. EntitlementHolds /\ harm \in Nat
  BY DEF EntitlementKnows, EntitlementTyped
<1>3. (PairIsStored' \/ file'.kind # "device") /\ file'.kind # "torn" /\ (vault'.grant = NoGrant \/ vault'.grant.issuer # 0)
  BY <1>2 DEF EntitlementHolds, SameStore, PairIsStored
<1>4. GrantIsLoadable' <=> GrantIsLoadable
  BY DEF SameStore, GrantIsLoadable
<1>5. (harm > 0 \/ \E d \in Client : Next1(d) = "revoked")
        => harm' > 0 \/ \E d \in Client : Next1(d)' = "revoked"
  BY <1>1, <1>2 DEF Next1
<1>6. (harm > 0 \/ \E d \in Client : Next1(d) \in {"floor", "seen", "active"})
        => harm' > 0 \/ \E d \in Client : Next1(d)' \in {"floor", "seen", "active"}
  BY <1>1, <1>2 DEF Next1
<1>7. StatusIsToBe
  BY <1>2 DEF EntitlementHolds
<1>8. QED
  BY <1>3, <1>4, <1>5, <1>6, <1>7 DEF StatusIsToBe, SameStore

\* What a step leaves of the types, and what it may do to the clocks, the counters and the history.
BesidesTyped ==
  /\ server' \in [version : Nat, live : BOOLEAN, issuer : {1, 2}, device : Nat]
  /\ clock' \in Nat /\ keys' \in Nat /\ orders' \in Nat /\ harm' \in Nat /\ harm' >= harm
  /\ scars \subseteq scars' /\ scars' \subseteq {"overlap", "crossed", "lost", "torn"}

\* A command moves and nothing of the order of writes is written.
LEMMA MoveKeeps ==
  ASSUME EntitlementKnows, NEW c \in Client, NEW new \in ClientRecords, client' = [client EXCEPT ![c] = new],
         SameStore, vault' \in VaultRecords, BesidesTyped, ClientIsSane(c)',
         "crossed" \notin scars' => InstallsGoForward(c)' /\ (Installs(c)' => Installs(c) \/ \A d \in Client \ {c} : ~Installs(d)),
         scars' = {} =>
           /\ WritesInOrder(c)' /\ (Writes(c)' => Writes(c) \/ \A d \in Client \ {c} : ~Writes(d))
           /\ Next1(c) = "revoked" => harm' > 0
           /\ Next1(c) \in {"floor", "seen", "active"} => harm' > 0 \/ Next1(c)' \in {"floor", "seen", "active"}
  PROVE  EntitlementKnows'
<1>1. \A d \in Client : ClientIsSane(d)'
  BY OthersAreSane
<1>2. EntitlementTyped'
  BY OthersAreSane DEF EntitlementKnows, EntitlementTyped, BesidesTyped, SameStore
<1>3. vault'.floor = vault.floor /\ vault'.issuer = vault.issuer
  BY DEF SameStore
<1>4. "crossed" \notin scars' => \A d \in Client : InstallsGoForward(d)'
  BY <1>3, ForwardStays DEF BesidesTyped
<1>5. ASSUME scars' = {} PROVE EntitlementHolds'
  <2>1. scars = {} /\ harm' \in Nat /\ harm' >= harm
    BY <1>5 DEF BesidesTyped
  <2>2. StatusIsToBe' /\ (PairIsStored' \/ file'.kind # "device") /\ file'.kind # "torn"
        /\ (vault'.grant = NoGrant \/ vault'.grant.issuer # 0)
    BY <1>5, <2>1, StatusStays
  <2>3. QED
    BY <1>5, <2>1, <2>2, HoldsOn
<1>6. QED
  BY <1>1, <1>2, <1>4, <1>5 DEF EntitlementKnows

\* Nothing but a load opens, and only an install moves the marks.
LEMMA MovesForward ==
  ASSUME EntitlementKnows, NEW c \in Client, NEW new \in ClientRecords, client' = [client EXCEPT ![c] = new],
         (Next1(c) = "open" /\ new.order = "load") => MayOpen(c),
         vault'.floor < vault.floor => "crossed" \in scars \/ "lost" \in scars',
         (vault.issuer # 0 /\ vault'.issuer # vault.issuer) => "crossed" \in scars \/ "lost" \in scars'
  PROVE  GrantsOnlyMoveForward
<1>1. client'[c] = new /\ \A d \in Client \ {c} : client'[d] = client[d]
  BY OthersAreSane
<1>2. MayOpen(c) => /\ vault.grant.issuer = vault.issuer /\ vault.grant.version >= vault.floor
                    /\ vault.grant.device = client[c].met.device /\ clock >= vault.seen
  <2>1. clock \in Nat /\ vault.seen \in Nat
    BY StoredFacts DEF EntitlementKnows, EntitlementTyped
  <2>2. QED
    BY <2>1 DEF MayOpen, Admits, ClockIsBehind
<1>3. QED
  BY <1>1, <1>2 DEF GrantsOnlyMoveForward

\* A command that ends, refused, done or dead: what it had half written is told by the harm.
LEMMA QuitKeeps ==
  ASSUME EntitlementKnows, NEW c \in Client, Quits(c), UNCHANGED <<vault, file>>, BesidesTyped,
         Next1(c) \in {"revoked", "floor", "seen", "active"} => harm' > 0
  PROVE  EntitlementKnows' /\ GrantsOnlyMoveForward
<1>1. Away \in ClientRecords /\ client' = [client EXCEPT ![c] = Away]
  BY PlainFacts DEF Quits
<1>2. client'[c] = Away
  BY <1>1, OthersAreSane
<1>3. ClientIsSane(c)' /\ ~Writes(c)' /\ ~Installs(c)'
  BY <1>2 DEF ClientIsSane, Writes, Away, Installs, Next1, Installing
<1>4. WritesInOrder(c)'
  BY <1>3, IdleWritesNothing
<1>5. InstallsGoForward(c)'
  BY <1>2, <1>3 DEF InstallsGoForward, Next1, Away
<1>6. SameStore /\ vault' \in VaultRecords
  BY DEF SameStore, EntitlementKnows, EntitlementTyped
<1>7. EntitlementKnows'
  BY <1>1, <1>3, <1>4, <1>5, <1>6, MoveKeeps
<1>8. (Next1(c) = "open" /\ Away.order = "load") => MayOpen(c)
  BY PlainFacts
<1>9. ~(vault'.floor < vault.floor) /\ vault'.issuer = vault.issuer
  BY StoredFacts DEF EntitlementKnows
<1>10. QED
  BY <1>1, <1>7, <1>8, <1>9, MovesForward

\* A command is admitted: an overlap of two that write is remembered.
LEMMA StartOrderStep ==
  ASSUME EntitlementKnows, NEW c \in Client, NEW order \in DOMAIN Orders, StartOrder(c, order)
  PROVE  EntitlementKnows' /\ GrantsOnlyMoveForward
<1>1. DOMAIN Orders = {"activate", "sync", "load", "install", "renew"} /\ Orders["activate"] = "device" /\ Orders["sync"] = "metadata"
      /\ Orders["load"] = "metadata" /\ Orders["install"] = "licence" /\ Orders["renew"] = "legacy"
  BY DEF Orders
<1>2. PICK first : first = Orders[order]
  OBVIOUS
<1>3. first \in OrderSteps
  BY <1>1, <1>2 DEF OrderSteps
<1>4. PICK bare : bare = [Away EXCEPT !.order = order]
  OBVIOUS
<1>5. bare \in ClientRecords /\ bare.order = order
  BY <1>1, <1>4, PlainFacts DEF ClientRecords
<1>6. PICK new : new = [bare EXCEPT !.step = first]
  OBVIOUS
<1>7. new \in ClientRecords /\ new.order = order /\ new.step = first
  BY <1>3, <1>5, <1>6 DEF ClientRecords
<1>8. client' = [client EXCEPT ![c] = new]
  BY <1>2, <1>4, <1>6 DEF StartOrder
<1>9. client'[c] = new /\ client[c] = Away
  BY <1>7, <1>8, OthersAreSane DEF StartOrder
<1>10. new.step \in {"device", "metadata", "licence", "legacy"} /\ Next1(c)' = new.step /\ Next1(c) = "none"
  BY <1>1, <1>2, <1>7, <1>9, PlainFacts DEF Next1
<1>11. ~Installs(c)'
  BY <1>10 DEF Installs, Installing
<1>12. ClientIsSane(c)'
  BY <1>1, <1>2, <1>7, <1>9, <1>10, <1>11 DEF ClientIsSane
<1>13. InstallsGoForward(c)'
  BY <1>10, <1>11 DEF InstallsGoForward
<1>14. WritesInOrder(c)'
  BY <1>1, <1>2, <1>7, <1>9, <1>10, <1>11 DEF WritesInOrder
<1>15. scars' = {} => (Writes(c)' => \A d \in Client \ {c} : ~Writes(d))
  BY <1>7, <1>9 DEF StartOrder, Writes
<1>16. SameStore /\ vault' \in VaultRecords /\ UNCHANGED <<vault, server, clock, keys, harm>>
  BY DEF SameStore, EntitlementKnows, EntitlementTyped, StartOrder
<1>17. BesidesTyped
  <2>1. harm \in Nat /\ orders' \in Nat
    BY DEF EntitlementKnows, EntitlementTyped, StartOrder
  <2>2. scars \subseteq scars' /\ scars' \subseteq {"overlap", "crossed", "lost", "torn"}
    BY DEF StartOrder, EntitlementKnows, EntitlementTyped
  <2>3. QED
    BY <1>16, <2>1, <2>2 DEF BesidesTyped, EntitlementKnows, EntitlementTyped
<1>18. EntitlementKnows'
  BY <1>7, <1>8, <1>10, <1>11, <1>12, <1>13, <1>14, <1>15, <1>16, <1>17, MoveKeeps
<1>19. ~(vault'.floor < vault.floor) /\ vault'.issuer = vault.issuer
  BY <1>16, StoredFacts DEF EntitlementKnows
<1>20. QED
  BY <1>7, <1>8, <1>10, <1>18, <1>19, MovesForward

\* Nothing but the command and what is stored changes.
LEMMA BesidesSame ==
  ASSUME EntitlementKnows, UNCHANGED <<server, clock, keys, orders, harm, scars>>
  PROVE  BesidesTyped
BY DEF BesidesTyped, EntitlementKnows, EntitlementTyped

\* A command goes on and writes nothing.
LEMMA StepKeeps ==
  ASSUME EntitlementKnows, NEW c \in Client, NEW new \in ClientRecords, client' = [client EXCEPT ![c] = new],
         UNCHANGED <<vault, file>>, BesidesTyped, new.order = client[c].order, ClientIsSane(c)',
         "crossed" \notin scars' => InstallsGoForward(c)' /\ (Installs(c)' => Installs(c) \/ \A d \in Client \ {c} : ~Installs(d)),
         scars' = {} => WritesInOrder(c)', Next1(c) \notin {"open", "revoked", "floor", "seen", "active"}
  PROVE  EntitlementKnows' /\ GrantsOnlyMoveForward
<1>1. client'[c] = new
  BY OthersAreSane
<1>2. SameStore /\ vault' \in VaultRecords
  BY DEF SameStore, EntitlementKnows, EntitlementTyped
<1>3. Writes(c)' <=> Writes(c)
  BY <1>1 DEF Writes
<1>4. EntitlementKnows'
  BY <1>2, <1>3, MoveKeeps
<1>5. ~(vault'.floor < vault.floor) /\ vault'.issuer = vault.issuer
  BY StoredFacts DEF EntitlementKnows
<1>6. QED
  BY <1>4, <1>5, MovesForward

\* What is known of a command before it moves.
LEMMA KnownFacts ==
  ASSUME EntitlementKnows, NEW c \in Client
  PROVE  /\ client[c] \in ClientRecords /\ ClientIsSane(c) /\ EntitlementTyped
         /\ "crossed" \notin scars => InstallsGoForward(c)
         /\ scars = {} => EntitlementHolds /\ WritesInOrder(c)
BY ClientFacts DEF EntitlementKnows, EntitlementHolds

\* The metadata is read, or the command ends.
LEMMA ReadMetadataStep ==
  ASSUME EntitlementKnows, NEW c \in Client, ReadMetadata(c) PROVE EntitlementKnows' /\ GrantsOnlyMoveForward
<1>1. Next1(c) = "metadata" /\ client[c].step = "metadata" /\ UNCHANGED <<vault, file>> /\ BesidesTyped
  BY BesidesSame DEF ReadMetadata, Next1
<1>2. CASE Quits(c)
  BY <1>1, <1>2, QuitKeeps
<1>3. CASE file.kind = "device" /\ Proceeds(c, [client[c] EXCEPT !.met = file])
  <2>1. PICK with : with = [client[c] EXCEPT !.met = file]
    OBVIOUS
  <2>2. with \in ClientRecords /\ with.met = file /\ with.step = "metadata" /\ with.order = client[c].order
    BY <1>1, <2>1, KnownFacts DEF ClientRecords, EntitlementKnows, EntitlementTyped
  <2>3. PICK new \in ClientRecords : /\ client' = [client EXCEPT ![c] = new] /\ client'[c] = new /\ new.step = Following(with)
                                     /\ new.order = with.order /\ new.met = with.met
    <3>1. Proceeds(c, with)
      BY <1>3, <2>1, Zenon
    <3>2. EntitlementTyped
      BY DEF EntitlementKnows
    <3>3. QED
      BY <2>2, <3>1, <3>2, ProceedsFacts
  <2>4. Following(with) = IF with.order = "load" THEN "open" ELSE "device"
    BY <2>2, FollowingFacts
  <2>5. PICK step : step = new.step
    OBVIOUS
  <2>6. step = (IF new.order = "load" THEN "open" ELSE "device") /\ Next1(c)' = step /\ client'[c].step = step
    BY <2>3, <2>4, <2>5 DEF Next1
  <2>7. ~Installs(c)'
    BY <2>6 DEF Installs, Installing
  <2>8. ClientIsSane(c)'
    BY <1>1, <2>2, <2>3, <2>6, <2>7, KnownFacts DEF ClientIsSane, Away
  <2>9. InstallsGoForward(c)'
    BY <2>6, <2>7 DEF InstallsGoForward
  <2>10. WritesInOrder(c)'
    BY <1>1, <1>3, <2>2, <2>3, <2>6, <2>7 DEF WritesInOrder
  <2>11. QED
    BY <1>1, <2>2, <2>3, <2>7, <2>8, <2>9, <2>10, StepKeeps
<1>4. QED
  BY <1>2, <1>3 DEF ReadMetadata

\* The pair is found, or a new one made, which is not done while the metadata names one.
LEMMA PrepareDeviceStep ==
  ASSUME EntitlementKnows, NEW c \in Client, PrepareDevice(c) PROVE EntitlementKnows' /\ GrantsOnlyMoveForward
<1>1. Next1(c) = "device" /\ client[c].step = "device" /\ UNCHANGED <<vault, file>> /\ UNCHANGED <<server, clock, orders, harm, scars>>
  BY DEF PrepareDevice, Next1
<1>2. BesidesTyped
  BY <1>1 DEF PrepareDevice, BesidesTyped, EntitlementKnows, EntitlementTyped
<1>3. client[c].order \in {"activate", "sync"}
  BY <1>1, KnownFacts, ClientFacts DEF ClientIsSane, Away
<1>4. CASE Quits(c)
  BY <1>1, <1>2, <1>4, QuitKeeps
<1>5. CASE HasDevice /\ Proceeds(c, [client[c] EXCEPT !.device = [public |-> file.device, agreement |-> vault.agreement, signing |-> vault.signing]])
  <2>1. PICK pair : pair = [public |-> file.device, agreement |-> vault.agreement, signing |-> vault.signing]
    OBVIOUS
  <2>2. pair \in Devices /\ pair.public = file.device /\ file.kind = "device"
    BY <1>5, <2>1, StoredFacts DEF Devices, EntitlementKnows, HasDevice, Metadata, NoFile
  <2>3. PICK with : with = [client[c] EXCEPT !.device = pair]
    OBVIOUS
  <2>4. with \in ClientRecords /\ with.device = pair /\ with.step = "device" /\ with.order = client[c].order /\ with.met = client[c].met
    BY <1>1, <2>2, <2>3, KnownFacts DEF ClientRecords
  <2>5. PICK new \in ClientRecords : /\ client' = [client EXCEPT ![c] = new] /\ client'[c] = new /\ new.step = Following(with)
                                     /\ new.order = with.order /\ new.met = with.met /\ new.device = pair
    <3>1. Proceeds(c, with) /\ EntitlementTyped
      BY <1>5, <2>1, <2>3, KnownFacts
    <3>2. QED
      BY <2>4, <3>1, ProceedsFacts
  <2>6. Following(with) = IF with.order = "activate" THEN "activation" ELSE "exchange"
    BY <2>4, FollowingFacts
  <2>7. PICK step : step = new.step
    OBVIOUS
  <2>8. step = (IF new.order = "activate" THEN "activation" ELSE "exchange") /\ Next1(c)' = step /\ client'[c].step = step
    BY <2>4, <2>5, <2>6, <2>7 DEF Next1
  <2>9. ~Installs(c)' /\ new.order \in {"activate", "sync"}
    BY <1>3, <2>4, <2>5, <2>8 DEF Installs, Installing
  <2>10. ClientIsSane(c)'
    BY <1>1, <2>5, <2>8, <2>9 DEF ClientIsSane
  <2>11. InstallsGoForward(c)'
    BY <2>8, <2>9 DEF InstallsGoForward
  <2>12. scars' = {} => WritesInOrder(c)'
    <3>1. scars' = {} => (client[c].order = "sync" => client[c].met.kind = "device" /\ client[c].met.device = file.device)
      BY <1>1, KnownFacts DEF WritesInOrder
    <3>2. client'[c].device.public = file.device /\ UNCHANGED file
      BY <1>1, <2>2, <2>5
    <3>3. QED
      BY <2>2, <2>4, <2>5, <2>8, <2>9, <3>1, <3>2 DEF WritesInOrder
  <2>13. QED
    BY <1>1, <1>2, <2>4, <2>5, <2>9, <2>10, <2>11, <2>12, StepKeeps
<1>6. CASE ~HasDevice /\ LET pair == [public |-> keys + 1, agreement |-> keys + 1, signing |-> keys + 1] IN
             client' = [client EXCEPT ![c] = [client[c] EXCEPT !.device = pair, !.step = "agreement"]]
  <2>1. PICK pair : pair = [public |-> keys + 1, agreement |-> keys + 1, signing |-> keys + 1]
    OBVIOUS
  <2>2. keys \in Nat
    BY DEF EntitlementKnows, EntitlementTyped
  <2>3. pair \in Devices /\ pair.public # 0 /\ pair.agreement = pair.public /\ pair.signing = pair.public
    BY <2>1, <2>2 DEF Devices
  <2>4. PICK mid : mid = [client[c] EXCEPT !.device = pair]
    OBVIOUS
  <2>5. mid \in ClientRecords /\ mid.device = pair /\ mid.order = client[c].order /\ mid.met = client[c].met
    BY <2>3, <2>4, KnownFacts DEF ClientRecords
  <2>6. PICK new : new = [mid EXCEPT !.step = "agreement"]
    OBVIOUS
  <2>7. new \in ClientRecords /\ new.device = pair /\ new.order = client[c].order /\ new.met = client[c].met /\ new.step = "agreement"
    BY <2>5, <2>6 DEF ClientRecords, OrderSteps
  <2>8. client' = [client EXCEPT ![c] = new]
    BY <1>6, <2>1, <2>4, <2>6
  <2>9. client'[c] = new /\ Next1(c)' = "agreement"
    BY <2>7, <2>8, OthersAreSane DEF Next1
  <2>10. ~Installs(c)'
    BY <2>9 DEF Installs, Installing
  <2>11. ClientIsSane(c)'
    BY <1>3, <2>3, <2>7, <2>9, <2>10 DEF ClientIsSane
  <2>12. InstallsGoForward(c)'
    BY <2>9, <2>10 DEF InstallsGoForward
  <2>13. scars' = {} => WritesInOrder(c)'
    <3>1. scars' = {} => file.kind # "device"
      BY <1>1, <1>6, KnownFacts DEF EntitlementHolds, PairIsStored, HasDevice, Metadata
    <3>2. scars' = {} => client[c].order # "sync"
      BY <1>1, <3>1, KnownFacts DEF WritesInOrder
    <3>3. QED
      BY <1>1, <2>7, <2>9, <2>10, <3>1, <3>2 DEF WritesInOrder
  <2>14. QED
    BY <1>1, <1>2, <2>7, <2>8, <2>10, <2>11, <2>12, <2>13, StepKeeps
<1>7. QED
  BY <1>4, <1>5, <1>6 DEF PrepareDevice

\* The device is told to the server, which grants.
LEMMA ActivationStep ==
  ASSUME EntitlementKnows, NEW c \in Client, Activation(c) PROVE EntitlementKnows' /\ GrantsOnlyMoveForward
<1>1. Next1(c) = "activation" /\ client[c].step = "activation" /\ UNCHANGED <<vault, file, clock, keys, orders, harm, scars>>
  BY DEF Activation, Next1
<1>2. CASE Quits(c) /\ server' = server
  BY <1>1, <1>2, QuitKeeps, BesidesSame
<1>3. CASE server' = [server EXCEPT !.device = client[c].device.public]
           /\ Proceeds(c, [client[c] EXCEPT !.reply = [version |-> server.version, device |-> client[c].device.public, issuer |-> server.issuer]])
  <2>1. PICK grant : grant = [version |-> server.version, device |-> client[c].device.public, issuer |-> server.issuer]
    OBVIOUS
  <2>2. grant \in Grants /\ grant.issuer # 0 /\ EntitlementTyped
    BY <2>1, StoredFacts, ClientFacts DEF Grants, EntitlementKnows
  <2>3. PICK with : with = [client[c] EXCEPT !.reply = grant]
    OBVIOUS
  <2>4. with \in ClientRecords /\ with.reply = grant /\ with.step = "activation" /\ with.order = client[c].order
        /\ with.met = client[c].met /\ with.device = client[c].device
    BY <1>1, <2>2, <2>3, KnownFacts DEF ClientRecords
  <2>5. Proceeds(c, with)
    BY <1>3, <2>1, <2>3
  <2>6. PICK new \in ClientRecords : /\ client' = [client EXCEPT ![c] = new] /\ client'[c] = new /\ new.step = Following(with)
                                     /\ new.order = with.order /\ new.met = with.met /\ new.device = with.device /\ new.reply = grant
    BY <2>2, <2>4, <2>5, ProceedsFacts
  <2>7. new.step = "authorize" /\ Next1(c)' = "authorize"
    BY <2>4, <2>6, FollowingFacts DEF Next1
  <2>8. ~Installs(c)'
    BY <2>7 DEF Installs, Installing
  <2>9. ClientIsSane(c)'
    <3>1. ClientIsSane(c) /\ client[c].order # "none"
      BY <1>1, KnownFacts, PlainFacts DEF ClientIsSane
    <3>2. QED
      BY <1>1, <2>2, <2>4, <2>6, <2>7, <2>8, <3>1 DEF ClientIsSane
  <2>10. InstallsGoForward(c)'
    BY <2>7, <2>8 DEF InstallsGoForward
  <2>11. scars' = {} => WritesInOrder(c)'
    <3>1. scars' = {} => file'.kind = "device" /\ client'[c].device.public = file'.device
      BY <1>1, <2>4, <2>6, KnownFacts DEF WritesInOrder
    <3>2. client'[c].order # "sync"
      BY <1>1, <2>4, <2>6, KnownFacts DEF ClientIsSane
    <3>3. QED
      BY <2>7, <2>8, <3>1, <3>2 DEF WritesInOrder
  <2>12. BesidesTyped
    <3>1. server' \in [version : Nat, live : BOOLEAN, issuer : {1, 2}, device : Nat]
      BY <1>3, <2>2, ClientFacts DEF EntitlementTyped
    <3>2. QED
      BY <1>1, <2>2, <3>1 DEF BesidesTyped, EntitlementTyped
  <2>13. QED
    BY <1>1, <2>4, <2>6, <2>8, <2>9, <2>10, <2>11, <2>12, StepKeeps
<1>4. QED
  BY <1>2, <1>3 DEF Activation

\* A known device is answered: a grant to authorize, or a revocation to write.
LEMMA ExchangeStep ==
  ASSUME EntitlementKnows, NEW c \in Client, Exchange(c) PROVE EntitlementKnows' /\ GrantsOnlyMoveForward
<1>1. Next1(c) = "exchange" /\ client[c].step = "exchange" /\ UNCHANGED <<vault, file>> /\ BesidesTyped /\ scars' = scars
  BY BesidesSame DEF Exchange, Next1
<1>2. CASE Quits(c)
  BY <1>1, <1>2, QuitKeeps
<1>3. CASE LET grant == [version |-> server.version, device |-> client[c].device.public, issuer |-> server.issuer] IN
           client' = [client EXCEPT ![c] = [client[c] EXCEPT !.reply = grant, !.step = IF server.live THEN "authorize" ELSE Revoking]]
  <2>1. PICK grant : grant = [version |-> server.version, device |-> client[c].device.public, issuer |-> server.issuer]
    OBVIOUS
  <2>2. grant \in Grants /\ grant.issuer # 0 /\ EntitlementTyped
    BY <2>1, StoredFacts, ClientFacts DEF Grants, EntitlementKnows
  <2>3. PICK mid : mid = [client[c] EXCEPT !.reply = grant]
    OBVIOUS
  <2>4. mid \in ClientRecords /\ mid.reply = grant /\ mid.order = client[c].order /\ mid.met = client[c].met /\ mid.device = client[c].device
    BY <2>2, <2>3, KnownFacts DEF ClientRecords
  <2>5. PICK step : step = IF server.live THEN "authorize" ELSE Revoking
    OBVIOUS
  <2>6. step \in {"authorize", "drop"}
    BY <2>5 DEF Revoking
  <2>7. PICK new : new = [mid EXCEPT !.step = step]
    OBVIOUS
  <2>8. new \in ClientRecords /\ new.reply = grant /\ new.order = client[c].order /\ new.met = client[c].met
        /\ new.device = client[c].device /\ new.step = step
    BY <2>4, <2>6, <2>7 DEF ClientRecords, OrderSteps
  <2>9. client' = [client EXCEPT ![c] = new]
    BY <1>3, <2>1, <2>3, <2>5, <2>7
  <2>10. client'[c] = new /\ Next1(c)' = step
    BY <2>8, <2>9, OthersAreSane DEF Next1
  <2>11. ~Installs(c)'
    BY <2>6, <2>10 DEF Installs, Installing
  <2>12. ClientIsSane(c)'
    <3>1. ClientIsSane(c) /\ client[c].order # "none"
      BY <1>1, KnownFacts, PlainFacts DEF ClientIsSane
    <3>2. QED
      BY <1>1, <2>2, <2>6, <2>8, <2>10, <2>11, <3>1 DEF ClientIsSane
  <2>13. InstallsGoForward(c)'
    BY <2>6, <2>10, <2>11 DEF InstallsGoForward
  <2>14. scars' = {} => WritesInOrder(c)'
    <3>1. scars' = {} => /\ file'.kind = "device" /\ client'[c].device.public = file'.device
                         /\ client[c].order = "sync" => client[c].met.kind = "device" /\ client[c].met.device = file.device
      BY <1>1, <2>8, <2>10, KnownFacts DEF WritesInOrder
    <3>2. QED
      BY <1>1, <2>6, <2>8, <2>10, <2>11, <3>1 DEF WritesInOrder
  <2>15. QED
    BY <1>1, <2>8, <2>9, <2>11, <2>12, <2>13, <2>14, StepKeeps
<1>4. QED
  BY <1>2, <1>3 DEF Exchange

\* The reply is authorised against the pin and the mark: if no other install is under way, it will only go forward.
LEMMA AuthorizeStep ==
  ASSUME EntitlementKnows, NEW c \in Client, Authorize(c) PROVE EntitlementKnows' /\ GrantsOnlyMoveForward
<1>1. Next1(c) = "authorize" /\ client[c].step = "authorize" /\ UNCHANGED <<vault, file>> /\ UNCHANGED <<server, clock, keys, orders, harm>>
  BY DEF Authorize, Next1
<1>2. BesidesTyped
  BY <1>1 DEF Authorize, BesidesTyped, EntitlementKnows, EntitlementTyped
<1>3. CASE Quits(c)
  BY <1>1, <1>2, <1>3, QuitKeeps
<1>4. CASE ~Quits(c)
  <2>1. PICK pin : pin = IF vault.issuer = 0 THEN client[c].reply.issuer ELSE vault.issuer
    OBVIOUS
  <2>2. Admits(client[c].reply, pin, vault.floor, client[c].device)
    BY <1>4, <2>1 DEF Authorize
  <2>3. /\ client' = [client EXCEPT ![c] = [client[c] EXCEPT !.step = IF vault.issuer = 0 THEN "issuer" ELSE Installing.issuer]]
        /\ scars' = scars \union (IF \E d \in Client \ {c} : Installs(d) THEN {"crossed"} ELSE {})
    BY <1>4, <2>1 DEF Authorize
  <2>4. client[c].reply.issuer = pin /\ client[c].reply.version >= vault.floor /\ client[c].reply.device = client[c].device.public
    BY <2>2 DEF Admits
  <2>5. PICK step : step = IF vault.issuer = 0 THEN "issuer" ELSE "grant"
    OBVIOUS
  <2>6. PICK new : new = [client[c] EXCEPT !.step = step]
    OBVIOUS
  <2>7. new \in ClientRecords /\ new.step = step /\ new.order = client[c].order /\ new.reply = client[c].reply
        /\ new.device = client[c].device /\ new.met = client[c].met
    BY <2>5, <2>6, KnownFacts DEF ClientRecords, OrderSteps
  <2>8. client' = [client EXCEPT ![c] = new]
    BY <2>3, <2>5, <2>6 DEF Installing
  <2>9. client'[c] = new /\ Next1(c)' = step
    BY <2>7, <2>8, OthersAreSane DEF Next1
  <2>10. ClientIsSane(c)'
    <3>1. ClientIsSane(c) /\ client[c].order # "none"
      BY <1>1, KnownFacts, PlainFacts DEF ClientIsSane
    <3>2. QED
      BY <1>1, <2>5, <2>7, <2>9, <3>1 DEF ClientIsSane
  <2>11. "crossed" \notin scars' => \A d \in Client \ {c} : ~Installs(d) /\ ~Installs(d)'
    <3>1. \A d \in Client \ {c} : client'[d] = client[d]
      BY <2>7, <2>8, OthersAreSane
    <3>2. QED
      BY <2>3, <3>1 DEF Installs, Next1
  <2>12. "crossed" \notin scars' => InstallsGoForward(c)'
    BY <1>1, <2>4, <2>5, <2>7, <2>9, <2>11 DEF InstallsGoForward
  <2>13. scars' = {} => WritesInOrder(c)'
    <3>1. scars' = {} => scars = {}
      BY <2>3
    <3>2. scars' = {} => /\ file'.kind = "device" /\ client'[c].device.public = file'.device
                         /\ client[c].order = "sync" => client[c].met.kind = "device" /\ client[c].met.device = file.device
      BY <1>1, <2>7, <2>9, <3>1, KnownFacts DEF WritesInOrder
    <3>3. step = "grant" => client[c].reply.issuer = vault.issuer
      BY <2>1, <2>4, <2>5
    <3>4. QED
      BY <1>1, <2>4, <2>5, <2>7, <2>9, <3>2, <3>3 DEF WritesInOrder
  <2>14. QED
    BY <1>1, <1>2, <2>7, <2>8, <2>10, <2>11, <2>12, <2>13, StepKeeps
<1>5. QED
  BY <1>3, <1>4

\* A command goes on with what it has in memory.
LEMMA GoesOn ==
  ASSUME EntitlementTyped, NEW c \in Client, Proceeds(c, client[c])
  PROVE  \E new \in ClientRecords :
           /\ client' = [client EXCEPT ![c] = new] /\ client'[c] = new /\ new.step = Following(client[c]) /\ Next1(c)' = new.step
           /\ new.order = client[c].order /\ new.device = client[c].device /\ new.reply = client[c].reply /\ new.met = client[c].met
<1>1. client[c] \in ClientRecords
  BY ClientFacts
<1>2. PICK new \in ClientRecords :
           /\ client' = [client EXCEPT ![c] = new] /\ client'[c] = new /\ new.step = Following(client[c])
           /\ new.order = client[c].order /\ new.device = client[c].device /\ new.reply = client[c].reply /\ new.met = client[c].met
  BY <1>1, ProceedsFacts
<1>3. QED
  BY <1>2 DEF Next1

\* A legacy licence is read and its server asked.
LEMMA LegacyStep ==
  ASSUME EntitlementKnows, NEW c \in Client, ReadLegacy(c) \/ Answer(c) PROVE EntitlementKnows' /\ GrantsOnlyMoveForward
<1>1. Next1(c) \in {"legacy", "answer"} /\ client[c].step = Next1(c) /\ UNCHANGED <<vault, file>> /\ BesidesTyped /\ EntitlementTyped
  BY BesidesSame, KnownFacts DEF ReadLegacy, Answer, Next1
<1>2. CASE Quits(c)
  BY <1>1, <1>2, QuitKeeps
<1>3. CASE Proceeds(c, client[c])
  <2>1. PICK new \in ClientRecords :
           /\ client' = [client EXCEPT ![c] = new] /\ client'[c] = new /\ new.step = Following(client[c]) /\ Next1(c)' = new.step
           /\ new.order = client[c].order /\ new.device = client[c].device /\ new.reply = client[c].reply /\ new.met = client[c].met
    BY <1>1, <1>3, GoesOn
  <2>2. new.step \in {"answer", "licence"}
    BY <1>1, <2>1, KnownFacts, FollowingFacts
  <2>3. ~Installs(c)'
    BY <2>1, <2>2 DEF Installs, Installing
  <2>4. client[c].order \in {"install", "renew"}
    BY <1>1, KnownFacts, ClientFacts, PlainFacts DEF ClientIsSane
  <2>5. ClientIsSane(c)' /\ InstallsGoForward(c)' /\ WritesInOrder(c)'
    BY <2>1, <2>2, <2>3, <2>4 DEF ClientIsSane, InstallsGoForward, WritesInOrder
  <2>6. QED
    BY <1>1, <2>1, <2>3, <2>5, StepKeeps
<1>4. QED
  BY <1>2, <1>3 DEF ReadLegacy, Answer

\* A command that is done or killed.
LEMMA LeaveStep ==
  ASSUME EntitlementKnows, NEW c \in Client, Return(c) \/ Die(c) PROVE EntitlementKnows' /\ GrantsOnlyMoveForward
<1>1. CASE Return(c)
  <2>1. Quits(c) /\ UNCHANGED <<vault, file>> /\ BesidesTyped /\ Next1(c) = "end"
    BY <1>1, BesidesSame DEF Return
  <2>2. QED
    BY <2>1, QuitKeeps
<1>2. CASE Die(c)
  <2>1. Quits(c) /\ UNCHANGED <<vault, file>> /\ UNCHANGED <<server, clock, keys, orders, scars>> /\ harm' = harm + 1
    BY <1>2 DEF Die
  <2>2. BesidesTyped /\ harm' > 0
    BY <2>1 DEF BesidesTyped, EntitlementKnows, EntitlementTyped
  <2>3. QED
    BY <2>1, <2>2, QuitKeeps
<1>3. QED
  BY <1>1, <1>2

\* The larger of two numbers is one.
LEMMA MaxOfTwo == ASSUME NEW a \in Nat, NEW b \in Nat PROVE Max({a, b}) \in Nat
<1>1. CASE a >= b
  <2>1. a \in {a, b} /\ \A y \in {a, b} : a >= y
    BY <1>1
  <2>2. QED
    BY <2>1 DEF Max
<1>2. CASE b >= a
  <2>1. b \in {a, b} /\ \A y \in {a, b} : b >= y
    BY <1>2
  <2>2. QED
    BY <2>1 DEF Max
<1>3. QED
  BY <1>1, <1>2

\* A load opens what is authorised, and writes the time it has seen.
LEMMA OpenStep ==
  ASSUME EntitlementKnows, NEW c \in Client, Open(c) PROVE EntitlementKnows' /\ GrantsOnlyMoveForward
<1>1. Next1(c) = "open" /\ client[c].step = "open" /\ UNCHANGED <<file>> /\ BesidesTyped /\ EntitlementTyped
  BY BesidesSame, KnownFacts DEF Open, Next1
<1>2. CASE Quits(c) /\ vault' = vault
  BY <1>1, <1>2, QuitKeeps
<1>3. CASE MayOpen(c) /\ Proceeds(c, client[c]) /\ vault' = [vault EXCEPT !.seen = Max({vault.seen, clock})]
  <2>1. PICK new \in ClientRecords :
           /\ client' = [client EXCEPT ![c] = new] /\ client'[c] = new /\ new.step = Following(client[c]) /\ Next1(c)' = new.step
           /\ new.order = client[c].order /\ new.device = client[c].device /\ new.reply = client[c].reply /\ new.met = client[c].met
    BY <1>1, <1>3, GoesOn
  <2>2. new.step = "end"
    BY <1>1, <2>1, KnownFacts, FollowingFacts
  <2>3. ~Installs(c)'
    BY <2>1, <2>2 DEF Installs, Installing
  <2>4. ClientIsSane(c)' /\ InstallsGoForward(c)' /\ WritesInOrder(c)'
    <3>1. client[c].order # "none"
      BY <1>1, KnownFacts, PlainFacts DEF ClientIsSane
    <3>2. QED
      BY <2>1, <2>2, <2>3, <3>1 DEF ClientIsSane, InstallsGoForward, WritesInOrder
  <2>5. Max({vault.seen, clock}) \in Nat
    BY <1>1, StoredFacts, MaxOfTwo DEF EntitlementTyped
  <2>6. SameStore /\ vault' \in VaultRecords
    BY <1>1, <1>3, <2>5 DEF SameStore, EntitlementTyped, VaultRecords
  <2>7. Writes(c)' <=> Writes(c)
    BY <2>1 DEF Writes
  <2>8. EntitlementKnows'
    BY <1>1, <2>1, <2>3, <2>4, <2>6, <2>7, MoveKeeps
  <2>9. ~(vault'.floor < vault.floor) /\ vault'.issuer = vault.issuer
    BY <1>1, <2>6, StoredFacts DEF SameStore
  <2>10. QED
    BY <1>3, <2>1, <2>8, <2>9, MovesForward
<1>4. QED
  BY <1>2, <1>3 DEF Open

\* The server and the clock change: nothing is written.
LEMMA WorldStep ==
  ASSUME EntitlementKnows, ServerChanges \/ ClockChanges \/ UNCHANGED entitlementVars
  PROVE  EntitlementKnows' /\ GrantsOnlyMoveForward
<1>1. UNCHANGED <<client, vault, file, keys, orders, scars>> /\ harm' \in Nat /\ harm' >= harm
  BY DEF ServerChanges, ClockChanges, entitlementVars, EntitlementKnows, EntitlementTyped
<1>2. server' \in [version : Nat, live : BOOLEAN, issuer : {1, 2}, device : Nat]
  <2>1. CASE ServerChanges
    <3>1. server.version + 1 \in Nat /\ 3 - server.issuer \in {1, 2}
      BY StoredFacts DEF EntitlementKnows
    <3>2. QED
      BY <2>1, <3>1 DEF ServerChanges, EntitlementKnows, EntitlementTyped
  <2>2. QED
    BY <2>1 DEF ClockChanges, entitlementVars, EntitlementKnows, EntitlementTyped
<1>3. clock' \in Nat
  BY DEF ServerChanges, ClockChanges, entitlementVars, EntitlementKnows, EntitlementTyped
<1>4. EntitlementTyped'
  BY <1>1, <1>2, <1>3 DEF EntitlementKnows, EntitlementTyped
<1>5. \A c \in Client : ClientIsSane(c)'
  BY <1>1 DEF EntitlementKnows, ClientIsSane, Installs, Next1
<1>6. "crossed" \notin scars' => \A c \in Client : InstallsGoForward(c)'
  BY <1>1 DEF EntitlementKnows, InstallsGoForward, Installs, Next1
<1>7. ASSUME scars' = {} PROVE EntitlementHolds'
  <2>1. EntitlementHolds
    BY <1>1, <1>7 DEF EntitlementKnows
  <2>2. \A c \in Client : WritesInOrder(c)'
    BY <1>1, <2>1 DEF EntitlementHolds, WritesInOrder, Installs, Next1
  <2>3. StatusIsToBe'
    <3>1. harm > 0 => harm' > 0
      BY <1>1 DEF EntitlementKnows, EntitlementTyped
    <3>2. QED
      BY <1>1, <2>1, <3>1 DEF EntitlementHolds, StatusIsToBe, GrantIsLoadable, Next1
  <2>4. QED
    BY <1>1, <2>1, <2>2, <2>3 DEF EntitlementHolds, Writes, PairIsStored
<1>8. GrantsOnlyMoveForward
  <2>1. ~(vault'.floor < vault.floor)
    BY <1>1, StoredFacts DEF EntitlementKnows
  <2>2. QED
    BY <1>1, <2>1 DEF GrantsOnlyMoveForward
<1>9. QED
  BY <1>4, <1>5, <1>6, <1>7, <1>8 DEF EntitlementKnows

\* A command writes: what it leaves is what its next step is told.
LEMMA GrantWriteKeeps ==
  ASSUME EntitlementKnows, NEW c \in Client, NEW new \in ClientRecords, client' = [client EXCEPT ![c] = new],
         vault' \in VaultRecords, file' \in FileRecords, BesidesTyped, ClientIsSane(c)',
         "crossed" \notin scars' => InstallsGoForward(c)' /\ (Installs(c)' => Installs(c)),
         Installs(c) \/ (vault'.floor = vault.floor /\ vault'.issuer = vault.issuer),
         scars' = {} =>
           /\ Writes(c) /\ WritesInOrder(c)' /\ StatusIsToBe' /\ (PairIsStored' \/ file'.kind # "device") /\ file'.kind # "torn"
           /\ vault'.grant = NoGrant \/ vault'.grant.issuer # 0
  PROVE  EntitlementKnows'
<1>1. \A d \in Client : ClientIsSane(d)'
  BY OthersAreSane
<1>2. EntitlementTyped'
  BY OthersAreSane DEF EntitlementKnows, EntitlementTyped, BesidesTyped
<1>3. "crossed" \notin scars' => \A d \in Client : InstallsGoForward(d)'
  BY ForwardStays DEF BesidesTyped
<1>4. scars' = {} => EntitlementHolds'
  BY HoldsOn DEF BesidesTyped
<1>5. QED
  BY <1>1, <1>2, <1>3, <1>4 DEF EntitlementKnows

\* Which secret a step writes.
LEMMA SecretFacts ==
  ASSUME EntitlementTyped, NEW c \in Client, Secret(c) # <<>>
  PROVE  /\ client[c].step = Next1(c) /\ Next1(c) \in {"agreement", "signing", "issuer", "grant", "floor", "seen", "drop"}
         /\ Next1(c) = "agreement" => Secret(c)[1] = "agreement" /\ Secret(c)[2] = client[c].device.agreement
         /\ Next1(c) = "signing" => Secret(c)[1] = "signing" /\ Secret(c)[2] = client[c].device.signing
         /\ Next1(c) = "issuer" => Secret(c)[1] = "issuer" /\ Secret(c)[2] = client[c].reply.issuer
         /\ Next1(c) = "grant" => Secret(c)[1] = "grant" /\ Secret(c)[2] = client[c].reply
         /\ Next1(c) = "floor" => Secret(c)[1] = "floor" /\ Secret(c)[2] = client[c].reply.version
         /\ Next1(c) = "seen" => Secret(c)[1] = "seen" /\ Secret(c)[2] = clock
         /\ Next1(c) = "drop" => Secret(c)[1] = "grant" /\ Secret(c)[2] = NoGrant
<1>1. Next1(c) \in {"agreement", "signing", "issuer", "grant", "floor", "seen", "drop"}
  BY DEF Secret
<1>2. QED
  BY <1>1 DEF Secret, Next1

\* What a write of the store that goes well leaves, by its step.
LEMMA StoredWell ==
  ASSUME EntitlementTyped, NEW c \in Client, Secret(c) # <<>>, vault' = [vault EXCEPT ![Secret(c)[1]] = Secret(c)[2]]
  PROVE  /\ vault' \in VaultRecords
         /\ vault'.agreement = IF Next1(c) = "agreement" THEN client[c].device.agreement ELSE vault.agreement
         /\ vault'.signing = IF Next1(c) = "signing" THEN client[c].device.signing ELSE vault.signing
         /\ vault'.issuer = IF Next1(c) = "issuer" THEN client[c].reply.issuer ELSE vault.issuer
         /\ vault'.floor = IF Next1(c) = "floor" THEN client[c].reply.version ELSE vault.floor
         /\ vault'.grant = IF Next1(c) = "grant" THEN client[c].reply ELSE IF Next1(c) = "drop" THEN NoGrant ELSE vault.grant
<1>1. vault \in VaultRecords /\ clock \in Nat /\ NoGrant \in Grants
  BY PlainFacts DEF EntitlementTyped
<1>2. CASE Next1(c) = "agreement"
  <2>1. vault' = [vault EXCEPT !["agreement"] = client[c].device.agreement]
    BY <1>2, SecretFacts
  <2>2. QED
    BY <1>1, <1>2, <2>1, ClientFacts DEF VaultRecords
<1>3. CASE Next1(c) = "signing"
  <2>1. vault' = [vault EXCEPT !["signing"] = client[c].device.signing]
    BY <1>3, SecretFacts
  <2>2. QED
    BY <1>1, <1>3, <2>1, ClientFacts DEF VaultRecords
<1>4. CASE Next1(c) = "issuer"
  <2>1. vault' = [vault EXCEPT !["issuer"] = client[c].reply.issuer]
    BY <1>4, SecretFacts
  <2>2. QED
    BY <1>1, <1>4, <2>1, ClientFacts DEF VaultRecords
<1>5. CASE Next1(c) = "grant"
  <2>1. vault' = [vault EXCEPT !["grant"] = client[c].reply]
    BY <1>5, SecretFacts
  <2>2. QED
    BY <1>1, <1>5, <2>1, ClientFacts DEF VaultRecords
<1>6. CASE Next1(c) = "floor"
  <2>1. vault' = [vault EXCEPT !["floor"] = client[c].reply.version]
    BY <1>6, SecretFacts
  <2>2. QED
    BY <1>1, <1>6, <2>1, ClientFacts DEF VaultRecords
<1>7. CASE Next1(c) = "seen"
  <2>1. vault' = [vault EXCEPT !["seen"] = clock]
    BY <1>7, SecretFacts
  <2>2. QED
    BY <1>1, <1>7, <2>1, ClientFacts DEF VaultRecords
<1>8. CASE Next1(c) = "drop"
  <2>1. vault' = [vault EXCEPT !["grant"] = NoGrant]
    BY <1>8, SecretFacts
  <2>2. QED
    BY <1>1, <1>8, <2>1, ClientFacts DEF VaultRecords
<1>9. QED
  BY <1>2, <1>3, <1>4, <1>5, <1>6, <1>7, <1>8, SecretFacts

\* A secret that is lost: its field is empty, and the marks only of an install.
LEMMA LostFacts ==
  ASSUME EntitlementTyped, NEW c \in Client, Secret(c) # <<>>, vault' = [vault EXCEPT ![Secret(c)[1]] = NoVault[Secret(c)[1]]]
  PROVE  vault' \in VaultRecords /\ (Installs(c) \/ (vault'.floor = vault.floor /\ vault'.issuer = vault.issuer))
<1>1. vault \in VaultRecords /\ NoVault \in VaultRecords
  BY PlainFacts DEF EntitlementTyped
<1>2. PICK name : name = Secret(c)[1]
  OBVIOUS
<1>3. name \in {"agreement", "signing", "issuer", "grant", "floor", "seen"} /\ (name \in {"issuer", "floor"} => Installs(c))
  BY <1>2, SecretFacts DEF Installs, Installing
<1>4. vault' = [vault EXCEPT ![name] = NoVault[name]]
  BY <1>2
<1>5. vault' \in VaultRecords
  <2>1. NoVault.agreement \in Nat /\ NoVault.signing \in Nat /\ NoVault.grant \in Grants /\ NoVault.issuer \in Nat
        /\ NoVault.floor \in Nat /\ NoVault.seen \in Nat
    BY <1>1 DEF VaultRecords
  <2>2. CASE name = "agreement"
    BY <1>1, <1>4, <2>1, <2>2 DEF VaultRecords
  <2>3. CASE name = "signing"
    BY <1>1, <1>4, <2>1, <2>3 DEF VaultRecords
  <2>4. CASE name = "issuer"
    BY <1>1, <1>4, <2>1, <2>4 DEF VaultRecords
  <2>5. CASE name = "grant"
    BY <1>1, <1>4, <2>1, <2>5 DEF VaultRecords
  <2>6. CASE name = "floor"
    BY <1>1, <1>4, <2>1, <2>6 DEF VaultRecords
  <2>7. CASE name = "seen"
    BY <1>1, <1>4, <2>1, <2>7 DEF VaultRecords
  <2>8. QED
    BY <1>3, <2>2, <2>3, <2>4, <2>5, <2>6, <2>7
<1>6. name \notin {"issuer", "floor"} => vault'.floor = vault.floor /\ vault'.issuer = vault.issuer
  BY <1>1, <1>4 DEF VaultRecords
<1>7. QED
  BY <1>3, <1>5, <1>6

\* A secret that is written: the pair before its name, the grant before its mark.
LEMMA StoreWellStep ==
  ASSUME EntitlementKnows, NEW c \in Client, Secret(c) # <<>>, vault' = [vault EXCEPT ![Secret(c)[1]] = Secret(c)[2]],
         Proceeds(c, client[c]), UNCHANGED <<file, server, clock, keys, orders, harm, scars>>
  PROVE  EntitlementKnows' /\ GrantsOnlyMoveForward
<1>1. EntitlementTyped /\ BesidesTyped /\ ClientIsSane(c) /\ client[c] \in ClientRecords
      /\ ("crossed" \notin scars => InstallsGoForward(c)) /\ (scars = {} => EntitlementHolds /\ WritesInOrder(c))
  BY KnownFacts, BesidesSame
<1>2. PICK new \in ClientRecords :
           /\ client' = [client EXCEPT ![c] = new] /\ client'[c] = new /\ new.step = Following(client[c]) /\ Next1(c)' = new.step
           /\ new.order = client[c].order /\ new.device = client[c].device /\ new.reply = client[c].reply /\ new.met = client[c].met
  BY <1>1, GoesOn
<1>3. Next1(c) = client[c].step /\ Next1(c) \in {"agreement", "signing", "issuer", "grant", "floor", "seen", "drop"}
  BY <1>1, SecretFacts
<1>4. new.step = CASE Next1(c) = "agreement" -> "signing" [] Next1(c) = "signing" -> "pending" [] Next1(c) = "issuer" -> "grant"
                   [] Next1(c) = "grant" -> "floor" [] Next1(c) = "floor" -> "seen" [] Next1(c) = "seen" -> "active"
                   [] Next1(c) = "drop" -> "revoked"
  BY <1>1, <1>2, <1>3, FollowingFacts
<1>5. new.step \in {"signing", "pending", "grant", "floor", "seen", "active", "revoked"}
  BY <1>3, <1>4
<1>6. (Installs(c)' <=> new.step \in {"grant", "floor", "seen", "active"}) /\ (Installs(c) <=> Next1(c) \in {"issuer", "grant", "floor", "seen"})
  BY <1>2, <1>3, <1>5 DEF Installs, Installing
<1>7. Installs(c)' <=> Installs(c)
  BY <1>3, <1>4, <1>6
<1>8. /\ vault' \in VaultRecords
      /\ vault'.agreement = IF Next1(c) = "agreement" THEN client[c].device.agreement ELSE vault.agreement
      /\ vault'.signing = IF Next1(c) = "signing" THEN client[c].device.signing ELSE vault.signing
      /\ vault'.issuer = IF Next1(c) = "issuer" THEN client[c].reply.issuer ELSE vault.issuer
      /\ vault'.floor = IF Next1(c) = "floor" THEN client[c].reply.version ELSE vault.floor
      /\ vault'.grant = IF Next1(c) = "grant" THEN client[c].reply ELSE IF Next1(c) = "drop" THEN NoGrant ELSE vault.grant
  BY <1>1, StoredWell
<1>9. client[c].order \in {"activate", "sync"}
  BY <1>1, <1>3, ClientFacts, PlainFacts DEF ClientIsSane
<1>10. (Next1(c) = "drop" => client[c].order = "sync") /\ (new.step = "revoked" => client[c].order = "sync")
  BY <1>1, <1>3, <1>4, <1>9 DEF ClientIsSane
<1>11. client[c].device.public # 0 \/ Next1(c) \notin {"agreement", "signing"}
  BY <1>1, <1>3 DEF ClientIsSane
<1>12. ClientIsSane(c)'
  <2>1. new.step \in {"signing", "pending"} => Next1(c) \in {"agreement", "signing"}
    BY <1>3, <1>4
  <2>2. new.step \in {"signing", "pending"} =>
          new.device.public # 0 /\ new.device.agreement = new.device.public /\ new.device.signing = new.device.public
    BY <1>1, <1>2, <1>3, <2>1 DEF ClientIsSane
  <2>3. Installs(c)' => new.reply.issuer # 0
    BY <1>1, <1>2, <1>7 DEF ClientIsSane
  <2>4. QED
    BY <1>2, <1>5, <1>9, <1>10, <2>2, <2>3 DEF ClientIsSane
<1>13. "crossed" \notin scars => InstallsGoForward(c)'
  <2>1. \A d \in Client \ {c} : Installs(d)' => Installs(d)
    BY <1>2, OthersAreSane DEF Installs, Next1
  <2>2. "crossed" \notin scars => \A d \in Client : Installs(c)' /\ Installs(d)' => c = d
    BY <1>1, <1>7, <2>1 DEF InstallsGoForward
  <2>3. "crossed" \notin scars => (Next1(c)' \in {"issuer", "grant", "floor"} => client'[c].reply.version >= vault'.floor)
    <3>1. new.step \in {"grant", "floor"} => Next1(c) \in {"issuer", "grant"}
      BY <1>3, <1>4
    <3>2. QED
      BY <1>1, <1>2, <1>5, <1>8, <3>1 DEF InstallsGoForward
  <2>4. QED
    BY <1>2, <1>5, <2>2, <2>3 DEF InstallsGoForward
<1>14. ASSUME scars = {} PROVE WritesInOrder(c)' /\ StatusIsToBe' /\ (PairIsStored' \/ file'.kind # "device") /\ file'.kind # "torn"
                               /\ (vault'.grant = NoGrant \/ vault'.grant.issuer # 0)
  <2>1. EntitlementHolds /\ WritesInOrder(c) /\ InstallsGoForward(c)
    BY <1>1, <1>14
  <2>2. Next1(c) \in {"agreement", "signing"} => file.kind # "device"
    BY <2>1 DEF WritesInOrder
  <2>3. PairIsStored' \/ file'.kind # "device"
    BY <1>8, <2>1, <2>2 DEF EntitlementHolds, PairIsStored
  <2>4. vault'.grant = NoGrant \/ vault'.grant.issuer # 0
    <3>1. Next1(c) = "grant" => client[c].reply.issuer # 0
      BY <1>1, <1>6 DEF ClientIsSane
    <3>2. QED
      BY <1>8, <2>1, <3>1 DEF EntitlementHolds
  <2>5. WritesInOrder(c)'
    <3>1. CASE Next1(c) = "agreement"
      <4>1. new.step = "signing" /\ ~Installs(c)' /\ client[c].device.agreement = client[c].device.public /\ file.kind # "device"
        BY <1>1, <1>3, <1>4, <1>6, <2>2, <3>1 DEF ClientIsSane
      <4>2. client[c].order # "sync"
        BY <2>1, <3>1, <4>1 DEF WritesInOrder
      <4>3. QED
        BY <1>2, <1>8, <3>1, <4>1, <4>2 DEF WritesInOrder
    <3>2. CASE Next1(c) = "signing"
      <4>1. new.step = "pending" /\ ~Installs(c)' /\ client[c].device.signing = client[c].device.public /\ file.kind # "device"
        BY <1>1, <1>3, <1>4, <1>6, <2>2, <3>2 DEF ClientIsSane
      <4>2. client[c].order # "sync"
        BY <2>1, <3>2, <4>1 DEF WritesInOrder
      <4>3. QED
        BY <1>2, <1>8, <2>1, <3>2, <4>1, <4>2 DEF WritesInOrder
    <3>3. CASE Next1(c) = "issuer"
      <4>1. new.step = "grant"
        BY <1>4, <3>3
      <4>2. QED
        BY <1>2, <1>6, <1>8, <2>1, <3>3, <4>1 DEF WritesInOrder
    <3>4. CASE Next1(c) = "grant"
      <4>1. new.step = "floor"
        BY <1>4, <3>4
      <4>2. QED
        BY <1>2, <1>6, <1>8, <2>1, <3>4, <4>1 DEF WritesInOrder
    <3>5. CASE Next1(c) = "floor"
      <4>1. new.step = "seen"
        BY <1>4, <3>5
      <4>2. QED
        BY <1>2, <1>6, <1>8, <2>1, <3>5, <4>1 DEF WritesInOrder
    <3>6. CASE Next1(c) = "seen"
      <4>1. new.step = "active"
        BY <1>4, <3>6
      <4>2. QED
        BY <1>2, <1>6, <1>8, <2>1, <3>6, <4>1 DEF WritesInOrder
    <3>7. CASE Next1(c) = "drop"
      <4>1. new.step = "revoked" /\ ~Installs(c)'
        BY <1>4, <1>6, <3>7
      <4>2. QED
        BY <1>2, <1>8, <1>10, <2>1, <3>7, <4>1 DEF WritesInOrder
    <3>8. QED
      BY <1>3, <3>1, <3>2, <3>3, <3>4, <3>5, <3>6, <3>7
  <2>6. StatusIsToBe'
    <3>1. CASE Next1(c) \in {"agreement", "signing"}
      BY <2>2, <3>1 DEF StatusIsToBe
    <3>2. CASE Next1(c) = "issuer"
      <4>1. vault.issuer = 0 /\ StatusIsToBe /\ vault'.grant = vault.grant
        BY <1>8, <2>1, <3>2 DEF InstallsGoForward, EntitlementHolds
      <4>2. file.kind = "device" => file.status # "active" /\ (file.status = "revoked" => vault.grant = NoGrant)
        BY <2>1, <4>1 DEF StatusIsToBe, GrantIsLoadable, EntitlementHolds
      <4>3. QED
        BY <4>1, <4>2 DEF StatusIsToBe
    <3>3. CASE Next1(c) = "grant"
      <4>1. Next1(c)' = "floor" /\ vault'.grant = client[c].reply /\ client[c].reply.issuer # 0
        BY <1>1, <1>2, <1>4, <1>6, <1>8, <3>3 DEF ClientIsSane
      <4>2. GrantIsLoadable'
        BY <1>6, <1>8, <2>1, <3>3 DEF GrantIsLoadable, WritesInOrder, InstallsGoForward, EntitlementHolds, PairIsStored
      <4>3. vault'.issuer # 0
        BY <1>8, <2>1, <3>3, <4>1 DEF WritesInOrder
      <4>4. QED
        BY <4>1, <4>2, <4>3 DEF StatusIsToBe
    <3>4. CASE Next1(c) = "floor"
      <4>1. Next1(c)' = "seen" /\ vault'.grant = client[c].reply /\ client[c].reply.issuer # 0 /\ client[c].reply.version \in Nat
        BY <1>1, <1>2, <1>4, <1>6, <1>8, <2>1, <3>4, ClientFacts DEF ClientIsSane, WritesInOrder
      <4>2. GrantIsLoadable'
        BY <1>6, <1>8, <2>1, <3>4, <4>1 DEF GrantIsLoadable, WritesInOrder, EntitlementHolds, PairIsStored
      <4>3. vault'.issuer # 0
        BY <1>8, <2>1, <3>4, <4>1 DEF WritesInOrder
      <4>4. QED
        BY <4>1, <4>2, <4>3 DEF StatusIsToBe
    <3>5. CASE Next1(c) = "seen"
      <4>1. SameStore /\ Next1(c)' = "active"
        BY <1>2, <1>4, <1>8, <3>5 DEF SameStore
      <4>2. harm' \in Nat /\ harm' >= harm
        BY <1>1 DEF BesidesTyped
      <4>3. QED
        BY <1>2, <1>14, <3>5, <4>1, <4>2, StatusStays
    <3>6. CASE Next1(c) = "drop"
      <4>1. Next1(c)' = "revoked" /\ vault'.grant = NoGrant /\ vault'.issuer = vault.issuer
        BY <1>2, <1>4, <1>8, <3>6
      <4>2. QED
        BY <2>1, <4>1 DEF StatusIsToBe, EntitlementHolds
    <3>7. QED
      BY <1>3, <3>1, <3>2, <3>3, <3>4, <3>5, <3>6
  <2>7. QED
    BY <2>1, <2>3, <2>4, <2>5, <2>6 DEF EntitlementHolds
<1>15. EntitlementKnows'
  <2>1. Writes(c)
    BY <1>9 DEF Writes
  <2>2. Installs(c) \/ (vault'.floor = vault.floor /\ vault'.issuer = vault.issuer)
    BY <1>6, <1>8
  <2>3. file' \in FileRecords
    BY <1>1 DEF EntitlementTyped
  <2>4. QED
    BY <1>1, <1>2, <1>7, <1>8, <1>12, <1>13, <1>14, <2>1, <2>2, <2>3, GrantWriteKeeps
<1>16. /\ vault'.floor < vault.floor => "crossed" \in scars
       /\ (vault.issuer # 0 /\ vault'.issuer # vault.issuer) => "crossed" \in scars
  <2>1. vault.floor \in Nat /\ client[c].reply.version \in Nat
    BY <1>1, StoredFacts, ClientFacts
  <2>2. "crossed" \notin scars => (Next1(c) = "floor" => client[c].reply.version >= vault.floor) /\ (Next1(c) = "issuer" => vault.issuer = 0)
    BY <1>1 DEF InstallsGoForward
  <2>3. QED
    BY <1>8, <2>1, <2>2
<1>17. QED
  BY <1>2, <1>3, <1>15, <1>16, MovesForward

\* A write of the store: done, refused, or with the old value gone.
LEMMA StoreSecretStep ==
  ASSUME EntitlementKnows, NEW c \in Client, StoreSecret(c) PROVE EntitlementKnows' /\ GrantsOnlyMoveForward
<1>1. Secret(c) # <<>> /\ UNCHANGED <<file, server, clock, keys, orders>>
  BY DEF StoreSecret
<1>2. CASE vault' = [vault EXCEPT ![Secret(c)[1]] = Secret(c)[2]] /\ Proceeds(c, client[c]) /\ UNCHANGED <<harm, scars>>
  BY <1>1, <1>2, StoreWellStep
<1>3. CASE harm' = harm + 1 /\ Quits(c) /\ vault' = vault /\ scars' = scars
  <2>1. BesidesTyped /\ harm' > 0
    BY <1>1, <1>3 DEF BesidesTyped, EntitlementKnows, EntitlementTyped
  <2>2. QED
    BY <1>1, <1>3, <2>1, QuitKeeps
<1>4. CASE harm' = harm + 1 /\ Quits(c) /\ vault' = [vault EXCEPT ![Secret(c)[1]] = NoVault[Secret(c)[1]]]
           /\ scars' = scars \union {"lost"}
  <2>1. BesidesTyped
    BY <1>1, <1>4 DEF BesidesTyped, EntitlementKnows, EntitlementTyped
  <2>2. Away \in ClientRecords /\ client' = [client EXCEPT ![c] = Away]
    BY <1>4, PlainFacts DEF Quits
  <2>3. client'[c] = Away
    BY <2>2, OthersAreSane
  <2>4. ClientIsSane(c)' /\ ~Installs(c)'
    BY <2>3 DEF ClientIsSane, Away, Installs, Next1, Installing
  <2>5. InstallsGoForward(c)'
    BY <2>3, <2>4 DEF InstallsGoForward, Next1, Away
  <2>6. vault' \in VaultRecords /\ (Installs(c) \/ (vault'.floor = vault.floor /\ vault'.issuer = vault.issuer)) /\ file' \in FileRecords
    BY <1>1, <1>4, LostFacts DEF EntitlementKnows, EntitlementTyped
  <2>7. EntitlementKnows'
    BY <1>4, <2>1, <2>2, <2>4, <2>5, <2>6, GrantWriteKeeps
  <2>8. "lost" \in scars' /\ Away.order # "load"
    BY <1>4, PlainFacts
  <2>9. QED
    BY <2>2, <2>7, <2>8, MovesForward
<1>5. QED
  BY <1>1, <1>2, <1>3, <1>4 DEF StoreSecret

\* Which file a step writes.
LEMMA WrittenFacts ==
  ASSUME EntitlementKnows, NEW c \in Client, Written(c) # NoFile
  PROVE  /\ Next1(c) = client[c].step /\ Next1(c) \in {"pending", "active", "revoked", "licence"} /\ Written(c) \in FileRecords
         /\ Next1(c) = "pending" => Written(c) = [kind |-> "device", status |-> "pending", device |-> client[c].device.public]
         /\ Next1(c) = "active" => Written(c) = [kind |-> "device", status |-> "active", device |-> client[c].device.public]
         /\ Next1(c) = "revoked" => Written(c).kind = client[c].met.kind /\ Written(c).device = client[c].met.device /\ Written(c).status = "revoked"
         /\ Next1(c) = "licence" => Written(c) = [kind |-> "licence", status |-> "active", device |-> 0]
<1>1. Next1(c) \in {"pending", "active", "revoked", "licence"}
  BY DEF Written
<1>2. client[c].met \in FileRecords /\ client[c].device.public \in Nat /\ Next1(c) = client[c].step
  BY KnownFacts, ClientFacts DEF Next1
<1>3. CASE Next1(c) = "pending"
  <2>1. Written(c) = [kind |-> "device", status |-> "pending", device |-> client[c].device.public]
    BY <1>3 DEF Written
  <2>2. QED
    BY <1>2, <1>3, <2>1 DEF FileRecords
<1>4. CASE Next1(c) = "active"
  <2>1. Written(c) = [kind |-> "device", status |-> "active", device |-> client[c].device.public]
    BY <1>4 DEF Written
  <2>2. QED
    BY <1>2, <1>4, <2>1 DEF FileRecords
<1>5. CASE Next1(c) = "revoked"
  <2>1. Written(c) = [client[c].met EXCEPT !.status = "revoked"]
    BY <1>5 DEF Written
  <2>2. QED
    BY <1>2, <1>5, <2>1 DEF FileRecords
<1>6. CASE Next1(c) = "licence"
  <2>1. Written(c) = [kind |-> "licence", status |-> "active", device |-> 0]
    BY <1>6 DEF Written
  <2>2. QED
    BY <1>2, <1>6, <2>1 DEF FileRecords
<1>7. QED
  BY <1>1, <1>3, <1>4, <1>5, <1>6

\* The file is written: the name of a pair that is stored, or the status of a grant that is.
LEMMA WriteWellStep ==
  ASSUME EntitlementKnows, NEW c \in Client, Written(c) # NoFile, file' = Written(c), Proceeds(c, client[c]),
         UNCHANGED <<vault, server, clock, keys, orders, harm, scars>>
  PROVE  EntitlementKnows' /\ GrantsOnlyMoveForward
<1>1. EntitlementTyped /\ BesidesTyped /\ ClientIsSane(c) /\ client[c] \in ClientRecords
      /\ ("crossed" \notin scars => InstallsGoForward(c)) /\ (scars = {} => EntitlementHolds /\ WritesInOrder(c))
  BY KnownFacts, BesidesSame
<1>2. PICK new \in ClientRecords :
           /\ client' = [client EXCEPT ![c] = new] /\ client'[c] = new /\ new.step = Following(client[c]) /\ Next1(c)' = new.step
           /\ new.order = client[c].order /\ new.device = client[c].device /\ new.reply = client[c].reply /\ new.met = client[c].met
  BY <1>1, GoesOn
<1>3. Next1(c) = client[c].step /\ Next1(c) \in {"pending", "active", "revoked", "licence"} /\ file' \in FileRecords
  BY WrittenFacts
<1>4. /\ Next1(c) = "pending" => new.step = IF client[c].order = "activate" THEN "activation" ELSE "exchange"
      /\ Next1(c) \in {"active", "revoked", "licence"} => new.step = "end"
  BY <1>1, <1>2, <1>3, FollowingFacts
<1>5. new.step \in {"activation", "exchange", "end"}
  BY <1>3, <1>4
<1>6. ~Installs(c)'
  BY <1>2, <1>5 DEF Installs, Installing
<1>7. client[c].order \in {"activate", "sync", "install", "renew"}
  BY <1>1, <1>3, ClientFacts, PlainFacts DEF ClientIsSane
<1>8. ClientIsSane(c)'
  <2>1. new.step # "end" => client[c].order \in {"activate", "sync"}
    BY <1>1, <1>3, <1>4, <1>7 DEF ClientIsSane
  <2>2. new.step = "activation" => client[c].order = "activate"
    BY <1>3, <1>4
  <2>3. new.step = "exchange" => client[c].order # "activate"
    BY <1>3, <1>4
  <2>4. QED
    BY <1>2, <1>5, <1>6, <1>7, <2>1, <2>2, <2>3 DEF ClientIsSane
<1>9. InstallsGoForward(c)'
  BY <1>2, <1>5, <1>6 DEF InstallsGoForward
<1>10. ASSUME scars = {} PROVE WritesInOrder(c)' /\ StatusIsToBe' /\ (PairIsStored' \/ file'.kind # "device") /\ file'.kind # "torn"
  <2>1. EntitlementHolds /\ WritesInOrder(c)
    BY <1>1, <1>10
  <2>2. CASE Next1(c) = "pending"
    <3>1. file'.kind = "device" /\ file'.status = "pending" /\ file'.device = client[c].device.public
      BY <2>2, WrittenFacts
    <3>2. PairIsStored'
      BY <1>1, <1>3, <2>1, <2>2, <3>1 DEF ClientIsSane, WritesInOrder, PairIsStored
    <3>3. client[c].order # "sync"
      BY <2>1, <2>2 DEF WritesInOrder
    <3>4. WritesInOrder(c)'
      BY <1>2, <1>5, <1>6, <3>1, <3>3 DEF WritesInOrder
    <3>5. StatusIsToBe'
      BY <3>1 DEF StatusIsToBe
    <3>6. QED
      BY <3>1, <3>2, <3>4, <3>5
  <2>3. CASE Next1(c) = "active"
    <3>1. file'.kind = "device" /\ file'.status = "active" /\ file'.device = client[c].device.public /\ new.step = "end"
      BY <1>4, <2>3, WrittenFacts
    <3>2. Installs(c)
      BY <2>3 DEF Installs, Installing
    <3>3. file.device = file'.device /\ file.kind = "device" /\ PairIsStored
      BY <2>1, <3>1, <3>2 DEF WritesInOrder, EntitlementHolds
    <3>4. PairIsStored'
      BY <3>3 DEF PairIsStored
    <3>5. WritesInOrder(c)'
      BY <1>2, <1>6, <3>1 DEF WritesInOrder
    <3>6. vault.issuer # 0
      BY <1>1, <2>1, <2>3, <3>2 DEF WritesInOrder, ClientIsSane
    <3>7. GrantIsLoadable'
      <4>1. vault.grant = client[c].reply /\ vault.floor = client[c].reply.version /\ client[c].reply.issuer = vault.issuer
            /\ client[c].reply.device = file.device /\ client[c].reply.version \in Nat
        BY <1>1, <2>1, <2>3, <3>2, ClientFacts DEF WritesInOrder
      <4>2. QED
        BY <3>3, <4>1 DEF GrantIsLoadable, PairIsStored
    <3>8. StatusIsToBe'
      BY <3>1, <3>6, <3>7 DEF StatusIsToBe
    <3>9. QED
      BY <3>1, <3>4, <3>5, <3>8
  <2>4. CASE Next1(c) = "revoked"
    <3>1. client[c].order = "sync"
      BY <1>1, <1>3, <1>7, <2>4 DEF ClientIsSane
    <3>2. file.kind = "device" /\ client[c].met.kind = "device" /\ client[c].met.device = file.device /\ vault.grant = NoGrant /\ PairIsStored
      BY <2>1, <2>4, <3>1 DEF WritesInOrder, EntitlementHolds
    <3>3. file'.kind = "device" /\ file'.device = file.device /\ file'.status = "revoked" /\ new.step = "end"
      BY <1>4, <2>4, <3>2, WrittenFacts
    <3>4. QED
      BY <1>2, <1>6, <3>2, <3>3 DEF WritesInOrder, StatusIsToBe, PairIsStored
  <2>5. CASE Next1(c) = "licence"
    <3>1. file'.kind = "licence" /\ new.step = "end"
      BY <1>4, <2>5, WrittenFacts
    <3>2. QED
      BY <1>2, <1>6, <3>1 DEF WritesInOrder, StatusIsToBe
  <2>6. QED
    BY <1>3, <2>2, <2>3, <2>4, <2>5
<1>11. EntitlementKnows'
  <2>1. Writes(c) /\ vault' \in VaultRecords
    BY <1>1, <1>7 DEF Writes, EntitlementTyped
  <2>2. scars = {} => vault'.grant = NoGrant \/ vault'.grant.issuer # 0
    BY <1>1 DEF EntitlementHolds
  <2>3. QED
    BY <1>1, <1>2, <1>3, <1>6, <1>8, <1>9, <1>10, <2>1, <2>2, GrantWriteKeeps
<1>12. ~(vault'.floor < vault.floor) /\ vault'.issuer = vault.issuer
  BY <1>1, StoredFacts
<1>13. QED
  BY <1>2, <1>3, <1>11, <1>12, MovesForward

\* A file that is written, or torn in a crash.
LEMMA WriteFileStep ==
  ASSUME EntitlementKnows, NEW c \in Client, WriteFile(c) PROVE EntitlementKnows' /\ GrantsOnlyMoveForward
<1>1. Written(c) # NoFile /\ UNCHANGED <<vault, server, clock, keys, orders>>
  BY DEF WriteFile
<1>2. CASE file' = Written(c) /\ Proceeds(c, client[c]) /\ UNCHANGED <<harm, scars>>
  BY <1>1, <1>2, WriteWellStep
<1>3. CASE harm' = harm + 1 /\ Quits(c) /\ file' = [kind |-> "torn", status |-> "none", device |-> 0] /\ scars' = scars \union {"torn"}
  <2>1. BesidesTyped
    BY <1>1, <1>3 DEF BesidesTyped, EntitlementKnows, EntitlementTyped
  <2>2. Away \in ClientRecords /\ client' = [client EXCEPT ![c] = Away]
    BY <1>3, PlainFacts DEF Quits
  <2>3. client'[c] = Away
    BY <2>2, OthersAreSane
  <2>4. ClientIsSane(c)' /\ ~Installs(c)'
    BY <2>3 DEF ClientIsSane, Away, Installs, Next1, Installing
  <2>5. InstallsGoForward(c)'
    BY <2>3, <2>4 DEF InstallsGoForward, Next1, Away
  <2>6. vault' \in VaultRecords /\ file' \in FileRecords
    BY <1>1, <1>3 DEF EntitlementKnows, EntitlementTyped, FileRecords
  <2>7. EntitlementKnows'
    BY <1>1, <1>3, <2>1, <2>2, <2>4, <2>5, <2>6, GrantWriteKeeps
  <2>8. ~(vault'.floor < vault.floor) /\ vault'.issuer = vault.issuer /\ Away.order # "load"
    BY <1>1, StoredFacts, PlainFacts DEF EntitlementKnows
  <2>9. QED
    BY <2>2, <2>7, <2>8, MovesForward
<1>4. QED
  BY <1>1, <1>2, <1>3 DEF WriteFile

\* A machine without an entitlement, or with one, starts in order.
LEMMA EntitlementStart == EntitlementInit => EntitlementKnows
<1>1. SUFFICES ASSUME EntitlementInit PROVE EntitlementKnows
  OBVIOUS
<1>2. client \in [Client -> ClientRecords] /\ \A c \in Client : client[c] = Away
  BY <1>1, PlainFacts DEF EntitlementInit
<1>3. clock \in Nat /\ orders = 0 /\ harm = 0 /\ scars = {}
  BY <1>1 DEF EntitlementInit
<1>4. CASE vault = NoVault /\ file = NoFile /\ keys = 0 /\ server = [version |-> 1, live |-> TRUE, issuer |-> 1, device |-> 0]
  <2>1. EntitlementTyped
    BY <1>2, <1>3, <1>4, PlainFacts DEF EntitlementTyped
  <2>2. file.kind = "none" /\ vault.grant = NoGrant
    BY <1>4 DEF NoFile, NoVault
  <2>3. \A c \in Client : ClientIsSane(c) /\ ~Installs(c)
    BY <1>2 DEF ClientIsSane, Away, Installs, Next1, Installing
  <2>4. \A c \in Client : InstallsGoForward(c) /\ WritesInOrder(c) /\ ~Writes(c)
    BY <1>2, <2>3 DEF InstallsGoForward, WritesInOrder, Next1, Away, Writes
  <2>5. QED
    BY <1>3, <2>1, <2>2, <2>3, <2>4 DEF EntitlementKnows, EntitlementHolds, StatusIsToBe
<1>5. CASE /\ vault = [agreement |-> 1, signing |-> 1, grant |-> [version |-> 1, device |-> 1, issuer |-> 1], issuer |-> 1, floor |-> 1, seen |-> clock]
           /\ file = [kind |-> "device", status |-> "active", device |-> 1] /\ keys = 1
           /\ server = [version |-> 1, live |-> TRUE, issuer |-> 1, device |-> 1]
  <2>1. PICK grant : grant = [version |-> 1, device |-> 1, issuer |-> 1]
    OBVIOUS
  <2>2. grant \in Grants /\ vault.grant = grant /\ vault.agreement = 1 /\ vault.signing = 1 /\ vault.issuer = 1 /\ vault.floor = 1
    BY <1>5, <2>1 DEF Grants
  <2>3. vault \in VaultRecords /\ file \in FileRecords
    BY <1>3, <1>5, <2>1, <2>2 DEF VaultRecords, FileRecords
  <2>4. EntitlementTyped
    BY <1>2, <1>3, <1>5, <2>3 DEF EntitlementTyped
  <2>5. \A c \in Client : ClientIsSane(c) /\ ~Installs(c)
    BY <1>2 DEF ClientIsSane, Away, Installs, Next1, Installing
  <2>6. \A c \in Client : InstallsGoForward(c) /\ WritesInOrder(c) /\ ~Writes(c)
    BY <1>2, <2>5 DEF InstallsGoForward, WritesInOrder, Next1, Away, Writes
  <2>7. PairIsStored /\ GrantIsLoadable /\ vault.grant.issuer = 1
    BY <1>5, <2>1, <2>2 DEF PairIsStored, GrantIsLoadable
  <2>8. QED
    BY <1>3, <1>5, <2>2, <2>4, <2>5, <2>6, <2>7 DEF EntitlementKnows, EntitlementHolds, StatusIsToBe
<1>6. QED
  BY <1>1, <1>4, <1>5 DEF EntitlementInit

\* Every step keeps it and moves forward.
LEMMA EntitlementStep1 ==
  ASSUME EntitlementKnows, EntitlementNext \/ UNCHANGED entitlementVars PROVE EntitlementKnows' /\ GrantsOnlyMoveForward
<1>1. CASE \E c \in Client : EntitlementStep(c)
  <2>1. PICK c \in Client : EntitlementStep(c)
    BY <1>1
  <2>2. QED
    BY <2>1, StartOrderStep, ReadMetadataStep, PrepareDeviceStep, ActivationStep, ExchangeStep, AuthorizeStep, StoreSecretStep,
       WriteFileStep, OpenStep, LegacyStep, LeaveStep DEF EntitlementStep
<1>2. QED
  BY <1>1, WorldStep DEF EntitlementNext

\* Between commands, what is known is the property.
LEMMA EntitlementTells == EntitlementKnows => EntitlementInv
<1>1. SUFFICES ASSUME EntitlementKnows, Quiet, scars = {} PROVE Repairable /\ RevokedIsRevoked /\ StatusIsTrue
  BY DEF EntitlementInv
<1>2. EntitlementHolds
  BY <1>1 DEF EntitlementKnows
<1>3. \A c \in Client : Next1(c) = "none"
  BY <1>1, PlainFacts DEF Quiet, Next1
<1>4. RevokedIsRevoked /\ StatusIsTrue
  BY <1>2, <1>3 DEF EntitlementHolds, StatusIsToBe, RevokedIsRevoked, StatusIsTrue
<1>5. Repairable
  BY <1>2 DEF EntitlementHolds, Repairable, PairIsStored, HasDevice, Metadata, NoFile
<1>6. QED
  BY <1>4, <1>5

--------------------------------------------------------------------------------
(* Installer: what commands that share a registry's copy, a store and a log do to them. *)

ShellSteps == {"prompt", "load", "save", "judge", "resolve", "download", "verify", "install", "assess", "find", "remove", "report"}

\* What a command has in memory.
ShellRecords ==
  [verb : {"none", "install", "update", "remove", "file"}, name : Pkg, pin : 0..2, place : Where, refresh : BOOLEAN, got : 0..2,
   base : 0..2, goal : 0..2, step : ShellSteps, rest : Seq(Pkg), group : {"none", "cluster", "all"}, total : Nat, done : Nat, failed : Nat]

\* How a registry can list a release.
Marks == {"absent", "open", "yanked", "revoked", "barred", "loose", "bare"}

\* Types.
InstallerTyped ==
  /\ shell \in [Shell -> ShellRecords] /\ editions \in [1..2 -> [Pkg -> [Rel -> Marks]]] /\ edition \in 1..2 /\ expired \subseteq 1..2
  /\ cached \in 0..2 /\ stock \in [Where -> [Pkg -> [Rel -> {"none", "listed", "other"}]]] /\ chosen \in [Where -> [Pkg -> 0..2]]
  /\ temps \subseteq [by : Shell \union {"nobody"}, bytes : {"listed", "other"}] /\ mishaps \in Nat

\* What was resolved is what the copy it was resolved from lists.
GoalIsListed(w) ==
  /\ w.verb = "install" /\ w.got # 0 /\ w.goal # 0
  /\ editions[w.got][w.name][w.goal] \notin {"absent", "yanked", "revoked"}
  /\ w.pin = 0 => \A r \in Rel : r > w.goal => editions[w.got][w.name][r] \in {"absent", "yanked"}
  /\ w.base # 0 => w.goal > w.base

\* The summary of a group adds up at every step.
Counted(w) ==
  w.group # "none" => /\ w.failed <= w.done
                      /\ w.step = "report" => w.done = w.total
                      /\ w.step # "report" => w.done + Len(w.rest) + 1 = w.total

\* A command that goes on: what it installs, where it counts, and the download that is its own.
WellPlaced(w) ==
  /\ w.step = "resolve" => w.got # 0
  /\ w.step \in {"download", "verify", "install"} => GoalIsListed(w)
  /\ (w.verb = "install" /\ w.base # 0) => w.pin > w.base
  /\ w.step = "assess" => w.goal # 0
  /\ w.step = "find" => w.group # "cluster"
  /\ w.step \in {"load", "save", "judge", "resolve"} => w.verb \in {"install", "update"}
  /\ w.group = "cluster" => w.verb = "install"
  /\ w.group = "none" => w.rest = <<>>
  /\ Counted(w)

\* The installs that were logged, or would have been.
Audited == logged \union unlogged

\* A download exists while its command verifies or installs it, and only after verification is it what the registry lists.
OwnDownload(s) ==
  /\ (\E f \in temps : f.by = s) <=> shell[s].step \in {"verify", "install"}
  /\ \A f, g \in temps : (f.by = s /\ g.by = s) => f = g
  /\ shell[s].step = "install" =>
       /\ <<shell[s].name, shell[s].goal>> \in Audited
       /\ \A f \in temps : f.by = s => f.bytes = "listed" \/ editions[shell[s].got][shell[s].name][shell[s].goal] = "loose"

\* What is installed was logged, or there from the start.
StockIsLogged ==
  \A l \in Where, n \in Pkg, r \in Rel : stock[l][n][r] # "none" => <<n, r>> \in Audited \union {<<"first", 1>>}

\* What is known between two steps.
InstallerKnows ==
  /\ InstallerTyped
  /\ \A s \in Shell : WellPlaced(shell[s]) /\ OwnDownload(s)
  /\ StockIsLogged

\* What a command has in memory.
LEMMA ShellFacts ==
  ASSUME InstallerTyped, NEW s \in Shell
  PROVE  /\ shell[s] \in ShellRecords /\ shell[s].step \in ShellSteps /\ shell[s].name \in Pkg /\ shell[s].place \in Where
         /\ shell[s].verb \in {"none", "install", "update", "remove", "file"} /\ shell[s].group \in {"none", "cluster", "all"}
         /\ shell[s].pin \in 0..2 /\ shell[s].got \in 0..2 /\ shell[s].base \in 0..2 /\ shell[s].goal \in 0..2
         /\ shell[s].rest \in Seq(Pkg) /\ shell[s].total \in Nat /\ shell[s].done \in Nat /\ shell[s].failed \in Nat
<1>1. shell[s] \in ShellRecords
  BY DEF InstallerTyped
<1>2. QED
  BY <1>1 DEF ShellRecords

\* A command that starts.
LEMMA BegunFacts ==
  ASSUME NEW s \in Shell, NEW queue \in Seq(Pkg), queue # <<>>, NEW verb \in {"none", "install", "update", "remove", "file"},
         NEW group \in {"none", "cluster", "all"}, group = "none" => Len(queue) = 1, NEW pin \in 0..2, NEW l \in Where, NEW goal \in 0..2,
         NEW step \in {"prompt", "load", "find", "remove", "assess"}, step = "find" => group # "cluster", step = "assess" => goal # 0,
         step = "load" => verb = "install", group = "cluster" => verb = "install", Shows(s, Begun(verb, group, queue, pin, l, goal, step))
  PROVE  \E with \in ShellRecords : Shows(s, with) /\ WellPlaced(with) /\ with.step = step
<1>1. PICK first, others, many : first = Head(queue) /\ others = Tail(queue) /\ many = Len(queue)
  OBVIOUS
<1>2. first \in Pkg /\ others \in Seq(Pkg) /\ many \in Nat /\ Len(others) + 1 = many
  BY <1>1
<1>3. group = "none" => others = <<>>
  BY <1>1, <1>2
<1>4. PICK begun : begun = [verb |-> verb, name |-> first, pin |-> pin, place |-> l, refresh |-> FALSE, got |-> 0, base |-> 0,
                            goal |-> goal, step |-> step, rest |-> others, group |-> group, total |-> many, done |-> 0, failed |-> 0]
  OBVIOUS
<1>5. begun = Begun(verb, group, queue, pin, l, goal, step)
  BY <1>1, <1>4 DEF Begun
<1>6. begun \in ShellRecords
  BY <1>2, <1>4 DEF ShellRecords, ShellSteps
<1>7. WellPlaced(begun)
  <2>1. 0 + Len(others) + 1 = many
    BY <1>1, <1>2
  <2>2. Counted(begun)
    BY <1>4, <2>1 DEF Counted
  <2>3. QED
    BY <1>3, <1>4, <2>2 DEF WellPlaced
<1>8. Shows(s, begun)
  BY <1>5 DEF Shows
<1>9. QED
  BY <1>4, <1>6, <1>7, <1>8

\* A command at its prompt.
LEMMA PromptFacts == AtPrompt \in ShellRecords /\ WellPlaced(AtPrompt) /\ AtPrompt.step = "prompt" /\ AtPrompt.group = "none"
<1>1. PICK one : one = <<"first">>
  OBVIOUS
<1>2. Head(one) = "first" /\ Tail(one) = <<>> /\ Len(one) = 1
  BY <1>1
<1>3. AtPrompt = [verb |-> "none", name |-> "first", pin |-> 0, place |-> "global", refresh |-> FALSE, got |-> 0, base |-> 0, goal |-> 0,
                  step |-> "prompt", rest |-> <<>>, group |-> "none", total |-> 1, done |-> 0, failed |-> 0]
  BY <1>1, <1>2 DEF AtPrompt, Begun
<1>4. AtPrompt \in ShellRecords
  BY <1>3 DEF ShellRecords, ShellSteps, Pkg, Where
<1>5. AtPrompt.step = "prompt" /\ AtPrompt.group = "none" /\ AtPrompt.verb = "none" /\ AtPrompt.rest = <<>>
  BY <1>3
<1>6. QED
  BY <1>4, <1>5 DEF WellPlaced, Counted

\* The next of a list, or the report: every name is counted once.
LEMMA NextOfFacts ==
  ASSUME NEW w \in ShellRecords, WellPlaced(w), w.step \notin {"report", "prompt"}, NEW more \in {0, 1},
         w.got # 0 \/ w.group = "all" \/ w.rest = <<>>
  PROVE  NextOf(w, more) \in ShellRecords /\ WellPlaced(NextOf(w, more)) /\ NextOf(w, more).step \in {"report", "find", "resolve"}
<1>1. w.done \in Nat /\ w.failed \in Nat /\ w.total \in Nat /\ w.rest \in Seq(Pkg) /\ w.got \in 0..2 /\ w.pin \in 0..2 /\ w.base \in 0..2
      /\ w.group \in {"none", "cluster", "all"}
  BY DEF ShellRecords
<1>2. PICK sum : sum = w.failed + more
  OBVIOUS
<1>3. PICK count : count = w.done + 1
  OBVIOUS
<1>4. sum \in Nat /\ sum <= w.failed + 1 /\ count \in Nat
  BY <1>1, <1>2, <1>3
<1>6. Counted(w)
  BY DEF WellPlaced
<1>7. CASE w.rest = <<>>
  <2>1. PICK next : next = [w EXCEPT !.done = count, !.failed = sum, !.step = "report"]
    OBVIOUS
  <2>2. NextOf(w, more) = next
    BY <1>2, <1>3, <1>7, <2>1 DEF NextOf
  <2>3. next \in ShellRecords /\ next.step = "report" /\ next.done = w.done + 1 /\ next.failed = sum /\ next.total = w.total
        /\ next.group = w.group /\ next.rest = <<>> /\ next.verb = w.verb /\ next.base = w.base /\ next.pin = w.pin
    <3>1. PICK counted : counted = [w EXCEPT !.done = count]
      OBVIOUS
    <3>2. PICK ended : ended = [counted EXCEPT !.failed = sum]
      OBVIOUS
    <3>3. counted \in ShellRecords /\ counted.done = count /\ counted.total = w.total /\ counted.group = w.group
          /\ counted.rest = <<>> /\ counted.verb = w.verb /\ counted.base = w.base /\ counted.pin = w.pin
      BY <1>4, <1>7, <3>1 DEF ShellRecords
    <3>4. ended \in ShellRecords /\ ended.done = count /\ ended.failed = sum /\ ended.total = w.total /\ ended.group = w.group
          /\ ended.rest = <<>> /\ ended.verb = w.verb /\ ended.base = w.base /\ ended.pin = w.pin
      BY <1>4, <3>2, <3>3 DEF ShellRecords
    <3>5. next = [ended EXCEPT !.step = "report"]
      BY <2>1, <3>1, <3>2
    <3>6. QED
      BY <1>3, <3>4, <3>5 DEF ShellRecords, ShellSteps
  <2>4. Counted(next)
    BY <1>1, <1>4, <1>6, <1>7, <2>3 DEF Counted
  <2>5. (next.verb = "install" /\ next.base # 0) => next.pin > next.base
    BY <2>3 DEF WellPlaced
  <2>6. WellPlaced(next)
    BY <2>3, <2>4, <2>5 DEF WellPlaced
  <2>7. QED
    BY <2>2, <2>3, <2>6
<1>8. CASE w.rest # <<>>
  <2>1. w.group # "none" /\ (w.group # "all" => w.got # 0)
    BY <1>8 DEF WellPlaced
  <2>2. Head(w.rest) \in Pkg /\ Tail(w.rest) \in Seq(Pkg) /\ Len(Tail(w.rest)) = Len(w.rest) - 1 /\ Len(w.rest) \in Nat
    BY <1>1, <1>8
  <2>3. PICK got : got = IF w.group = "all" THEN 0 ELSE w.got
    OBVIOUS
  <2>4. PICK step : step = IF w.group = "all" THEN "find" ELSE "resolve"
    OBVIOUS
  <2>5. PICK first, others : first = Head(w.rest) /\ others = Tail(w.rest)
    OBVIOUS
  <2>6. PICK next : next =
          [verb |-> w.verb, name |-> first, pin |-> 0, place |-> "global", refresh |-> w.refresh, got |-> got, base |-> 0, goal |-> 0,
           step |-> step, rest |-> others, group |-> w.group, total |-> w.total, done |-> count, failed |-> sum]
    OBVIOUS
  <2>7. NextOf(w, more) = next
    BY <1>2, <1>3, <1>8, <2>3, <2>4, <2>5, <2>6 DEF NextOf
  <2>8. got \in 0..2 /\ step \in {"find", "resolve"} /\ first \in Pkg /\ others \in Seq(Pkg)
    BY <1>1, <2>2, <2>3, <2>4, <2>5
  <2>9. next \in ShellRecords
    <3>1. "global" \in Where /\ step \in ShellSteps /\ w.refresh \in BOOLEAN /\ w.verb \in {"none", "install", "update", "remove", "file"}
      BY <2>8 DEF ShellRecords, ShellSteps, Where
    <3>2. QED
      BY <1>1, <1>4, <2>6, <2>8, <3>1 DEF ShellRecords
  <2>10. next.step = step /\ next.done = w.done + 1 /\ next.failed = sum /\ next.total = w.total
        /\ next.group = w.group /\ next.rest = others /\ next.base = 0 /\ next.got = got /\ next.verb = w.verb
    BY <1>3, <2>6
  <2>11. Len(next.rest) = Len(w.rest) - 1 /\ Len(w.rest) \in Nat
    BY <2>2, <2>5, <2>10
  <2>12. w.failed <= w.done /\ w.done + Len(w.rest) + 1 = w.total
    BY <1>6, <2>1 DEF Counted
  <2>13. next.failed <= next.done /\ next.done + Len(next.rest) + 1 = next.total
    <3>1. PICK long : long = Len(w.rest)
      OBVIOUS
    <3>2. next.failed <= next.done
      BY <1>1, <1>2, <2>10, <2>12
    <3>3. Len(next.rest) = long - 1 /\ long \in Nat /\ w.done + long + 1 = w.total
      BY <2>11, <2>12, <3>1
    <3>4. next.done + Len(next.rest) + 1 = next.total
      BY <1>1, <2>10, <3>3
    <3>5. QED
      BY <3>2, <3>4
  <2>14. WellPlaced(next)
    BY <1>1, <2>1, <2>3, <2>4, <2>8, <2>10, <2>13 DEF WellPlaced, Counted
  <2>15. QED
    BY <2>4, <2>7, <2>9, <2>10, <2>14
<1>9. QED
  BY <1>7, <1>8

\* A command that gives up, alone or as one of many.
LEMMA AbandonsFacts ==
  ASSUME NEW w \in ShellRecords, WellPlaced(w), w.step \notin {"report", "prompt"}
  PROVE  Abandons(w) \in ShellRecords /\ WellPlaced(Abandons(w)) /\ Abandons(w).step \in {"prompt", "report", "find", "resolve"}
<1>1. CASE w.group = "all"
  <2>1. NextOf(w, 1) \in ShellRecords /\ WellPlaced(NextOf(w, 1)) /\ NextOf(w, 1).step \in {"report", "find", "resolve"}
    BY <1>1, NextOfFacts
  <2>2. QED
    BY <1>1, <2>1 DEF Abandons
<1>2. CASE w.group # "all"
  BY <1>2, PromptFacts DEF Abandons
<1>3. QED
  BY <1>1, <1>2

\* An exception, which a cluster passes over.
LEMMA ThrowsFacts ==
  ASSUME NEW w \in ShellRecords, WellPlaced(w), w.step \notin {"report", "prompt"}, w.got # 0
  PROVE  Throws(w) \in ShellRecords /\ WellPlaced(Throws(w)) /\ Throws(w).step \in {"prompt", "report", "find", "resolve"}
<1>1. CASE w.group = "cluster"
  <2>1. NextOf(w, 0) \in ShellRecords /\ WellPlaced(NextOf(w, 0)) /\ NextOf(w, 0).step \in {"report", "find", "resolve"}
    BY NextOfFacts
  <2>2. QED
    BY <1>1, <2>1 DEF Throws
<1>2. CASE w.group # "cluster"
  BY <1>2, AbandonsFacts DEF Throws
<1>3. QED
  BY <1>1, <1>2

\* One command moves: the others' downloads, goals and places are as they were.
LEMMA InstallerKeeps ==
  ASSUME InstallerKnows, NEW s \in Shell, NEW with \in ShellRecords, Shows(s, with), WellPlaced(with), editions' = editions,
         edition' \in 1..2, expired' \subseteq 1..2, cached' \in 0..2, mishaps' \in Nat,
         stock' \in [Where -> [Pkg -> [Rel -> {"none", "listed", "other"}]]], chosen' \in [Where -> [Pkg -> 0..2]],
         temps' \subseteq [by : Shell \union {"nobody"}, bytes : {"listed", "other"}],
         Audited \subseteq Audited', StockIsLogged', OwnDownload(s)',
         \A f \in temps' \ temps : f.by \in {s, "nobody"}, \A f \in temps \ temps' : f.by = s,
         (Does(s, "judge") /\ with.step = "resolve") => shell[s].got \in {1, 2} \ expired,
         with.step = "download" => Does(s, "resolve") /\ with.got = shell[s].got /\ with.name = shell[s].name /\ with.pin = shell[s].pin,
         (Does(s, "install") /\ stock' # stock) =>
           LET w == shell[s] IN stock'[w.place][w.name][w.goal] = "listed" \/ editions[w.got][w.name][w.goal] = "loose",
         \A f \in temps' \ temps : f.by \notin Shell =>
           mishaps' > mishaps \/ (Does(s, "install") /\ stock[shell[s].place][shell[s].name][shell[s].goal] \notin {"none", f.bytes})
  PROVE  InstallerKnows' /\ InstallsAreListed
<1>1. shell' \in [Shell -> ShellRecords] /\ shell'[s] = with /\ \A d \in Shell \ {s} : shell'[d] = shell[d]
  BY DEF Shows, InstallerKnows, InstallerTyped
<1>2. InstallerTyped'
  BY <1>1 DEF InstallerKnows, InstallerTyped
<1>3. \A w \in ShellRecords : GoalIsListed(w)' <=> GoalIsListed(w)
  BY DEF GoalIsListed
<1>4. \A w \in ShellRecords : WellPlaced(w)' <=> WellPlaced(w)
  BY <1>3 DEF WellPlaced, Counted
<1>5. ASSUME NEW d \in Shell \ {s} PROVE WellPlaced(shell[d])' /\ OwnDownload(d)'
  <2>1. shell'[d] = shell[d] /\ shell[d] \in ShellRecords /\ WellPlaced(shell[d]) /\ OwnDownload(d) /\ d # "nobody"
    BY <1>1, InstallerAssumption DEF InstallerKnows, InstallerTyped
  <2>2. \A f : (f \in temps' /\ f.by = d) <=> (f \in temps /\ f.by = d)
    BY <2>1
  <2>3. OwnDownload(d)'
    BY <2>1, <2>2 DEF OwnDownload
  <2>4. QED
    BY <1>4, <2>1, <2>3
<1>6. WellPlaced(shell[s])'
  BY <1>1, <1>4
<1>7. InstallerKnows'
  BY <1>2, <1>5, <1>6 DEF InstallerKnows
<1>8. ASSUME NEW d \in Shell
      PROVE  /\ (Does(d, "judge") /\ shell'[d].step = "resolve") => shell[d].got \in {1, 2} \ expired
             /\ (shell[d].verb = "install" /\ shell'[d].step = "download") =>
                  LET mark == editions[shell[d].got][shell[d].name] IN
                  /\ mark[shell'[d].goal] \notin {"absent", "yanked", "revoked"}
                  /\ shell[d].pin = 0 => \A r \in Rel : r > shell'[d].goal => mark[r] \in {"absent", "yanked"}
             /\ (Does(d, "install") /\ shell'[d] # shell[d] /\ stock' # stock) =>
                  LET w == shell[d] IN
                  /\ stock'[w.place][w.name][w.goal] = "listed" \/ editions[w.got][w.name][w.goal] = "loose"
                  /\ w.base # 0 => w.goal > w.base
  <2>1. WellPlaced(shell[d])
    BY DEF InstallerKnows
  <2>2. CASE d = s
    <3>1. with.step = "download" => GoalIsListed(with)
      BY DEF WellPlaced
    <3>2. Does(s, "install") => GoalIsListed(shell[s])
      BY <2>1, <2>2 DEF WellPlaced, Does
    <3>3. (Does(d, "install") /\ shell'[d] # shell[d] /\ stock' # stock) =>
                  LET w == shell[d] IN
                  /\ stock'[w.place][w.name][w.goal] = "listed" \/ editions[w.got][w.name][w.goal] = "loose"
                  /\ w.base # 0 => w.goal > w.base
      BY <2>2, <3>2 DEF GoalIsListed
    <3>4. (shell[d].verb = "install" /\ shell'[d].step = "download") =>
                  LET mark == editions[shell[d].got][shell[d].name] IN
                  /\ mark[shell'[d].goal] \notin {"absent", "yanked", "revoked"}
                  /\ shell[d].pin = 0 => \A r \in Rel : r > shell'[d].goal => mark[r] \in {"absent", "yanked"}
      BY <1>1, <2>2, <3>1 DEF GoalIsListed
    <3>5. QED
      BY <1>1, <2>2, <3>3, <3>4
  <2>3. CASE d # s
    <3>1. shell'[d] = shell[d]
      BY <1>1, <2>3
    <3>2. shell[d].step = "download" => GoalIsListed(shell[d])
      BY <2>1 DEF WellPlaced
    <3>3. QED
      BY <3>1, <3>2 DEF Does, GoalIsListed
  <2>4. QED
    BY <2>2, <2>3
<1>9. QED
  BY <1>7, <1>8 DEF InstallsAreListed

\* A command that neither downloads nor installs moves.
LEMMA QuietKeeps ==
  ASSUME InstallerKnows, NEW s \in Shell, NEW with \in ShellRecords, Shows(s, with), WellPlaced(with),
         UNCHANGED <<editions, stock, chosen, temps, Audited, mishaps>>, edition' \in 1..2, expired' \subseteq 1..2, cached' \in 0..2,
         shell[s].step \notin {"verify", "install"}, with.step \notin {"verify", "install"},
         (Does(s, "judge") /\ with.step = "resolve") => shell[s].got \in {1, 2} \ expired,
         with.step = "download" => Does(s, "resolve") /\ with.got = shell[s].got /\ with.name = shell[s].name /\ with.pin = shell[s].pin
  PROVE  InstallerKnows' /\ InstallsAreListed
<1>1. shell'[s] = with
  BY DEF Shows, InstallerKnows, InstallerTyped
<1>2. OwnDownload(s)'
  <2>1. OwnDownload(s)
    BY DEF InstallerKnows
  <2>2. QED
    BY <1>1, <2>1 DEF OwnDownload
<1>3. StockIsLogged' /\ mishaps' \in Nat /\ temps' \subseteq [by : Shell \union {"nobody"}, bytes : {"listed", "other"}]
      /\ stock' \in [Where -> [Pkg -> [Rel -> {"none", "listed", "other"}]]] /\ chosen' \in [Where -> [Pkg -> 0..2]]
  BY DEF InstallerKnows, InstallerTyped, StockIsLogged
<1>4. temps' \ temps = {} /\ temps \ temps' = {} /\ Audited \subseteq Audited'
  OBVIOUS
<1>5. QED
  BY <1>2, <1>3, <1>4, InstallerKeeps

\* What is known of a command before it moves.
LEMMA ShellKnows ==
  ASSUME InstallerKnows, NEW s \in Shell
  PROVE  /\ shell[s] \in ShellRecords /\ WellPlaced(shell[s]) /\ OwnDownload(s) /\ InstallerTyped
         /\ edition \in 1..2 /\ expired \subseteq 1..2 /\ cached \in 0..2
BY ShellFacts DEF InstallerKnows, InstallerTyped

\* A command is started.
LEMMA CallStep == ASSUME InstallerKnows, NEW s \in Shell, Call(s) PROVE InstallerKnows' /\ InstallsAreListed
<1>1. shell[s] = AtPrompt /\ UNCHANGED <<editions, stock, chosen, temps, Audited, mishaps>> /\ UNCHANGED <<edition, expired, cached>>
  BY DEF Call, Audited
<1>2. shell[s].step = "prompt"
  BY <1>1, PromptFacts
<1>3. PICK one, both : one = <<"first">> /\ both = <<"first", "second">>
  OBVIOUS
<1>7. one \in Seq(Pkg) /\ one # <<>> /\ Len(one) = 1 /\ both \in Seq(Pkg) /\ both # <<>> /\ "global" \in Where
  BY <1>3 DEF Pkg, Where
<1>8. <<"second">> \in Seq(Pkg) /\ <<"second">> # <<>>
  BY DEF Pkg
<1>4. \E with \in ShellRecords : Shows(s, with) /\ WellPlaced(with) /\ with.step \in {"load", "find", "remove", "assess"}
  <2>1. CASE \E r \in {0, 2}, l \in Where : CallInstall(s, "first", r, l)
    <3>1. PICK r \in 0..2, l \in Where : Shows(s, Begun("install", "none", one, r, l, 0, "load"))
      BY <1>3, <2>1 DEF CallInstall
    <3>2. PICK with \in ShellRecords : Shows(s, with) /\ WellPlaced(with) /\ with.step = "load"
      BY <1>7, <3>1, BegunFacts
    <3>3. QED
      BY <3>2
  <2>2. CASE CallCluster(s)
    <3>1. Shows(s, Begun("install", "cluster", both, 0, "global", 0, "load"))
      BY <1>3, <2>2 DEF CallCluster
    <3>2. PICK with \in ShellRecords : Shows(s, with) /\ WellPlaced(with) /\ with.step = "load"
      BY <1>7, <3>1, BegunFacts
    <3>3. QED
      BY <3>2
  <2>3. CASE Shows(s, Begun("update", "none", <<"first">>, 0, "global", 0, "find"))
    <3>1. Shows(s, Begun("update", "none", one, 0, "global", 0, "find"))
      BY <1>3, <2>3
    <3>2. PICK with \in ShellRecords : Shows(s, with) /\ WellPlaced(with) /\ with.step = "find"
      BY <1>7, <3>1, BegunFacts
    <3>3. QED
      BY <3>2
  <2>4. CASE \E queue \in {<<"first">>, <<"second">>, <<"first", "second">>} : CallUpdateAll(s, queue)
    <3>1. PICK queue \in Seq(Pkg) : queue # <<>> /\ Shows(s, Begun("update", "all", queue, 0, "global", 0, "find"))
      BY <1>3, <1>7, <1>8, <2>4 DEF CallUpdateAll
    <3>2. PICK with \in ShellRecords : Shows(s, with) /\ WellPlaced(with) /\ with.step = "find"
      BY <1>7, <3>1, BegunFacts
    <3>3. QED
      BY <3>2
  <2>5. CASE \E r \in {0, 1} : Shows(s, Begun("remove", "none", <<"first">>, r, "global", 0, "remove"))
    <3>1. PICK r \in 0..2 : Shows(s, Begun("remove", "none", one, r, "global", 0, "remove"))
      BY <1>3, <2>5
    <3>2. PICK with \in ShellRecords : Shows(s, with) /\ WellPlaced(with) /\ with.step = "remove"
      BY <1>7, <3>1, BegunFacts
    <3>3. QED
      BY <3>2
  <2>6. CASE \E r \in Rel : Shows(s, Begun("file", "none", <<"first">>, 0, "global", r, "assess"))
    <3>1. PICK r \in 0..2 : r # 0 /\ Shows(s, Begun("file", "none", one, 0, "global", r, "assess"))
      BY <1>3, <2>6 DEF Rel
    <3>2. PICK with \in ShellRecords : Shows(s, with) /\ WellPlaced(with) /\ with.step = "assess"
      BY <1>7, <3>1, BegunFacts
    <3>3. QED
      BY <3>2
  <2>7. QED
    BY <2>1, <2>2, <2>3, <2>4, <2>5, <2>6 DEF Call
<1>5. PICK with \in ShellRecords : Shows(s, with) /\ WellPlaced(with) /\ with.step \in {"load", "find", "remove", "assess"}
  BY <1>4
<1>6. QED
  BY <1>1, <1>2, <1>5, QuietKeeps, ShellKnows DEF Does

\* The registry is loaded: the copy in the cache, one that is fetched, or what there is when a fetch fails.
LEMMA LoadRegistryStep == ASSUME InstallerKnows, NEW s \in Shell, LoadRegistry(s) PROVE InstallerKnows' /\ InstallsAreListed
<1>1. shell[s].step = "load" /\ UNCHANGED <<editions, stock, chosen, temps, Audited, mishaps>> /\ UNCHANGED <<edition, expired, cached>>
  BY DEF LoadRegistry, Does, Audited
<1>2. PICK got \in 0..2, step \in {"save", "judge"} : Shows(s, [shell[s] EXCEPT !.got = got, !.step = step])
  <2>1. edition \in 0..2 /\ cached \in 0..2
    BY ShellKnows
  <2>2. CASE Shows(s, [shell[s] EXCEPT !.got = edition, !.step = "save"])
    BY <2>1, <2>2
  <2>3. CASE Shows(s, [shell[s] EXCEPT !.got = cached, !.step = "judge"])
    BY <2>1, <2>3
  <2>4. QED
    BY <2>2, <2>3 DEF LoadRegistry
<1>3. PICK with : with = [shell[s] EXCEPT !.got = got, !.step = step]
  OBVIOUS
<1>4. shell[s] \in ShellRecords /\ WellPlaced(shell[s])
  BY ShellKnows
<1>5. with \in ShellRecords /\ with.step = step
  BY <1>3, <1>4 DEF ShellRecords, ShellSteps
<1>6. with.verb = shell[s].verb /\ with.base = shell[s].base /\ with.pin = shell[s].pin /\ with.group = shell[s].group
      /\ with.rest = shell[s].rest /\ with.failed = shell[s].failed /\ with.done = shell[s].done /\ with.total = shell[s].total
  BY <1>3, <1>4 DEF ShellRecords
<1>7. WellPlaced(with)
  BY <1>1, <1>4, <1>5, <1>6 DEF WellPlaced, Counted
<1>8. Shows(s, with)
  BY <1>2, <1>3
<1>9. QED
  BY <1>1, <1>5, <1>7, <1>8, QuietKeeps, ShellKnows DEF Does

\* What a step leaves of the command when it changes only its step.
LEMMA OnlyStep ==
  ASSUME NEW w \in ShellRecords, WellPlaced(w), NEW step \in ShellSteps \ {"find", "assess", "report"}, w.step \notin {"report", "prompt"},
         step = "resolve" => w.got # 0, step \in {"download", "verify", "install"} => GoalIsListed(w),
         step \in {"load", "save", "judge", "resolve"} => w.verb \in {"install", "update"},
         NEW with, with = [w EXCEPT !.step = step]
  PROVE  with \in ShellRecords /\ WellPlaced(with) /\ with.step = step /\ with.got = w.got /\ with.name = w.name /\ with.pin = w.pin
         /\ with.goal = w.goal
<1>1. with \in ShellRecords /\ with.step = step /\ with.got = w.got /\ with.name = w.name /\ with.pin = w.pin /\ with.goal = w.goal
  BY DEF ShellRecords
<1>2. with.verb = w.verb /\ with.base = w.base /\ with.group = w.group /\ with.rest = w.rest /\ with.failed = w.failed
      /\ with.done = w.done /\ with.total = w.total
  BY DEF ShellRecords
<1>3. step \in {"download", "verify", "install"} => GoalIsListed(with)
  BY <1>1, <1>2 DEF GoalIsListed
<1>4. QED
  BY <1>1, <1>2, <1>3 DEF WellPlaced, Counted

\* A fetched copy is cached.
LEMMA SaveRegistryStep == ASSUME InstallerKnows, NEW s \in Shell, SaveRegistry(s) PROVE InstallerKnows' /\ InstallsAreListed
<1>1. shell[s].step = "save" /\ UNCHANGED <<editions, stock, chosen, temps, Audited, mishaps>> /\ UNCHANGED <<edition, expired>>
  BY DEF SaveRegistry, Does, Audited
<1>2. PICK with : with = [shell[s] EXCEPT !.step = "judge"]
  OBVIOUS
<1>3. with \in ShellRecords /\ WellPlaced(with) /\ with.step = "judge" /\ cached' \in 0..2
  <2>1. "judge" \in ShellSteps
    BY DEF ShellSteps
  <2>2. shell[s].verb \in {"install", "update"}
    BY <1>1, ShellKnows DEF WellPlaced
  <2>3. QED
    BY <1>1, <1>2, <2>1, <2>2, OnlyStep, ShellKnows, ShellFacts DEF SaveRegistry
<1>4. Shows(s, with)
  BY <1>2 DEF SaveRegistry
<1>5. QED
  BY <1>1, <1>3, <1>4, QuietKeeps, ShellKnows DEF Does

\* A copy that has not expired is used.
LEMMA JudgeRegistryStep == ASSUME InstallerKnows, NEW s \in Shell, JudgeRegistry(s) PROVE InstallerKnows' /\ InstallsAreListed
<1>1. shell[s].step = "judge" /\ UNCHANGED <<editions, stock, chosen, temps, Audited, mishaps>> /\ UNCHANGED <<edition, expired, cached>>
  BY DEF JudgeRegistry, Does, Audited
<1>2. shell[s] \in ShellRecords /\ WellPlaced(shell[s]) /\ shell[s].got \in 0..2
  BY ShellKnows, ShellFacts
<1>3. PICK with : with = (IF shell[s].got = 0 THEN Abandons(shell[s])
            ELSE IF shell[s].got \notin expired THEN [shell[s] EXCEPT !.step = "resolve"]
            ELSE IF shell[s].refresh THEN Abandons(shell[s]) ELSE [shell[s] EXCEPT !.refresh = TRUE, !.step = "load"])
  OBVIOUS
<1>4. Shows(s, with)
  BY <1>3 DEF JudgeRegistry
<1>5. CASE with = Abandons(shell[s])
  <2>1. with \in ShellRecords /\ WellPlaced(with) /\ with.step \in {"prompt", "report", "find", "resolve"}
    BY <1>1, <1>2, <1>5, AbandonsFacts
  <2>2. with.step # "resolve"
    <3>1. CASE shell[s].group = "all"
      <4>1. with = NextOf(shell[s], 1)
        BY <1>5, <3>1 DEF Abandons
      <4>2. shell[s].done + 1 \in Nat /\ shell[s].failed + 1 \in Nat
        BY <1>2 DEF ShellRecords
      <4>3. QED
        BY <1>2, <3>1, <4>1, <4>2 DEF NextOf, ShellRecords
    <3>2. CASE shell[s].group # "all"
      BY <1>5, <3>2, PromptFacts DEF Abandons
    <3>3. QED
      BY <3>1, <3>2
  <2>3. QED
    BY <1>1, <1>4, <2>1, <2>2, QuietKeeps, ShellKnows DEF Does
<1>6. CASE shell[s].got # 0 /\ shell[s].got \notin expired /\ with = [shell[s] EXCEPT !.step = "resolve"]
  <2>1. "resolve" \in ShellSteps /\ shell[s].verb \in {"install", "update"}
    BY <1>1, <1>2 DEF ShellSteps, WellPlaced
  <2>2. with \in ShellRecords /\ WellPlaced(with) /\ with.step = "resolve"
    BY <1>1, <1>2, <1>6, <2>1, OnlyStep
  <2>3. shell[s].got \in {1, 2} \ expired
    BY <1>2, <1>6
  <2>4. QED
    BY <1>1, <1>4, <2>2, <2>3, QuietKeeps, ShellKnows DEF Does
<1>7. CASE with = [shell[s] EXCEPT !.refresh = TRUE, !.step = "load"]
  <2>1. with \in ShellRecords /\ with.step = "load"
    BY <1>2, <1>7 DEF ShellRecords, ShellSteps
  <2>2. with.verb = shell[s].verb /\ with.base = shell[s].base /\ with.pin = shell[s].pin /\ with.group = shell[s].group
        /\ with.rest = shell[s].rest /\ with.failed = shell[s].failed /\ with.done = shell[s].done /\ with.total = shell[s].total
    BY <1>2, <1>7 DEF ShellRecords
  <2>3. WellPlaced(with)
    BY <1>1, <1>2, <2>1, <2>2 DEF WellPlaced, Counted
  <2>4. QED
    BY <1>1, <1>4, <2>1, <2>3, QuietKeeps, ShellKnows DEF Does
<1>8. QED
  BY <1>3, <1>5, <1>6, <1>7

\* The release that is taken of two: the pinned one, or the newest that is not yanked.
LEMMA ResolvesFacts ==
  ASSUME NEW entries \in [Rel -> Marks], NEW pin \in 0..2
  PROVE  /\ Resolves(entries, pin) \in 0..2
         /\ Resolves(entries, pin) # 0 =>
              /\ entries[Resolves(entries, pin)] \notin {"absent", "yanked", "revoked"}
              /\ pin = 0 => \A r \in Rel : r > Resolves(entries, pin) => entries[r] \in {"absent", "yanked"}
              /\ pin # 0 => Resolves(entries, pin) = pin
<1>1. PICK r : r = SelectRegistryEntry(entries, pin)
  OBVIOUS
<1>2. Resolves(entries, pin) = IF r # 0 /\ entries[r] \in {"yanked", "revoked"} THEN 0 ELSE r
  BY <1>1 DEF Resolves
<1>3. CASE pin # 0
  <2>1. r = IF entries[pin] = "absent" THEN 0 ELSE pin
    BY <1>1, <1>3 DEF SelectRegistryEntry
  <2>2. QED
    BY <1>2, <1>3, <2>1
<1>4. CASE pin = 0
  <2>1. PICK T : T = {0} \union {q \in Rel : entries[q] \notin {"absent", "yanked"}}
    OBVIOUS
  <2>2. T \subseteq {0, 1, 2} /\ 0 \in T /\ r = Max(T)
    BY <1>1, <1>4, <2>1 DEF SelectRegistryEntry, Rel
  <2>3. \E x \in T : \A y \in T : x >= y
    <3>1. CASE 2 \in T
      BY <2>2, <3>1
    <3>2. CASE 2 \notin T /\ 1 \in T
      BY <2>2, <3>2
    <3>3. CASE 2 \notin T /\ 1 \notin T
      BY <2>2, <3>3
    <3>4. QED
      BY <3>1, <3>2, <3>3
  <2>4. r \in T /\ \A y \in T : r >= y
    BY <2>2, <2>3 DEF Max
  <2>5. r # 0 => entries[r] \notin {"absent", "yanked"}
    BY <2>1, <2>4
  <2>6. \A q \in Rel : q > r => entries[q] \in {"absent", "yanked"}
    BY <2>1, <2>2, <2>4 DEF Rel
  <2>7. QED
    BY <1>2, <1>4, <2>2, <2>4, <2>5, <2>6
<1>5. QED
  BY <1>3, <1>4

\* The entry is resolved: an update goes on to an install of a newer release, an install to its download.
LEMMA ResolveEntryStep == ASSUME InstallerKnows, NEW s \in Shell, ResolveEntry(s) PROVE InstallerKnows' /\ InstallsAreListed
<1>1. shell[s].step = "resolve" /\ UNCHANGED <<editions, stock, chosen, temps, Audited, mishaps>> /\ UNCHANGED <<edition, expired, cached>>
  BY DEF ResolveEntry, Does, Audited
<1>2. PICK w : w = shell[s]
  OBVIOUS
<1>3. w \in ShellRecords /\ WellPlaced(w) /\ w.got \in 0..2 /\ w.name \in Pkg /\ w.pin \in 0..2 /\ w.step = "resolve" /\ w.base \in 0..2
  BY <1>1, <1>2, ShellKnows, ShellFacts
<1>4. w.got \in 1..2
  BY <1>3 DEF WellPlaced
<1>5. PICK entries : entries = editions[w.got][w.name]
  OBVIOUS
<1>6. PICK r : r = Resolves(entries, w.pin)
  OBVIOUS
<1>7. entries \in [Rel -> Marks]
  BY <1>3, <1>4, <1>5 DEF InstallerKnows, InstallerTyped
<1>8. /\ r \in 0..2
      /\ r # 0 => entries[r] \notin {"absent", "yanked", "revoked"}
      /\ (r # 0 /\ w.pin = 0) => \A q \in Rel : q > r => entries[q] \in {"absent", "yanked"}
      /\ (r # 0 /\ w.pin # 0) => r = w.pin
  BY <1>3, <1>6, <1>7, ResolvesFacts
<1>9. ASSUME NEW with \in ShellRecords, WellPlaced(with), with.step \in {"prompt", "report", "find", "resolve", "load"}, Shows(s, with)
      PROVE  InstallerKnows' /\ InstallsAreListed
  BY <1>1, <1>9, QuietKeeps, ShellKnows DEF Does
<1>10. CASE Shows(s, AtPrompt)
  BY <1>9, <1>10, PromptFacts
<1>11. CASE Shows(s, Abandons(w))
  <2>1. PICK with : with = Abandons(w)
    OBVIOUS
  <2>2. Abandons(w) \in ShellRecords /\ WellPlaced(Abandons(w)) /\ Abandons(w).step \in {"prompt", "report", "find", "resolve"}
    BY <1>3, AbandonsFacts
  <2>3. QED
    BY <1>9, <1>11, <2>2
<1>12. CASE Shows(s, Throws(w))
  <2>1. Throws(w) \in ShellRecords /\ WellPlaced(Throws(w)) /\ Throws(w).step \in {"prompt", "report", "find", "resolve"}
    BY <1>3, <1>4, ThrowsFacts
  <2>2. QED
    BY <1>9, <1>12, <2>1
<1>13. CASE Shows(s, NextOf(w, 0))
  <2>1. NextOf(w, 0) \in ShellRecords /\ WellPlaced(NextOf(w, 0)) /\ NextOf(w, 0).step \in {"report", "find", "resolve"}
    BY <1>3, <1>4, NextOfFacts
  <2>2. QED
    BY <1>9, <1>13, <2>1
<1>14. CASE r # 0 /\ r > w.base /\ Shows(s, [w EXCEPT !.verb = "install", !.pin = r, !.refresh = FALSE, !.got = 0, !.step = "load"])
  <2>1. PICK with : with = [w EXCEPT !.verb = "install", !.pin = r, !.refresh = FALSE, !.got = 0, !.step = "load"]
    OBVIOUS
  <2>2. with \in ShellRecords
    <3>1. PICK mid : mid = [w EXCEPT !.verb = "install", !.pin = r]
      OBVIOUS
    <3>2. mid \in ShellRecords
      BY <1>3, <1>8, <3>1 DEF ShellRecords
    <3>3. PICK again : again = [mid EXCEPT !.refresh = FALSE]
      OBVIOUS
    <3>4. again \in ShellRecords
      BY <3>2, <3>3 DEF ShellRecords
    <3>5. with = [again EXCEPT !.got = 0, !.step = "load"]
      BY <2>1, <3>1, <3>3
    <3>6. "load" \in ShellSteps /\ 0 \in 0..2
      BY DEF ShellSteps
    <3>7. QED
      BY <3>4, <3>5, <3>6 DEF ShellRecords
  <2>3. with.step = "load" /\ with.verb = "install" /\ with.base = w.base /\ with.pin = r /\ with.group = w.group
        /\ with.rest = w.rest /\ with.failed = w.failed /\ with.done = w.done /\ with.total = w.total
    BY <1>3, <2>1 DEF ShellRecords
  <2>4. WellPlaced(with)
    BY <1>3, <1>14, <2>3 DEF WellPlaced, Counted
  <2>5. QED
    BY <1>9, <1>14, <2>1, <2>2, <2>3, <2>4
<1>15. CASE w.verb # "update" /\ r # 0 /\ Shows(s, [w EXCEPT !.goal = r, !.step = "download"])
  <2>1. PICK with : with = [w EXCEPT !.goal = r, !.step = "download"]
    OBVIOUS
  <2>2. with \in ShellRecords
    BY <1>3, <1>8, <2>1 DEF ShellRecords, ShellSteps
  <2>3. with.step = "download" /\ with.verb = w.verb /\ with.base = w.base /\ with.pin = w.pin /\ with.group = w.group
        /\ with.rest = w.rest /\ with.failed = w.failed /\ with.done = w.done /\ with.total = w.total
        /\ with.goal = r /\ with.got = w.got /\ with.name = w.name
    BY <1>3, <2>1 DEF ShellRecords
  <2>4. w.verb = "install"
    BY <1>3, <1>15 DEF WellPlaced
  <2>5. w.base # 0 => r > w.base
    BY <1>3, <1>8, <1>15, <2>4 DEF WellPlaced
  <2>6. GoalIsListed(with)
    BY <1>4, <1>5, <1>8, <1>15, <2>3, <2>4, <2>5 DEF GoalIsListed
  <2>7. WellPlaced(with)
    BY <1>3, <2>3, <2>6 DEF WellPlaced, Counted
  <2>8. Shows(s, with)
    BY <1>15, <2>1
  <2>9. QED
    BY <1>1, <1>2, <2>2, <2>3, <2>7, <2>8, QuietKeeps, ShellKnows DEF Does
<1>16. QED
  BY <1>2, <1>5, <1>6, <1>10, <1>11, <1>12, <1>13, <1>14, <1>15 DEF ResolveEntry, IsNewer

\* A file is downloaded, and is the command's own.
LEMMA DownloadStep == ASSUME InstallerKnows, NEW s \in Shell, Download(s) PROVE InstallerKnows' /\ InstallsAreListed
<1>1. shell[s].step = "download" /\ UNCHANGED <<editions, stock, chosen, Audited>> /\ UNCHANGED <<edition, expired, cached>>
  BY DEF Download, Does, Audited
<1>2. shell[s] \in ShellRecords /\ WellPlaced(shell[s]) /\ OwnDownload(s) /\ InstallerTyped /\ s # "nobody"
  BY ShellKnows, InstallerAssumption
<1>3. CASE Shows(s, Abandons(shell[s])) /\ UNCHANGED <<temps, mishaps>>
  <2>1. Abandons(shell[s]) \in ShellRecords /\ WellPlaced(Abandons(shell[s]))
        /\ Abandons(shell[s]).step \in {"prompt", "report", "find", "resolve"}
    BY <1>1, <1>2, AbandonsFacts
  <2>2. QED
    BY <1>1, <1>3, <2>1, QuietKeeps, ShellKnows DEF Does
<1>4. ASSUME NEW bytes \in {"listed", "other"}, temps' = temps \union {[by |-> s, bytes |-> bytes]}, mishaps' = mishaps,
             Shows(s, [shell[s] EXCEPT !.step = "verify"])
      PROVE  InstallerKnows' /\ InstallsAreListed
  <2>1. PICK with : with = [shell[s] EXCEPT !.step = "verify"]
    OBVIOUS
  <2>2. "verify" \in ShellSteps /\ GoalIsListed(shell[s])
    BY <1>1, <1>2 DEF ShellSteps, WellPlaced
  <2>3. with \in ShellRecords /\ WellPlaced(with) /\ with.step = "verify"
    BY <1>1, <1>2, <2>1, <2>2, OnlyStep
  <2>4. shell'[s] = with /\ Shows(s, with)
    BY <1>2, <1>4, <2>1 DEF Shows, InstallerTyped
  <2>5. PICK down : down = [by |-> s, bytes |-> bytes]
    OBVIOUS
  <2>6. down \in temps' /\ down.by = s /\ down \in [by : Shell \union {"nobody"}, bytes : {"listed", "other"}]
    BY <1>4, <2>5
  <2>7. OwnDownload(s)'
    <3>1. \A f \in temps' : f.by = s => f = down
      BY <1>1, <1>2, <1>4, <2>5 DEF OwnDownload
    <3>2. QED
      BY <2>3, <2>4, <2>6, <3>1 DEF OwnDownload
  <2>8. temps' \subseteq [by : Shell \union {"nobody"}, bytes : {"listed", "other"}] /\ \A f \in temps' \ temps : f.by = s
    BY <1>2, <1>4, <2>5, <2>6 DEF InstallerTyped
  <2>9. StockIsLogged' /\ mishaps' \in Nat /\ edition' \in 1..2 /\ expired' \subseteq 1..2 /\ cached' \in 0..2
        /\ stock' \in [Where -> [Pkg -> [Rel -> {"none", "listed", "other"}]]] /\ chosen' \in [Where -> [Pkg -> 0..2]]
    BY <1>1, <1>4 DEF InstallerKnows, InstallerTyped, StockIsLogged
  <2>10. temps \ temps' = {} /\ Audited \subseteq Audited'
    BY <1>1, <1>4
  <2>11. QED
    BY <1>1, <2>3, <2>4, <2>7, <2>8, <2>9, <2>10, InstallerKeeps DEF Does
<1>5. CASE /\ Shows(s, Abandons(shell[s])) /\ mishaps' = mishaps + 1
           /\ temps' = temps \union {[by |-> "nobody", bytes |-> "other"]}
  <2>1. Abandons(shell[s]) \in ShellRecords /\ WellPlaced(Abandons(shell[s]))
        /\ Abandons(shell[s]).step \in {"prompt", "report", "find", "resolve"}
    BY <1>1, <1>2, AbandonsFacts
  <2>2. PICK rest : rest = [by |-> "nobody", bytes |-> "other"]
    OBVIOUS
  <2>3. rest.by = "nobody" /\ rest \in [by : Shell \union {"nobody"}, bytes : {"listed", "other"}] /\ temps' = temps \union {rest}
    BY <1>5, <2>2
  <2>4. Mine(s) = {}
    BY <1>1, <1>2 DEF OwnDownload, Mine
  <2>5. mishaps' \in Nat /\ mishaps' > mishaps
    BY <1>2, <1>5 DEF InstallerTyped
  <2>6. \A f \in temps' : f.by # s
    BY <1>2, <2>3, <2>4 DEF Mine
  <2>7. PICK with : with = Abandons(shell[s])
    OBVIOUS
  <2>8. shell'[s] = with /\ Shows(s, with) /\ with \in ShellRecords /\ WellPlaced(with)
        /\ with.step \in {"prompt", "report", "find", "resolve"}
    BY <1>2, <1>5, <2>1, <2>7 DEF Shows, InstallerTyped
  <2>9. OwnDownload(s)'
    BY <2>6, <2>8 DEF OwnDownload
  <2>10. temps' \subseteq [by : Shell \union {"nobody"}, bytes : {"listed", "other"}] /\ (\A f \in temps' \ temps : f.by = "nobody")
         /\ temps \ temps' = {}
    BY <1>2, <2>3 DEF InstallerTyped
  <2>11. StockIsLogged' /\ edition' \in 1..2 /\ expired' \subseteq 1..2 /\ cached' \in 0..2 /\ Audited \subseteq Audited'
         /\ stock' \in [Where -> [Pkg -> [Rel -> {"none", "listed", "other"}]]] /\ chosen' \in [Where -> [Pkg -> 0..2]]
    BY <1>1 DEF InstallerKnows, InstallerTyped, StockIsLogged
  <2>12. QED
    BY <1>1, <2>5, <2>8, <2>9, <2>10, <2>11, InstallerKeeps DEF Does
<1>6. QED
  BY <1>3, <1>4, <1>5 DEF Download

\* The download of a command is one of its own files.
LEMMA BytesAreMine ==
  ASSUME NEW s \in Shell, OwnDownload(s), shell[s].step \in {"verify", "install"}
  PROVE  \E f \in temps : f.by = s /\ f.bytes = BytesOf(s)
<1>1. PICK own \in temps : own.by = s
  BY DEF OwnDownload
<1>2. own \in Mine(s)
  BY <1>1 DEF Mine
<1>3. (CHOOSE f \in Mine(s) : TRUE) \in Mine(s)
  BY <1>2
<1>4. QED
  BY <1>3 DEF BytesOf, Mine

\* A command that drops its download, or leaves it behind, and ends or goes on to another package.
LEMMA DropKeeps ==
  ASSUME InstallerKnows, NEW s \in Shell, NEW with \in ShellRecords, Shows(s, with), WellPlaced(with),
         UNCHANGED <<editions, edition, expired, cached>>, mishaps' \in Nat,
         stock' \in [Where -> [Pkg -> [Rel -> {"none", "listed", "other"}]]], chosen' \in [Where -> [Pkg -> 0..2]],
         Audited \subseteq Audited', StockIsLogged', with.step \notin {"verify", "install", "download"},
         shell[s].step # "judge" \/ with.step # "resolve",
         temps' = temps \ Mine(s) \/ temps' = (temps \ Mine(s)) \union {[f EXCEPT !.by = "nobody"] : f \in Mine(s)},
         (Does(s, "install") /\ stock' # stock) =>
           LET w == shell[s] IN stock'[w.place][w.name][w.goal] = "listed" \/ editions[w.got][w.name][w.goal] = "loose",
         \A f \in temps' \ temps : f.by = "nobody" =>
           mishaps' > mishaps \/ (Does(s, "install") /\ stock[shell[s].place][shell[s].name][shell[s].goal] \notin {"none", f.bytes})
  PROVE  InstallerKnows' /\ InstallsAreListed
<1>1. InstallerTyped /\ s # "nobody" /\ edition' \in 1..2 /\ expired' \subseteq 1..2 /\ cached' \in 0..2
  BY ShellKnows, InstallerAssumption
<1>2. shell'[s] = with
  BY <1>1 DEF Shows, InstallerTyped
<1>3. ASSUME NEW f \in Mine(s), NEW gone, gone = [f EXCEPT !.by = "nobody"]
      PROVE  gone \in [by : Shell \union {"nobody"}, bytes : {"listed", "other"}] /\ gone.by = "nobody"
  <2>1. f \in [by : Shell \union {"nobody"}, bytes : {"listed", "other"}]
    BY <1>1 DEF Mine, InstallerTyped
  <2>2. QED
    BY <1>3, <2>1
<1>4. temps' \subseteq [by : Shell \union {"nobody"}, bytes : {"listed", "other"}]
  BY <1>1, <1>3 DEF InstallerTyped
<1>5. \A f \in temps' \ temps : f.by = "nobody"
  BY <1>3
<1>6. \A f \in temps \ temps' : f.by = s
  BY DEF Mine
<1>7. \A f \in temps' : f.by # s
  <2>1. \A f \in temps \ Mine(s) : f.by # s
    BY DEF Mine
  <2>2. \A f \in temps' : f \in temps \ Mine(s) \/ f.by = "nobody"
    BY <1>3
  <2>3. QED
    BY <1>1, <2>1, <2>2
<1>8. OwnDownload(s)'
  BY <1>2, <1>7 DEF OwnDownload
<1>9. \A f \in temps' \ temps : f.by \notin Shell => f.by = "nobody"
  BY <1>5
<1>10. (Does(s, "judge") /\ with.step = "resolve") => shell[s].got \in {1, 2} \ expired
  BY DEF Does
<1>11. QED
  BY <1>1, <1>4, <1>5, <1>6, <1>8, <1>9, <1>10, InstallerKeeps

\* What an attempt to unlink a download leaves.
UnlinkedOrLeft(s) ==
  /\ temps' = temps \ Mine(s) \/ temps' = (temps \ Mine(s)) \union {[f EXCEPT !.by = "nobody"] : f \in Mine(s)}
  /\ \A f \in temps' \ temps : f.by = "nobody" => mishaps' > mishaps

\* A file that cannot be unlinked is left, and that is a mishap.
LEMMA UnlinksFacts == ASSUME NEW s, Unlinks(s), mishaps \in Nat PROVE mishaps' \in Nat /\ UnlinkedOrLeft(s)
<1>1. CASE temps' = temps \ Mine(s) /\ mishaps' = mishaps
  BY <1>1 DEF UnlinkedOrLeft
<1>2. CASE GivesUp(s) /\ mishaps' = mishaps + 1
  <2>1. mishaps' \in Nat /\ mishaps' > mishaps
    BY <1>2
  <2>2. QED
    BY <1>2, <2>1 DEF UnlinkedOrLeft, GivesUp
<1>3. QED
  BY <1>1, <1>2 DEF Unlinks

\* The download is compared with the digest, and logged where it fits.
LEMMA VerifyDigestStep == ASSUME InstallerKnows, NEW s \in Shell, VerifyDigest(s) PROVE InstallerKnows' /\ InstallsAreListed
<1>1. shell[s].step = "verify" /\ UNCHANGED <<editions, stock, chosen>> /\ UNCHANGED <<edition, expired, cached>>
  BY DEF VerifyDigest, Does
<1>2. shell[s] \in ShellRecords /\ WellPlaced(shell[s]) /\ OwnDownload(s) /\ InstallerTyped
  BY ShellKnows
<1>3. mishaps \in Nat /\ edition' \in 1..2 /\ expired' \subseteq 1..2 /\ cached' \in 0..2
      /\ stock' \in [Where -> [Pkg -> [Rel -> {"none", "listed", "other"}]]] /\ chosen' \in [Where -> [Pkg -> 0..2]]
  BY <1>1, <1>2 DEF InstallerTyped
<1>4. CASE ~DigestFits(s)
  <2>1. Abandons(shell[s]) \in ShellRecords /\ WellPlaced(Abandons(shell[s]))
        /\ Abandons(shell[s]).step \in {"prompt", "report", "find", "resolve"}
    BY <1>1, <1>2, AbandonsFacts
  <2>2. Shows(s, Abandons(shell[s])) /\ Unlinks(s) /\ Audited' = Audited
    BY <1>4 DEF VerifyDigest, Audited
  <2>3. StockIsLogged'
    BY <1>1, <2>2 DEF InstallerKnows, StockIsLogged
  <2>4. mishaps' \in Nat /\ UnlinkedOrLeft(s)
    BY <1>3, <2>2, UnlinksFacts
  <2>5. QED
    BY <1>1, <1>3, <2>1, <2>2, <2>3, <2>4, DropKeeps DEF Does, UnlinkedOrLeft
<1>5. CASE DigestFits(s)
  <2>1. /\ Shows(s, [shell[s] EXCEPT !.step = "install"]) /\ temps' = temps /\ mishaps' \in Nat
        /\ Audited' = Audited \union {<<shell[s].name, shell[s].goal>>}
    <3>1. PICK lost \in {0, 1} : AuditLog(shell[s].name, shell[s].goal, lost) /\ mishaps' = mishaps + lost
      BY <1>5 DEF VerifyDigest
    <3>2. Audited' = Audited \union {<<shell[s].name, shell[s].goal>>}
      BY <3>1 DEF AuditLog, Audited
    <3>3. mishaps' \in Nat
      BY <1>3, <3>1
    <3>4. QED
      BY <1>5, <3>2, <3>3 DEF VerifyDigest
  <2>2. PICK with : with = [shell[s] EXCEPT !.step = "install"]
    OBVIOUS
  <2>3. "install" \in ShellSteps /\ GoalIsListed(shell[s])
    BY <1>1, <1>2 DEF ShellSteps, WellPlaced
  <2>4. with \in ShellRecords /\ WellPlaced(with) /\ with.step = "install" /\ with.got = shell[s].got /\ with.name = shell[s].name
        /\ with.goal = shell[s].goal
    BY <1>1, <1>2, <2>2, <2>3, OnlyStep
  <2>5. shell'[s] = with /\ Shows(s, with)
    BY <1>2, <2>1, <2>2 DEF Shows, InstallerTyped
  <2>6. \A f \in temps : f.by = s => f.bytes = "listed" \/ editions[shell[s].got][shell[s].name][shell[s].goal] = "loose"
    <3>1. PICK own \in temps : own.by = s /\ own.bytes = BytesOf(s)
      BY <1>1, <1>2, BytesAreMine
    <3>2. \A f \in temps : f.by = s => f = own
      BY <1>2, <3>1 DEF OwnDownload
    <3>3. QED
      BY <1>5, <3>1, <3>2 DEF DigestFits
  <2>7. OwnDownload(s)'
    BY <1>1, <1>2, <2>1, <2>4, <2>5, <2>6 DEF OwnDownload
  <2>8. StockIsLogged' /\ Audited \subseteq Audited'
    BY <1>1, <2>1 DEF InstallerKnows, StockIsLogged
  <2>9. temps' \ temps = {} /\ temps \ temps' = {} /\ temps' \subseteq [by : Shell \union {"nobody"}, bytes : {"listed", "other"}]
    BY <1>2, <2>1 DEF InstallerTyped
  <2>10. (\A f \in temps' \ temps : f.by \in {s, "nobody"}) /\ (\A f \in temps \ temps' : f.by = s)
    BY <2>9
  <2>11. editions' = editions /\ stock' = stock /\ mishaps' \in Nat
    BY <1>1, <2>1
  <2>12. QED
    BY <1>3, <2>4, <2>5, <2>7, <2>8, <2>9, <2>10, <2>11, InstallerKeeps
<1>6. QED
  BY <1>4, <1>5

\* What a store does when it takes a release, or has it.
LEMMA StockedFacts ==
  ASSUME InstallerKnows, NEW w \in ShellRecords, w.goal # 0, NEW bytes \in {"listed", "other"}, Stocked(w, bytes),
         Audited' = Audited \/ Audited' = Audited \union {<<w.name, w.goal>>}, <<w.name, w.goal>> \in Audited'
  PROVE  /\ stock' \in [Where -> [Pkg -> [Rel -> {"none", "listed", "other"}]]] /\ chosen' \in [Where -> [Pkg -> 0..2]]
         /\ StockIsLogged' /\ Audited \subseteq Audited' /\ stock'[w.place][w.name][w.goal] = bytes
<1>1. PICK l, n, r : l = w.place /\ n = w.name /\ r = w.goal
  OBVIOUS
<1>2. l \in Where /\ n \in Pkg /\ r \in Rel /\ r \in 0..2
  BY <1>1 DEF ShellRecords, Rel
<1>3. stock \in [Where -> [Pkg -> [Rel -> {"none", "listed", "other"}]]] /\ chosen \in [Where -> [Pkg -> 0..2]]
  BY DEF InstallerKnows, InstallerTyped
<1>4. stock' = [stock EXCEPT ![l] = [stock[l] EXCEPT ![n] = [stock[l][n] EXCEPT ![r] = bytes]]]
  BY <1>1, <1>2, <1>3 DEF Stocked
<1>5. chosen' = IF chosen[l][n] = 0 THEN [chosen EXCEPT ![l] = [chosen[l] EXCEPT ![n] = r]] ELSE chosen
  BY <1>1, <1>2, <1>3 DEF Stocked
<1>6. stock'[l][n][r] = bytes /\ stock' \in [Where -> [Pkg -> [Rel -> {"none", "listed", "other"}]]]
  BY <1>2, <1>3, <1>4
<1>7. chosen' \in [Where -> [Pkg -> 0..2]]
  BY <1>2, <1>3, <1>5
<1>8. \A k \in Where, m \in Pkg, q \in Rel : stock'[k][m][q] = stock[k][m][q] \/ (m = n /\ q = r)
  BY <1>2, <1>3, <1>4
<1>9. StockIsLogged'
  BY <1>1, <1>8 DEF InstallerKnows, StockIsLogged
<1>10. QED
  BY <1>1, <1>6, <1>7, <1>9

\* What a store does when it refuses a release, or fails.
LEMMA NotStockedFacts ==
  ASSUME InstallerKnows, NEW w, NEW bytes, NEW lost \in {0, 1}, NotStocked(w, bytes, lost), Audited \subseteq Audited'
  PROVE  /\ stock' \in [Where -> [Pkg -> [Rel -> {"none", "listed", "other"}]]] /\ chosen' \in [Where -> [Pkg -> 0..2]]
         /\ StockIsLogged' /\ mishaps' \in Nat /\ stock' = stock
         /\ mishaps' > mishaps \/ stock[w.place][w.name][w.goal] \notin {"none", bytes}
<1>1. mishaps \in Nat
  BY DEF InstallerKnows, InstallerTyped
<1>2. mishaps' \in Nat /\ (mishaps' > mishaps \/ stock[w.place][w.name][w.goal] \notin {"none", bytes})
  BY <1>1 DEF NotStocked
<1>3. QED
  BY <1>2 DEF NotStocked, InstallerKnows, InstallerTyped, StockIsLogged

\* The verified download goes to the store.
LEMMA InstallDownloadStep == ASSUME InstallerKnows, NEW s \in Shell, InstallDownload(s) PROVE InstallerKnows' /\ InstallsAreListed
<1>1. shell[s].step = "install" /\ UNCHANGED <<editions, edition, expired, cached>> /\ Audited' = Audited
  BY DEF InstallDownload, Does, Audited
<1>2. shell[s] \in ShellRecords /\ WellPlaced(shell[s]) /\ OwnDownload(s) /\ InstallerTyped /\ mishaps \in Nat
  BY ShellKnows DEF InstallerTyped
<1>3. GoalIsListed(shell[s])
  BY <1>1, <1>2 DEF WellPlaced
<1>4. PICK w : w = shell[s]
  OBVIOUS
<1>5. PICK bytes : bytes = BytesOf(s)
  OBVIOUS
<1>6. PICK own \in temps : own.by = s /\ own.bytes = bytes
  BY <1>1, <1>2, <1>5, BytesAreMine
<1>7. bytes \in {"listed", "other"} /\ (bytes = "listed" \/ editions[w.got][w.name][w.goal] = "loose") /\ <<w.name, w.goal>> \in Audited
  BY <1>1, <1>2, <1>4, <1>6 DEF OwnDownload, InstallerTyped
<1>8. w \in ShellRecords /\ w.got # 0 /\ w.goal # 0
  BY <1>2, <1>3, <1>4 DEF GoalIsListed
<1>9. CASE Stocked(w, bytes) /\ Unlinks(s) /\ Shows(s, NextOf(w, 0))
  <2>1. NextOf(w, 0) \in ShellRecords /\ WellPlaced(NextOf(w, 0)) /\ NextOf(w, 0).step \in {"report", "find", "resolve"}
    BY <1>1, <1>2, <1>4, <1>8, NextOfFacts
  <2>2. /\ stock' \in [Where -> [Pkg -> [Rel -> {"none", "listed", "other"}]]] /\ chosen' \in [Where -> [Pkg -> 0..2]]
        /\ StockIsLogged' /\ stock'[w.place][w.name][w.goal] = bytes
    BY <1>1, <1>7, <1>8, <1>9, StockedFacts
  <2>3. mishaps' \in Nat /\ UnlinkedOrLeft(s)
    BY <1>2, <1>9, UnlinksFacts
  <2>4. (Does(s, "install") /\ stock' # stock) =>
           stock'[shell[s].place][shell[s].name][shell[s].goal] = "listed" \/ editions[shell[s].got][shell[s].name][shell[s].goal] = "loose"
    BY <1>4, <1>7, <2>2
  <2>5. QED
    BY <1>1, <1>2, <1>9, <2>1, <2>2, <2>3, <2>4, DropKeeps DEF UnlinkedOrLeft
<1>10. CASE NotStocked(w, bytes, 0) /\ GivesUp(s) /\ Shows(s, Throws(w))
  <2>1. Throws(w) \in ShellRecords /\ WellPlaced(Throws(w)) /\ Throws(w).step \in {"prompt", "report", "find", "resolve"}
    BY <1>1, <1>2, <1>4, <1>8, ThrowsFacts
  <2>2. /\ stock' \in [Where -> [Pkg -> [Rel -> {"none", "listed", "other"}]]] /\ chosen' \in [Where -> [Pkg -> 0..2]]
        /\ StockIsLogged' /\ mishaps' \in Nat /\ stock' = stock
        /\ mishaps' > mishaps \/ stock[w.place][w.name][w.goal] \notin {"none", bytes}
    BY <1>1, <1>10, NotStockedFacts
  <2>3. \A f \in temps' \ temps : f.bytes = bytes
    <3>1. \A f \in Mine(s) : f = own
      BY <1>2, <1>6 DEF Mine, OwnDownload
    <3>2. [own EXCEPT !.by = "nobody"].bytes = bytes
      BY <1>2, <1>6 DEF InstallerTyped
    <3>3. QED
      BY <1>10, <3>1, <3>2 DEF GivesUp
  <2>4. \A f \in temps' \ temps : f.by = "nobody" =>
           mishaps' > mishaps \/ (Does(s, "install") /\ stock[shell[s].place][shell[s].name][shell[s].goal] \notin {"none", f.bytes})
    BY <1>1, <1>4, <2>2, <2>3 DEF Does
  <2>5. Audited \subseteq Audited' /\ ((Does(s, "install") /\ stock' # stock) =>
           stock'[shell[s].place][shell[s].name][shell[s].goal] = "listed" \/ editions[shell[s].got][shell[s].name][shell[s].goal] = "loose")
    BY <1>1, <2>2
  <2>6. QED
    BY <1>1, <1>2, <1>10, <2>1, <2>2, <2>4, <2>5, DropKeeps DEF GivesUp
<1>11. QED
  BY <1>4, <1>5, <1>9, <1>10 DEF InstallDownload

\* A local file is installed, or refused.
LEMMA InstallFileStep == ASSUME InstallerKnows, NEW s \in Shell, InstallFile(s) PROVE InstallerKnows' /\ InstallsAreListed
<1>1. shell[s].step = "assess" /\ UNCHANGED <<editions, edition, expired, cached>> /\ temps' = temps /\ Shows(s, AtPrompt)
  BY DEF InstallFile, Does
<1>2. shell[s] \in ShellRecords /\ WellPlaced(shell[s]) /\ OwnDownload(s) /\ InstallerTyped /\ mishaps \in Nat
  BY ShellKnows DEF InstallerTyped
<1>3. shell[s].goal # 0
  BY <1>1, <1>2 DEF WellPlaced
<1>4. /\ mishaps' \in Nat /\ stock' \in [Where -> [Pkg -> [Rel -> {"none", "listed", "other"}]]] /\ chosen' \in [Where -> [Pkg -> 0..2]]
      /\ StockIsLogged' /\ Audited \subseteq Audited'
  <2>1. CASE UNCHANGED <<stock, chosen, logged, unlogged, mishaps>>
    BY <1>2, <2>1 DEF InstallerKnows, InstallerTyped, StockIsLogged, Audited
  <2>2. ASSUME NEW bytes \in {"listed", "other"}, NEW lost \in {0, 1}, AuditLog(shell[s].name, shell[s].goal, lost),
               (Stocked(shell[s], bytes) /\ mishaps' = mishaps + lost) \/ NotStocked(shell[s], bytes, lost)
        PROVE  /\ mishaps' \in Nat /\ stock' \in [Where -> [Pkg -> [Rel -> {"none", "listed", "other"}]]]
               /\ chosen' \in [Where -> [Pkg -> 0..2]] /\ StockIsLogged' /\ Audited \subseteq Audited'
    <3>1. Audited' = Audited \union {<<shell[s].name, shell[s].goal>>}
      BY <2>2 DEF AuditLog, Audited
    <3>2. CASE Stocked(shell[s], bytes) /\ mishaps' = mishaps + lost
      <4>1. mishaps' \in Nat
        BY <1>2, <3>2
      <4>2. QED
        BY <1>2, <1>3, <3>1, <3>2, <4>1, StockedFacts
    <3>3. CASE NotStocked(shell[s], bytes, lost)
      BY <3>1, <3>3, NotStockedFacts
    <3>4. QED
      BY <2>2, <3>2, <3>3
  <2>3. QED
    BY <2>1, <2>2 DEF InstallFile
<1>5. temps' = temps \ Mine(s) /\ temps' \ temps = {}
  BY <1>1, <1>2 DEF OwnDownload, Mine
<1>6. AtPrompt \in ShellRecords /\ WellPlaced(AtPrompt) /\ AtPrompt.step = "prompt"
  BY PromptFacts
<1>7. QED
  BY <1>1, <1>4, <1>5, <1>6, DropKeeps DEF Does

\* An update finds the package where it is.
LEMMA FindInstalledStep == ASSUME InstallerKnows, NEW s \in Shell, FindInstalled(s) PROVE InstallerKnows' /\ InstallsAreListed
<1>1. shell[s].step = "find" /\ UNCHANGED <<editions, stock, chosen, temps, Audited, mishaps>> /\ UNCHANGED <<edition, expired, cached>>
  BY DEF FindInstalled, Does, Audited
<1>2. PICK w : w = shell[s]
  OBVIOUS
<1>3. w \in ShellRecords /\ WellPlaced(w) /\ w.step = "find" /\ w.name \in Pkg /\ w.group \in {"none", "cluster", "all"}
  BY <1>1, <1>2, ShellKnows, ShellFacts
<1>4. PICK l, r : l = FoundIn(w.name) /\ r = chosen[FoundIn(w.name)][w.name]
  OBVIOUS
<1>5. l \in Where /\ r \in 0..2
  <2>1. l \in Where
    BY <1>4 DEF FoundIn, Where
  <2>2. QED
    BY <1>3, <1>4, <2>1, ShellKnows DEF InstallerTyped
<1>6. CASE Shows(s, NextOf(w, 0))
  <2>1. w.got # 0 \/ w.group = "all" \/ w.rest = <<>>
    BY <1>3 DEF WellPlaced
  <2>2. NextOf(w, 0) \in ShellRecords /\ WellPlaced(NextOf(w, 0)) /\ NextOf(w, 0).step \in {"report", "find", "resolve"}
    BY <1>3, <2>1, NextOfFacts
  <2>3. QED
    BY <1>1, <1>6, <2>2, QuietKeeps, ShellKnows DEF Does
<1>7. CASE Shows(s, [w EXCEPT !.verb = "update", !.place = l, !.base = r, !.refresh = TRUE, !.step = "load"])
  <2>1. PICK with : with = [w EXCEPT !.verb = "update", !.place = l, !.base = r, !.refresh = TRUE, !.step = "load"]
    OBVIOUS
  <2>2. with \in ShellRecords
    <3>1. PICK mid : mid = [w EXCEPT !.verb = "update", !.place = l]
      OBVIOUS
    <3>2. mid \in ShellRecords
      BY <1>3, <1>5, <3>1 DEF ShellRecords
    <3>3. PICK again : again = [mid EXCEPT !.base = r]
      OBVIOUS
    <3>4. again \in ShellRecords
      BY <1>5, <3>2, <3>3 DEF ShellRecords
    <3>5. with = [again EXCEPT !.refresh = TRUE, !.step = "load"]
      BY <2>1, <3>1, <3>3
    <3>6. "load" \in ShellSteps
      BY DEF ShellSteps
    <3>7. QED
      BY <3>4, <3>5, <3>6 DEF ShellRecords
  <2>3. with.step = "load" /\ with.verb = "update" /\ with.group = w.group /\ with.rest = w.rest /\ with.failed = w.failed
        /\ with.done = w.done /\ with.total = w.total
    BY <1>3, <2>1 DEF ShellRecords
  <2>4. WellPlaced(with)
    BY <1>3, <2>3 DEF WellPlaced, Counted
  <2>5. QED
    BY <1>1, <1>7, <2>1, <2>2, <2>3, <2>4, QuietKeeps, ShellKnows DEF Does
<1>8. CASE Shows(s, Abandons(w))
  <2>1. Abandons(w) \in ShellRecords /\ WellPlaced(Abandons(w)) /\ Abandons(w).step \in {"prompt", "report", "find", "resolve"}
    BY <1>3, AbandonsFacts
  <2>2. QED
    BY <1>1, <1>8, <2>1, QuietKeeps, ShellKnows DEF Does
<1>9. QED
  BY <1>2, <1>4, <1>6, <1>7, <1>8 DEF FindInstalled

\* The newest of what remains.
LEMMA NewestOf == ASSUME NEW remain \in SUBSET Rel PROVE Max({0} \union remain) \in 0..2
<1>1. PICK T : T = {0} \union remain
  OBVIOUS
<1>2. T \subseteq {0, 1, 2} /\ 0 \in T
  BY <1>1 DEF Rel
<1>3. \E x \in T : \A y \in T : x >= y
  <2>1. CASE 2 \in T
    BY <1>2, <2>1
  <2>2. CASE 2 \notin T /\ 1 \in T
    BY <1>2, <2>2
  <2>3. CASE 2 \notin T /\ 1 \notin T
    BY <1>2, <2>3
  <2>4. QED
    BY <2>1, <2>2, <2>3
<1>4. Max(T) \in T
  BY <1>3 DEF Max
<1>5. QED
  BY <1>1, <1>2, <1>4

\* A release is removed, or there is none.
LEMMA RemoveReleaseStep == ASSUME InstallerKnows, NEW s \in Shell, RemoveRelease(s) PROVE InstallerKnows' /\ InstallsAreListed
<1>1. shell[s].step = "remove" /\ UNCHANGED <<editions, edition, expired, cached>> /\ temps' = temps /\ Audited' = Audited
      /\ mishaps' = mishaps /\ Shows(s, AtPrompt)
  BY DEF RemoveRelease, Does, Audited
<1>2. shell[s] \in ShellRecords /\ OwnDownload(s) /\ InstallerTyped /\ mishaps \in Nat
  BY ShellKnows DEF InstallerTyped
<1>3. PICK w : w = shell[s]
  OBVIOUS
<1>4. w.name \in Pkg /\ w.pin \in 0..2
  BY <1>2, <1>3 DEF ShellRecords
<1>5. PICK n : n = w.name
  OBVIOUS
<1>6. stock \in [Where -> [Pkg -> [Rel -> {"none", "listed", "other"}]]] /\ chosen \in [Where -> [Pkg -> 0..2]]
  BY <1>2 DEF InstallerTyped
<1>7. \/ UNCHANGED <<stock, chosen>>
      \/ \E l \in Where, r \in 0..2, remain \in SUBSET Rel : r # 0
           /\ stock' = [stock EXCEPT ![l] = [stock[l] EXCEPT ![n] = [stock[l][n] EXCEPT ![r] = "none"]]]
           /\ chosen' = IF chosen[l][n] = r THEN [chosen EXCEPT ![l] = [chosen[l] EXCEPT ![n] = Max({0} \union remain)]] ELSE chosen
  <2>1. PICK l : l = IF Removes(w, "project") # 0 THEN "project" ELSE "global"
    OBVIOUS
  <2>2. l \in Where
    BY <2>1 DEF Where
  <2>3. PICK r : r = Removes(w, l)
    OBVIOUS
  <2>4. r \in 0..2
    <3>1. chosen[l][n] \in 0..2
      BY <1>4, <1>5, <1>6, <2>2
    <3>2. QED
      BY <1>4, <1>5, <2>3, <3>1 DEF Removes
  <2>5. PICK remain : remain = {q \in Rel : stock[l][n][q] # "none"} \ {r}
    OBVIOUS
  <2>6. IF r = 0 THEN UNCHANGED <<stock, chosen>>
        ELSE /\ stock' = [stock EXCEPT ![l][n][r] = "none"]
             /\ chosen' = IF chosen[l][n] = r THEN [chosen EXCEPT ![l][n] = Max({0} \union remain)] ELSE chosen
    <3>1. PICK v : v = shell[s] /\ v = w
      BY <1>3
    <3>2. PICK at : at = (IF Removes(v, "project") # 0 THEN "project" ELSE "global") /\ at = l
      BY <2>1, <3>1, Zenon
    <3>3. IF Removes(v, at) = 0 THEN UNCHANGED <<stock, chosen>>
          ELSE /\ stock' = [stock EXCEPT ![at][v.name][Removes(v, at)] = "none"]
               /\ chosen' = IF chosen[at][v.name] = Removes(v, at)
                            THEN [chosen EXCEPT ![at][v.name] =
                                    Max({0} \union ({q \in Rel : stock[at][v.name][q] # "none"} \ {Removes(v, at)}))]
                            ELSE chosen
      BY <3>1, <3>2 DEF RemoveRelease
    <3>4. Removes(v, at) = r /\ v.name = n /\ at = l
      BY <1>5, <2>3, <3>1, <3>2, Zenon
    <3>5. remain = {q \in Rel : stock[at][v.name][q] # "none"} \ {Removes(v, at)}
      BY <2>5, <3>4, Zenon
    <3>6. IF r = 0 THEN UNCHANGED <<stock, chosen>>
          ELSE /\ stock' = [stock EXCEPT ![at][v.name][r] = "none"]
               /\ chosen' = IF chosen[at][v.name] = r THEN [chosen EXCEPT ![at][v.name] = Max({0} \union remain)] ELSE chosen
      BY <3>3, <3>4, <3>5, Zenon
    <3>7. QED
      BY <3>4, <3>6, Zenon
  <2>7. remain \in SUBSET Rel
    BY <2>5
  <2>8. CASE r # 0
    <3>1. PICK newest : newest = Max({0} \union remain)
      OBVIOUS
    <3>2. stock' = [stock EXCEPT ![l] = [stock[l] EXCEPT ![n] = [stock[l][n] EXCEPT ![r] = "none"]]]
      BY <1>4, <1>5, <1>6, <2>2, <2>6, <2>8
    <3>3. chosen' = IF chosen[l][n] = r THEN [chosen EXCEPT ![l] = [chosen[l] EXCEPT ![n] = newest]] ELSE chosen
      BY <1>4, <1>5, <1>6, <2>2, <2>6, <2>8, <3>1
    <3>4. QED
      BY <2>2, <2>4, <2>7, <2>8, <3>1, <3>2, <3>3
  <2>9. QED
    BY <2>6, <2>8
<1>8. stock' \in [Where -> [Pkg -> [Rel -> {"none", "listed", "other"}]]] /\ chosen' \in [Where -> [Pkg -> 0..2]] /\ StockIsLogged'
  <2>1. CASE UNCHANGED <<stock, chosen>>
    BY <1>1, <1>6, <2>1 DEF InstallerKnows, StockIsLogged
  <2>2. ASSUME NEW l \in Where, NEW r \in 0..2, NEW remain \in SUBSET Rel, r # 0,
           stock' = [stock EXCEPT ![l] = [stock[l] EXCEPT ![n] = [stock[l][n] EXCEPT ![r] = "none"]]],
           chosen' = IF chosen[l][n] = r THEN [chosen EXCEPT ![l] = [chosen[l] EXCEPT ![n] = Max({0} \union remain)]] ELSE chosen
        PROVE stock' \in [Where -> [Pkg -> [Rel -> {"none", "listed", "other"}]]] /\ chosen' \in [Where -> [Pkg -> 0..2]] /\ StockIsLogged'
    <3>1. PICK newest : newest = Max({0} \union remain)
      OBVIOUS
    <3>2. newest \in 0..2 /\ n \in Pkg
      BY <1>4, <1>5, <3>1, NewestOf
    <3>3. stock' \in [Where -> [Pkg -> [Rel -> {"none", "listed", "other"}]]]
      BY <1>6, <2>2, <3>2
    <3>4. chosen' \in [Where -> [Pkg -> 0..2]]
      BY <1>6, <2>2, <3>1, <3>2
    <3>5. \A k \in Where, m \in Pkg, q \in Rel : stock'[k][m][q] \in {stock[k][m][q], "none"}
      BY <1>6, <2>2, <3>2
    <3>6. StockIsLogged'
      BY <1>1, <3>5 DEF InstallerKnows, StockIsLogged
    <3>7. QED
      BY <3>3, <3>4, <3>6
  <2>3. QED
    BY <1>7, <2>1, <2>2
<1>9. temps' = temps \ Mine(s) /\ temps' \ temps = {}
  BY <1>1, <1>2 DEF OwnDownload, Mine
<1>10. AtPrompt \in ShellRecords /\ WellPlaced(AtPrompt) /\ AtPrompt.step = "prompt"
  BY PromptFacts
<1>11. QED
  BY <1>1, <1>2, <1>8, <1>9, <1>10, DropKeeps DEF Does

\* A summary is given; or a command is killed.
LEMMA StopStep == ASSUME InstallerKnows, NEW s \in Shell, ReportEnd(s) \/ KillShell(s) PROVE InstallerKnows' /\ InstallsAreListed
<1>1. AtPrompt \in ShellRecords /\ WellPlaced(AtPrompt) /\ AtPrompt.step = "prompt"
  BY PromptFacts
<1>2. CASE ReportEnd(s)
  <2>1. shell[s].step = "report" /\ UNCHANGED <<editions, stock, chosen, temps, Audited, mishaps>> /\ UNCHANGED <<edition, expired, cached>>
        /\ Shows(s, AtPrompt)
    BY <1>2 DEF ReportEnd, Does, Audited
  <2>2. QED
    BY <1>1, <2>1, QuietKeeps, ShellKnows DEF Does
<1>3. CASE KillShell(s)
  <2>1. UNCHANGED <<editions, edition, expired, cached>> /\ Shows(s, AtPrompt) /\ mishaps' = mishaps + 1 /\ Audited' = Audited
        /\ stock' = stock /\ chosen' = chosen /\ temps' = (temps \ Mine(s)) \union {[f EXCEPT !.by = "nobody"] : f \in Mine(s)}
    BY <1>3 DEF KillShell, GivesUp, Audited
  <2>2. mishaps' \in Nat /\ mishaps' > mishaps /\ StockIsLogged'
        /\ stock' \in [Where -> [Pkg -> [Rel -> {"none", "listed", "other"}]]] /\ chosen' \in [Where -> [Pkg -> 0..2]]
    BY <2>1 DEF InstallerKnows, InstallerTyped, StockIsLogged
  <2>3. QED
    BY <1>1, <2>1, <2>2, DropKeeps DEF Does
<1>4. QED
  BY <1>2, <1>3

\* A step of no command: the registry moves, time passes.
LEMMA RegistryStep ==
  ASSUME InstallerKnows, RegistryMoves \/ UNCHANGED installerVars PROVE InstallerKnows' /\ InstallsAreListed
<1>1. UNCHANGED <<shell, editions, stock, chosen, temps, Audited, mishaps>> /\ cached' = cached
  BY DEF RegistryMoves, installerVars, Audited
<1>2. edition \in 1..2 /\ expired \subseteq 1..2
  BY DEF InstallerKnows, InstallerTyped
<1>3. edition' \in 1..2 /\ expired' \subseteq 1..2
  <2>1. \A e \in 1..2 : 1..e \subseteq 1..2
    OBVIOUS
  <2>2. CASE RegistryMoves
    <3>1. edition' \in {2, edition}
      BY <2>2 DEF RegistryMoves
    <3>2. expired' = expired \/ \E e \in 1..2 : expired' = 1..e
      BY <2>2 DEF RegistryMoves
    <3>3. expired' \subseteq 1..2
      BY <1>2, <2>1, <3>2
    <3>4. QED
      BY <1>2, <3>1, <3>3
  <2>3. CASE UNCHANGED installerVars
    BY <1>2, <2>3 DEF installerVars
  <2>4. QED
    BY <2>2, <2>3
<1>4. InstallerTyped' /\ StockIsLogged'
  BY <1>1, <1>3 DEF InstallerKnows, InstallerTyped, StockIsLogged
<1>5. \A s \in Shell : OwnDownload(s)'
  BY <1>1 DEF InstallerKnows, OwnDownload
<1>6. \A s \in Shell : WellPlaced(shell[s])'
  BY <1>1 DEF InstallerKnows, WellPlaced, Counted, GoalIsListed
<1>7. InstallerKnows'
  BY <1>4, <1>5, <1>6 DEF InstallerKnows
<1>8. ASSUME NEW s \in Shell PROVE shell[s].step = "download" => GoalIsListed(shell[s])
  BY DEF InstallerKnows, WellPlaced
<1>9. InstallsAreListed
  BY <1>1, <1>8 DEF InstallsAreListed, Does, GoalIsListed
<1>10. QED
  BY <1>7, <1>9

\* Every step of the installer keeps what is known, and moves by right.
LEMMA InstallerStep1 ==
  ASSUME InstallerKnows, InstallerNext \/ UNCHANGED installerVars PROVE InstallerKnows' /\ InstallsAreListed
<1>1. ASSUME NEW s \in Shell, InstallerStep(s) PROVE InstallerKnows' /\ InstallsAreListed
  BY <1>1, CallStep, LoadRegistryStep, SaveRegistryStep, JudgeRegistryStep, ResolveEntryStep, DownloadStep, VerifyDigestStep,
     InstallDownloadStep, InstallFileStep, FindInstalledStep, RemoveReleaseStep, StopStep DEF InstallerStep
<1>2. QED
  BY <1>1, RegistryStep DEF InstallerNext

\* What is known holds at the start.
LEMMA InstallerStart == InstallerInit => InstallerKnows
<1>1. SUFFICES ASSUME InstallerInit PROVE InstallerKnows
  OBVIOUS
<1>2. shell = [s \in Shell |-> AtPrompt] /\ edition = 1 /\ expired = {} /\ temps = {} /\ Audited = {} /\ mishaps = 0 /\ cached \in {0, 1}
  BY <1>1 DEF InstallerInit, Audited
<1>3. shell \in [Shell -> ShellRecords] /\ \A s \in Shell : shell[s] = AtPrompt /\ WellPlaced(shell[s]) /\ shell[s].step = "prompt"
  BY <1>2, PromptFacts
<1>4. editions \in [1..2 -> [Pkg -> [Rel -> Marks]]]
  <2>1. \A x, y \in Marks : <<x, y>> \in [Rel -> Marks]
    BY DEF Rel
  <2>2. ASSUME NEW first \in [Rel -> Marks], NEW second \in Marks PROVE Edition(first, second) \in [Pkg -> [Rel -> Marks]]
    BY DEF Edition, Marks
  <2>3. PICK says : /\ says \in {<<"open", "loose">>, <<"yanked", "barred">>, <<"revoked", "bare">>}
                    /\ editions = <<Edition(<<"open", "absent">>, says[2]), Edition(<<"open", says[1]>>, "open")>>
    BY <1>1 DEF InstallerInit
  <2>4. says[1] \in Marks /\ says[2] \in Marks /\ "open" \in Marks /\ "absent" \in Marks
    BY <2>3 DEF Marks
  <2>5. PICK one, two : one = Edition(<<"open", "absent">>, says[2]) /\ two = Edition(<<"open", says[1]>>, "open")
    OBVIOUS
  <2>6. one \in [Pkg -> [Rel -> Marks]] /\ two \in [Pkg -> [Rel -> Marks]]
    <3>1. <<"open", "absent">> \in [Rel -> Marks] /\ <<"open", says[1]>> \in [Rel -> Marks]
      BY <2>1, <2>4
    <3>2. QED
      BY <2>2, <2>4, <2>5, <3>1
  <2>7. editions = <<one, two>>
    BY <2>3, <2>5
  <2>8. QED
    BY <2>6, <2>7
<1>5. /\ stock \in [Where -> [Pkg -> [Rel -> {"none", "listed", "other"}]]] /\ chosen \in [Where -> [Pkg -> 0..2]]
      /\ \A l \in Where, n \in Pkg, r \in Rel : stock[l][n][r] # "none" => n = "first" /\ r = 1
  <2>1. PICK has \in {"none", "listed"} :
       /\ stock = [l \in Where |-> [n \in Pkg |-> IF l = "project" /\ n = "first" THEN [r \in Rel |-> IF r = 1 THEN has ELSE "none"] ELSE NoBytes]]
       /\ chosen = [l \in Where |-> [n \in Pkg |-> IF l = "project" /\ n = "first" /\ has # "none" THEN 1 ELSE 0]]
    BY <1>1 DEF InstallerInit
  <2>2. PICK some : some = [r \in Rel |-> IF r = 1 THEN has ELSE "none"]
    OBVIOUS
  <2>3. some \in [Rel -> {"none", "listed", "other"}] /\ NoBytes \in [Rel -> {"none", "listed", "other"}]
        /\ \A r \in Rel : (some[r] # "none" => r = 1) /\ NoBytes[r] = "none"
    BY <2>2 DEF NoBytes
  <2>4. stock = [l \in Where |-> [n \in Pkg |-> IF l = "project" /\ n = "first" THEN some ELSE NoBytes]]
    BY <2>1, <2>2
  <2>5. stock \in [Where -> [Pkg -> [Rel -> {"none", "listed", "other"}]]]
    BY <2>3, <2>4
  <2>6. chosen \in [Where -> [Pkg -> 0..2]]
    BY <2>1
  <2>7. QED
    BY <2>3, <2>4, <2>5, <2>6
<1>6. InstallerTyped
  BY <1>2, <1>3, <1>4, <1>5 DEF InstallerTyped
<1>7. StockIsLogged
  BY <1>5 DEF StockIsLogged
<1>8. \A s \in Shell : OwnDownload(s)
  BY <1>2, <1>3 DEF OwnDownload
<1>9. QED
  BY <1>3, <1>6, <1>7, <1>8 DEF InstallerKnows

\* What is known is what the invariant says.
LEMMA InstallerTells == InstallerKnows => InstallerInv
<1>1. SUFFICES ASSUME InstallerKnows PROVE InstallerInv
  OBVIOUS
<1>2. \A f \in temps : f.by \in Shell => shell[f.by].step \in {"verify", "install"}
  BY <1>1 DEF InstallerKnows, OwnDownload
<1>3. ASSUME NEW s \in Shell, Does(s, "report"), shell[s].group # "none"
      PROVE  shell[s].done = shell[s].total /\ shell[s].failed <= shell[s].total
  BY <1>1, <1>3, ShellFacts DEF InstallerKnows, WellPlaced, Counted, Does
<1>4. QED
  BY <1>1, <1>2, <1>3 DEF InstallerInv, InstallerKnows, StockIsLogged, Audited

--------------------------------------------------------------------------------
(* HostConsent: one consent file and the commands that replace or remove it. *)

ConsentDocs == [by : Nat, on : Nat]

\* The steps of a command that writes.
ConsentSteps == {"draft", "ask", "temporary", "look", "aside", "place", "sync", "drop", "back", "read"}

\* Those after the user allowed the draft, and those at which an old consent may have been moved.
AfterAllowed == {"temporary", "look", "aside", "place", "sync", "drop", "back", "read"}
MayHaveMoved == {"place", "sync", "drop", "back", "read"}

\* What a command has in memory.
AskerRecords ==
  [verb : {"none", "approve", "revoke", "status"}, step : ConsentSteps \union {"none", "exists", "unlink", "show"},
   draft : ConsentDocs, was : ConsentDocs]

\* Types.
ConsentTyped ==
  /\ asker \in [Asker -> AskerRecords] /\ asks \in Nat /\ slips \in Nat
  /\ consent \in ConsentDocs /\ reported \in ConsentDocs /\ unsaid \in ConsentDocs
  /\ wounds \subseteq {"overlap", "killed", "failed"} /\ (wounds \intersect {"killed", "failed"} # {} => slips >= 1)

\* The steps of a command, and the drafts a user has allowed.
AskerIsSane(a) ==
  /\ asker[a].verb = "approve" <=> asker[a].step \in ConsentSteps
  /\ asker[a].verb = "revoke" <=> asker[a].step \in {"exists", "unlink"}
  /\ asker[a].verb # "none" => asker[a].draft # Unset
  /\ asker[a].step \in AfterAllowed => asker[a].draft \in allowed
  /\ asker[a].was \in allowed \union {Unset}
  /\ asker[a].step \notin MayHaveMoved => asker[a].was = Unset

\* That of every command.
AskersAreSane == \A a \in Asker : AskerIsSane(a)

\* Without a consent in force, the last one is aside.
ConsentIsKept ==
  consent = Unset /\ reported # Unset => aside # {} /\ (slips <= 1 => reported \in aside)

\* The consent in force when no command changes it.
InForce == IF unsaid = Unset THEN reported ELSE unsaid

\* What a failed command has left in force took a failure.
UnsaidIsASlip == unsaid # Unset => slips >= 1

\* Between commands.
NobodyAsks == ConsentIsKept /\ UnsaidIsASlip /\ (wounds = {} => consent = InForce /\ aside = {} /\ drafts = {})

\* Where the files stand while only command a changes them.
AloneAt(a) ==
  LET m == asker[a] IN
  /\ UnsaidIsASlip
  /\ m.step \in {"draft", "ask", "temporary", "exists", "unlink"} => NobodyAsks
  /\ m.step \in {"look", "aside"} =>
       ConsentIsKept /\ (wounds = {} => consent = InForce /\ aside = {} /\ drafts = {m.draft})
  /\ m.step \in {"unlink", "aside"} => consent # Unset
  /\ m.step = "place" =>
       /\ consent = Unset /\ (wounds = {} => drafts = {m.draft} /\ InForce = m.was)
       /\ m.was = Unset => ConsentIsKept /\ (wounds = {} => aside = {})
       /\ m.was # Unset => m.was \in aside /\ (wounds = {} => aside = {m.was})
  /\ m.step \in {"sync", "drop"} =>
       /\ consent = m.draft /\ (wounds = {} => drafts = {} /\ InForce = m.was)
       /\ m.was = Unset => m.step = "sync" /\ (wounds = {} => aside = {})
       /\ m.was # Unset => m.was \in aside /\ (wounds = {} => aside = {m.was})
  /\ m.step = "back" =>
       /\ slips >= 1 /\ (wounds = {} => drafts \subseteq {m.draft})
       /\ m.was = Unset => ConsentIsKept /\ (wounds = {} => aside = {} /\ consent \in {InForce, m.draft})
       /\ m.was # Unset => m.was \in aside /\ (wounds = {} => aside = {m.was} /\ InForce = m.was)
  /\ m.step = "read" => consent = m.draft /\ (wounds = {} => drafts = {} /\ aside = {})

\* What is known while no two commands that write have overlapped.
ConsentAlone ==
  "overlap" \notin wounds =>
    /\ \A a, b \in Busy : a = b
    /\ \A a \in Busy : AloneAt(a)
    /\ Busy = {} => NobodyAsks

\* What is known between two steps.
ConsentKnows ==
  /\ ConsentTyped /\ AskersAreSane /\ consent \in allowed \union {Unset}
  /\ ConsentAlone

\* It holds at first.
LEMMA ConsentStart == ConsentInit => ConsentKnows
<1>1. SUFFICES ASSUME ConsentInit PROVE ConsentKnows
  OBVIOUS
<1>2. consent \in ConsentDocs /\ reported \in ConsentDocs /\ unsaid \in ConsentDocs /\ Unset \in ConsentDocs
  BY <1>1, ConsentAssumption DEF ConsentInit, ConsentDocs, Unset
<1>3. Silent \in AskerRecords
  BY <1>2 DEF Silent, AskerRecords, ConsentSteps
<1>4. ConsentTyped
  BY <1>1, <1>2, <1>3 DEF ConsentInit, ConsentTyped
<1>5. AskersAreSane
  BY <1>1 DEF ConsentInit, AskersAreSane, AskerIsSane, Silent, ConsentSteps, AfterAllowed, MayHaveMoved
<1>6. Busy = {}
  BY <1>1 DEF ConsentInit, Busy, Silent
<1>7. QED
  BY <1>1, <1>4, <1>5, <1>6 DEF ConsentInit, ConsentKnows, ConsentAlone, NobodyAsks, ConsentIsKept, InForce, UnsaidIsASlip

\* A command that goes on: what holds alone of it is all there is to show.
LEMMA OneAsks ==
  ASSUME ConsentKnows, NEW a \in Busy, wounds' = wounds,
         \A b \in Asker \ {a} : asker'[b] = asker[b],
         asker'[a].verb = asker[a].verb,
         "overlap" \notin wounds /\ AloneAt(a) => AloneAt(a)'
  PROVE  ConsentAlone'
<1>1. Busy' = Busy
  BY DEF Busy
<1>2. SUFFICES ASSUME "overlap" \notin wounds PROVE ConsentAlone'
  BY DEF ConsentAlone
<1>3. Busy = {a} /\ AloneAt(a)
  BY <1>2 DEF ConsentKnows, ConsentAlone
<1>4. AloneAt(a)'
  BY <1>2, <1>3
<1>5. QED
  BY <1>1, <1>3, <1>4 DEF ConsentAlone

\* A command that ends.
LEMMA OneEnds ==
  ASSUME ConsentKnows, NEW a \in Busy, wounds \subseteq wounds',
         \A b \in Asker \ {a} : asker'[b] = asker[b],
         asker'[a] = Silent,
         "overlap" \notin wounds /\ AloneAt(a) => NobodyAsks'
  PROVE  ConsentAlone'
<1>1. SUFFICES ASSUME "overlap" \notin wounds PROVE ConsentAlone'
  BY DEF ConsentAlone
<1>2. Busy = {a} /\ AloneAt(a)
  BY <1>1 DEF ConsentKnows, ConsentAlone
<1>3. Busy' = {}
  BY <1>2 DEF Busy, Silent
<1>4. QED
  BY <1>1, <1>2, <1>3 DEF ConsentAlone

\* What a command has in memory, and what it makes of it.
LEMMA AskerFacts ==
  ASSUME ConsentKnows, NEW a \in Asker
  PROVE  /\ asker[a] \in AskerRecords
         /\ asker[a].verb \in {"none", "approve", "revoke", "status"}
         /\ asker[a].draft \in ConsentDocs /\ asker[a].was \in ConsentDocs
         /\ Unset \in ConsentDocs /\ Silent \in AskerRecords
<1>1. asker[a] \in AskerRecords
  BY DEF ConsentKnows, ConsentTyped
<1>2. Unset \in ConsentDocs
  BY DEF Unset, ConsentDocs
<1>3. Silent \in AskerRecords
  BY <1>2 DEF Silent, AskerRecords, ConsentSteps
<1>4. QED
  BY <1>1, <1>2, <1>3 DEF AskerRecords

\* A command that ends keeps every record in order.
LEMMA EndIsSane ==
  ASSUME ConsentKnows, NEW a \in Asker, Stops(a), allowed \subseteq allowed'
  PROVE  asker' \in [Asker -> AskerRecords] /\ AskersAreSane' /\ asker'[a] = Silent /\ (\A b \in Asker \ {a} : asker'[b] = asker[b])
<1>1. /\ asker' \in [Asker -> AskerRecords] /\ asker'[a] = Silent
      /\ \A b \in Asker \ {a} : asker'[b] = asker[b]
  BY AskerFacts DEF Stops, ConsentKnows, ConsentTyped
<1>2. AskersAreSane'
  BY <1>1 DEF AskersAreSane, AskerIsSane, ConsentKnows, Silent, ConsentSteps, AfterAllowed, MayHaveMoved
<1>3. QED
  BY <1>1, <1>2

\* So does one that goes on to a step of its verb.
LEMMA StepIsSane ==
  ASSUME ConsentKnows, NEW a \in Busy, NEW step, GoesTo(a, step), allowed \subseteq allowed',
         asker[a].verb = "approve" => step \in ConsentSteps,
         asker[a].verb = "revoke" => step \in {"exists", "unlink"},
         step \in AfterAllowed => asker[a].draft \in allowed',
         step \notin MayHaveMoved => asker[a].was = Unset
  PROVE  /\ asker' \in [Asker -> AskerRecords] /\ AskersAreSane'
         /\ asker'[a].step = step /\ asker'[a].verb = asker[a].verb /\ asker'[a].draft = asker[a].draft /\ asker'[a].was = asker[a].was
         /\ \A b \in Asker \ {a} : asker'[b] = asker[b]
<1>1. a \in Asker /\ asker[a].verb \in {"approve", "revoke"}
  BY DEF Busy
<1>2. asker[a] \in AskerRecords /\ asker \in [Asker -> AskerRecords]
  BY <1>1, AskerFacts DEF ConsentKnows, ConsentTyped
<1>3. step \in ConsentSteps \union {"none", "exists", "unlink", "show"}
  BY <1>1
<1>4. [asker[a] EXCEPT !.step = step] \in AskerRecords
  BY <1>2, <1>3 DEF AskerRecords
<1>5. asker' = [asker EXCEPT ![a] = [asker[a] EXCEPT !.step = step]]
  BY <1>2 DEF GoesTo
<1>6. /\ asker' \in [Asker -> AskerRecords] /\ asker'[a] = [asker[a] EXCEPT !.step = step]
      /\ \A b \in Asker \ {a} : asker'[b] = asker[b]
  BY <1>1, <1>2, <1>4, <1>5
<1>7. /\ asker'[a].step = step /\ asker'[a].verb = asker[a].verb /\ asker'[a].draft = asker[a].draft
      /\ asker'[a].was = asker[a].was
  BY <1>2, <1>6 DEF AskerRecords
<1>8. AskersAreSane'
  <2>1. AskerIsSane(a) /\ \A b \in Asker : AskerIsSane(b)
    BY <1>1 DEF AskersAreSane, ConsentKnows
  <2>2. ASSUME NEW b \in Asker \ {a} PROVE AskerIsSane(b)'
    BY <1>6, <2>1, <2>2 DEF AskerIsSane
  <2>3. AskerIsSane(a)'
    <3>1. CASE asker[a].verb = "approve"
      BY <1>7, <2>1, <3>1 DEF AskerIsSane, ConsentSteps, AfterAllowed, MayHaveMoved
    <3>2. CASE asker[a].verb = "revoke"
      BY <1>7, <2>1, <3>2 DEF AskerIsSane, ConsentSteps, AfterAllowed, MayHaveMoved
    <3>3. QED
      BY <1>1, <3>1, <3>2
  <2>4. QED
    BY <2>2, <2>3 DEF AskersAreSane
<1>9. QED
  BY <1>6, <1>7, <1>8

\* What of an action's outcome makes the whole.
LEMMA ConsentParts ==
  ASSUME ConsentKnows, asker' \in [Asker -> AskerRecords], AskersAreSane', ConsentAlone',
         asks' \in Nat, slips' \in Nat, consent' \in ConsentDocs, reported' \in ConsentDocs, unsaid' \in ConsentDocs,
         wounds' = wounds, slips' >= slips, consent' \in allowed' \union {Unset}
  PROVE  ConsentKnows'
BY DEF ConsentKnows, ConsentTyped

\* A new command, alone or beside others.
LEMMA StartStep == ASSUME ConsentKnows, NEW a \in Asker, StartConsent(a) PROVE ConsentKnows'
<1> DEFINE Firsts == {[verb |-> "approve", step |-> "draft"], [verb |-> "revoke", step |-> "exists"], [verb |-> "status", step |-> "show"]}
<1>1. PICK first \in Firsts :
        /\ asker' = [asker EXCEPT ![a] = [verb |-> first.verb, step |-> first.step, draft |-> [by |-> asks + 1, on |-> 0], was |-> Unset]]
        /\ wounds' = wounds \union (IF first.verb # "status" /\ Busy # {} THEN {"overlap"} ELSE {})
  BY DEF StartConsent
<1>2. PICK verb, step : /\ verb = first.verb /\ step = first.step
                        /\ (verb = "approve" /\ step = "draft") \/ (verb = "revoke" /\ step = "exists") \/ (verb = "status" /\ step = "show")
  OBVIOUS
<1>3. asker[a] = Silent /\ asks' = asks + 1
      /\ UNCHANGED <<consent, aside, drafts, workspace, allowed, reported, unsaid, slips>>
  BY DEF StartConsent
<1> HIDE DEF Firsts
<1>4. PICK draft : draft = [by |-> asks + 1, on |-> 0]
  OBVIOUS
<1>5. draft \in ConsentDocs /\ draft # Unset
  BY <1>4 DEF ConsentKnows, ConsentTyped, ConsentDocs, Unset
<1> DEFINE new == [verb |-> verb, step |-> step, draft |-> draft, was |-> Unset]
<1>6. asker' = [asker EXCEPT ![a] = new]
  BY <1>1, <1>2, <1>4
<1>7. new \in AskerRecords
  BY <1>2, <1>5, AskerFacts DEF AskerRecords, ConsentSteps
<1>8. /\ asker' \in [Asker -> AskerRecords] /\ asker'[a] = new
      /\ \A b \in Asker \ {a} : asker'[b] = asker[b]
  BY <1>6, <1>7 DEF ConsentKnows, ConsentTyped
<1>9. AskersAreSane'
  BY <1>2, <1>3, <1>5, <1>8 DEF AskersAreSane, AskerIsSane, ConsentKnows, ConsentSteps, AfterAllowed, MayHaveMoved
<1>10. ConsentAlone'
  <2>1. a \notin Busy
    BY <1>3 DEF Busy, Silent
  <2>2. NobodyAsks => NobodyAsks'
    BY <1>1, <1>3 DEF NobodyAsks, ConsentIsKept, InForce, UnsaidIsASlip
  <2>3. CASE verb = "status"
    <3>1. Busy' = Busy /\ wounds' = wounds
      BY <1>1, <1>2, <1>8, <2>1, <2>3 DEF Busy
    <3>2. \A b \in Busy : AloneAt(b) => AloneAt(b)'
      BY <1>3, <1>8, <2>1, <3>1 DEF Busy, AloneAt, NobodyAsks, ConsentIsKept, InForce, UnsaidIsASlip
    <3>3. QED
      BY <2>2, <3>1, <3>2 DEF ConsentKnows, ConsentAlone
  <2>4. CASE verb # "status"
    <3>1. SUFFICES ASSUME "overlap" \notin wounds' PROVE ConsentAlone'
      BY DEF ConsentAlone
    <3>2. Busy = {} /\ wounds' = wounds
      BY <1>1, <1>2, <2>4, <3>1
    <3>3. Busy' = {a}
      BY <1>2, <1>8, <2>4, <3>2 DEF Busy
    <3>4. NobodyAsks'
      BY <2>2, <3>1, <3>2 DEF ConsentKnows, ConsentAlone
    <3>5. AloneAt(a)'
      BY <1>2, <1>8, <2>4, <3>4 DEF AloneAt, NobodyAsks
    <3>6. QED
      BY <3>3, <3>5 DEF ConsentAlone
  <2>5. QED
    BY <2>3, <2>4
<1>11. wounds' \subseteq {"overlap", "killed", "failed"} /\ (wounds' \intersect {"killed", "failed"} # {} => slips >= 1)
  BY <1>1 DEF ConsentKnows, ConsentTyped
<1>12. QED
  BY <1>3, <1>8, <1>9, <1>10, <1>11 DEF ConsentKnows, ConsentTyped

\* The draft and its question.
LEMMA DraftStep == ASSUME ConsentKnows, NEW a \in Asker, Draft(a) PROVE ConsentKnows'
<1>1. asker[a].step = "draft" /\ UNCHANGED <<consent, aside, drafts, workspace, allowed, reported, unsaid, asks, slips, wounds>>
  BY DEF Draft, Speaks
<1>2. a \in Busy /\ asker[a].verb = "approve" /\ asker[a].was = Unset
  BY <1>1 DEF ConsentKnows, AskersAreSane, AskerIsSane, ConsentSteps, AfterAllowed, MayHaveMoved, Busy
<1>3. CASE Stops(a)
  <2>1. AloneAt(a) => NobodyAsks'
    BY <1>1 DEF AloneAt, NobodyAsks, ConsentIsKept, InForce, UnsaidIsASlip
  <2>2. ConsentAlone'
    BY <1>1, <1>2, <1>3, <2>1, EndIsSane, OneEnds
  <2>3. QED
    BY <1>1, <1>3, <2>2, EndIsSane, ConsentParts DEF ConsentKnows, ConsentTyped
<1>4. ASSUME NEW on \in Drafted \union {1}, asker' = [asker EXCEPT ![a].step = "ask", ![a].draft.on = on]
      PROVE  ConsentKnows'
  <2>1. on \in {1, 2}
    BY <1>4 DEF Drafted
  <2>2. PICK draft : draft = [by |-> asker[a].draft.by, on |-> on]
    OBVIOUS
  <2>3. draft \in ConsentDocs /\ draft # Unset
    BY <2>1, <2>2, AskerFacts DEF ConsentDocs, Unset
  <2>4. asker' = [asker EXCEPT ![a] = [asker[a] EXCEPT !.step = "ask", !.draft = [asker[a].draft EXCEPT !.on = on]]]
    BY <1>4, AskerFacts DEF ConsentKnows, ConsentTyped, AskerRecords
  <2>5. [asker[a].draft EXCEPT !.on = on] = draft
    BY <2>2, AskerFacts DEF ConsentDocs
  <2>6. PICK mid : mid = [asker[a] EXCEPT !.step = "ask"]
    OBVIOUS
  <2>7. mid \in AskerRecords /\ mid.verb = "approve" /\ mid.step = "ask" /\ mid.was = Unset
    <3>1. "ask" \in ConsentSteps \union {"none", "exists", "unlink", "show"}
      BY DEF ConsentSteps, AfterAllowed, MayHaveMoved
    <3>2. asker[a] \in AskerRecords
      BY AskerFacts
    <3>3. QED
      BY <1>2, <2>6, <3>1, <3>2 DEF AskerRecords
  <2>13. PICK new : new = [mid EXCEPT !.draft = draft]
    OBVIOUS
  <2>14. new \in AskerRecords /\ new.verb = "approve" /\ new.step = "ask" /\ new.was = Unset /\ new.draft = draft
    BY <2>3, <2>7, <2>13 DEF AskerRecords
  <2>8. /\ asker' \in [Asker -> AskerRecords] /\ asker'[a] = new
        /\ \A b \in Asker \ {a} : asker'[b] = asker[b]
    <3>1. asker' = [asker EXCEPT ![a] = new]
      BY <2>4, <2>5, <2>6, <2>13
    <3>2. QED
      BY <2>14, <3>1 DEF ConsentKnows, ConsentTyped
  <2>9. AskersAreSane'
    BY <1>1, <2>3, <2>8, <2>14 DEF AskersAreSane, AskerIsSane, ConsentKnows, ConsentSteps, AfterAllowed, MayHaveMoved
  <2>10. AloneAt(a) => AloneAt(a)'
    BY <1>1, <2>8, <2>14 DEF AloneAt, NobodyAsks, ConsentIsKept, InForce, UnsaidIsASlip
  <2>11. ConsentAlone'
    BY <1>1, <1>2, <2>8, <2>10, <2>14, OneAsks
  <2>12. QED
    BY <1>1, <2>8, <2>9, <2>11, ConsentParts DEF ConsentKnows, ConsentTyped
<1>5. QED
  BY <1>3, <1>4 DEF Draft

\* The answer, and the draft that it allows.
LEMMA ConfirmStep == ASSUME ConsentKnows, NEW a \in Asker, Confirm(a) PROVE ConsentKnows'
<1>1. asker[a].step = "ask" /\ UNCHANGED <<consent, aside, drafts, workspace, reported, unsaid, asks, slips, wounds>>
  BY DEF Confirm, Speaks
<1>2. PICK reply \in {"yes", "no", "end"} :
        /\ IF Allows(reply) THEN asker' = [asker EXCEPT ![a].step = "temporary"] ELSE Stops(a)
        /\ allowed' = IF reply = "yes" THEN allowed \union {asker[a].draft} ELSE allowed
  BY DEF Confirm
<1>3. a \in Busy /\ asker[a].verb = "approve" /\ asker[a].was = Unset
  BY <1>1 DEF ConsentKnows, AskersAreSane, AskerIsSane, ConsentSteps, AfterAllowed, MayHaveMoved, Busy
<1>4. allowed \subseteq allowed'
  BY <1>2
<1>5. consent' \in allowed' \union {Unset}
  BY <1>1, <1>4 DEF ConsentKnows
<1>6. CASE reply = "yes"
  <2>1. GoesTo(a, "temporary") /\ asker[a].draft \in allowed'
    BY <1>2, <1>6 DEF Allows, GoesTo
  <2>2. /\ asker' \in [Asker -> AskerRecords] /\ AskersAreSane'
        /\ asker'[a].step = "temporary" /\ asker'[a].verb = asker[a].verb
        /\ \A b \in Asker \ {a} : asker'[b] = asker[b]
    BY <1>3, <1>4, <2>1, StepIsSane DEF ConsentSteps, AfterAllowed, MayHaveMoved
  <2>3. AloneAt(a) => AloneAt(a)'
    BY <1>1, <2>2 DEF AloneAt, NobodyAsks, ConsentIsKept, InForce, UnsaidIsASlip
  <2>4. ConsentAlone'
    BY <1>1, <1>3, <2>2, <2>3, OneAsks
  <2>5. QED
    BY <1>1, <1>5, <2>2, <2>4, ConsentParts DEF ConsentKnows, ConsentTyped
<1>7. CASE reply # "yes"
  <2>1. Stops(a)
    BY <1>2, <1>7 DEF Allows
  <2>2. AloneAt(a) => NobodyAsks'
    BY <1>1 DEF AloneAt, NobodyAsks, ConsentIsKept, InForce, UnsaidIsASlip
  <2>3. /\ asker' \in [Asker -> AskerRecords] /\ AskersAreSane' /\ asker'[a] = Silent
        /\ \A b \in Asker \ {a} : asker'[b] = asker[b]
    BY <1>4, <2>1, EndIsSane
  <2>4. ConsentAlone'
    BY <1>1, <1>3, <2>2, <2>3, OneEnds
  <2>5. QED
    BY <1>1, <1>5, <2>3, <2>4, ConsentParts DEF ConsentKnows, ConsentTyped
<1>8. QED
  BY <1>6, <1>7

\* The temporary file, and the look for an old one.
LEMMA TemporaryStep == ASSUME ConsentKnows, NEW a \in Asker, WriteTemporary(a) \/ LookForOld(a) PROVE ConsentKnows'
<1>1. /\ asker[a].step \in {"temporary", "look"} /\ UNCHANGED <<consent, aside, workspace, allowed, reported, unsaid, asks, wounds>>
      /\ slips' \in Nat /\ slips' >= slips
  BY DEF WriteTemporary, LookForOld, Speaks, SlipsBack, Slip, ConsentKnows, ConsentTyped
<1>2. a \in Busy /\ asker[a].verb = "approve" /\ asker[a].was = Unset /\ asker[a].draft \in allowed
  BY <1>1 DEF ConsentKnows, AskersAreSane, AskerIsSane, ConsentSteps, AfterAllowed, MayHaveMoved, Busy
<1>3. CASE Stops(a) /\ drafts' = drafts /\ asker[a].step = "temporary"
  <2>1. asker' \in [Asker -> AskerRecords] /\ AskersAreSane' /\ asker'[a] = Silent /\ (\A b \in Asker \ {a} : asker'[b] = asker[b])
    BY <1>1, <1>3, EndIsSane
  <2>2. AloneAt(a) => NobodyAsks'
    BY <1>1, <1>3 DEF AloneAt, NobodyAsks, ConsentIsKept, InForce, UnsaidIsASlip, ConsentKnows, ConsentTyped
  <2>3. ConsentAlone'
    BY <1>1, <1>2, <2>1, <2>2, OneEnds
  <2>4. QED
    BY <1>1, <2>1, <2>3, ConsentParts DEF ConsentKnows, ConsentTyped
<1>4. ASSUME NEW step, GoesTo(a, step),
             \/ asker[a].step = "temporary" /\ step = "look" /\ drafts' = drafts \union {asker[a].draft}
             \/ asker[a].step = "temporary" /\ step = "back" /\ drafts' \in {drafts, drafts \union {asker[a].draft}} /\ slips' = slips + 1
             \/ asker[a].step = "look" /\ drafts' = drafts /\ step = IF consent = Unset THEN "place" ELSE "aside"
      PROVE  ConsentKnows'
  <2>1. step \in {"look", "place", "aside", "back"}
    BY <1>4
  <2>2. /\ asker' \in [Asker -> AskerRecords] /\ AskersAreSane'
        /\ asker'[a].step = step /\ asker'[a].verb = asker[a].verb /\ asker'[a].draft = asker[a].draft /\ asker'[a].was = Unset
        /\ \A b \in Asker \ {a} : asker'[b] = asker[b]
    BY <1>1, <1>2, <1>4, <2>1, StepIsSane DEF ConsentSteps
  <2>3. slips \in Nat
    BY DEF ConsentKnows, ConsentTyped
  <2>4. AloneAt(a) => AloneAt(a)'
    <3>1. CASE asker[a].step = "temporary" /\ step = "look" /\ drafts' = drafts \union {asker[a].draft}
      BY <1>1, <2>2, <2>3, <3>1 DEF AloneAt, NobodyAsks, ConsentIsKept, InForce, UnsaidIsASlip
    <3>2. CASE asker[a].step = "temporary" /\ step = "back" /\ drafts' \in {drafts, drafts \union {asker[a].draft}} /\ slips' = slips + 1
      BY <1>1, <2>2, <2>3, <3>2 DEF AloneAt, NobodyAsks, ConsentIsKept, InForce, UnsaidIsASlip
    <3>3. CASE asker[a].step = "look" /\ drafts' = drafts /\ step = IF consent = Unset THEN "place" ELSE "aside"
      BY <1>1, <2>2, <2>3, <3>3 DEF AloneAt, NobodyAsks, ConsentIsKept, InForce, UnsaidIsASlip
    <3>4. QED
      BY <1>4, <3>1, <3>2, <3>3
  <2>5. ConsentAlone'
    BY <1>1, <1>2, <2>2, <2>4, OneAsks
  <2>6. QED
    BY <1>1, <2>2, <2>5, ConsentParts DEF ConsentKnows, ConsentTyped
<1>5. QED
  BY <1>3, <1>4 DEF WriteTemporary, LookForOld, SlipsBack, Slip, Speaks

\* What a recovery does to the files, or does not.
LEMMA PutBackStep == ASSUME ConsentKnows, NEW a \in Asker, PutBack(a) PROVE ConsentKnows'
<1>1. asker[a].step = "back" /\ Stops(a) /\ UNCHANGED <<workspace, allowed, reported, asks>>
      /\ unsaid' = IF consent' = asker[a].draft THEN asker[a].draft ELSE unsaid
  BY DEF PutBack, Speaks
<1>2. a \in Busy /\ asker[a].verb = "approve" /\ asker[a].draft \in allowed /\ asker[a].draft # Unset
      /\ asker[a].was \in allowed \union {Unset}
  BY <1>1 DEF ConsentKnows, AskersAreSane, AskerIsSane, ConsentSteps, AfterAllowed, MayHaveMoved, Busy
<1>3. asker' \in [Asker -> AskerRecords] /\ AskersAreSane' /\ asker'[a] = Silent /\ (\A b \in Asker \ {a} : asker'[b] = asker[b])
  BY <1>1, EndIsSane
<1>4. slips \in Nat /\ asker[a].draft \in ConsentDocs /\ asker[a].was \in ConsentDocs /\ consent \in ConsentDocs /\ unsaid \in ConsentDocs
      /\ wounds \subseteq {"overlap", "killed", "failed"}
  BY AskerFacts DEF ConsentKnows, ConsentTyped
<1>5. CASE OldComesBack(a) /\ UNCHANGED <<slips, wounds>>
  <2>1. /\ drafts' = drafts \ {asker[a].draft}
        /\ asker[a].was # Unset => consent' = asker[a].was /\ aside' = aside \ {asker[a].was}
        /\ asker[a].was = Unset => consent' = consent /\ aside' = aside
    BY <1>5 DEF OldComesBack
  <2>2. AloneAt(a) => NobodyAsks'
    <3>1. CASE asker[a].was # Unset
      BY <1>1, <1>5, <2>1, <3>1 DEF AloneAt, NobodyAsks, ConsentIsKept, InForce, UnsaidIsASlip
    <3>2. CASE asker[a].was = Unset
      BY <1>1, <1>5, <2>1, <3>2 DEF AloneAt, NobodyAsks, ConsentIsKept, InForce, UnsaidIsASlip
    <3>3. QED
      BY <3>1, <3>2
  <2>3. ConsentAlone'
    BY <1>2, <1>3, <1>5, <2>2, OneEnds
  <2>4. consent' \in ConsentDocs /\ unsaid' \in ConsentDocs /\ consent' \in allowed' \union {Unset}
    BY <1>1, <1>2, <1>4, <2>1 DEF ConsentKnows
  <2>5. QED
    BY <1>1, <1>3, <1>5, <2>3, <2>4, ConsentParts DEF ConsentKnows, ConsentTyped
<1>6. CASE UNCHANGED <<consent, aside>> /\ slips' = slips + 1 /\ wounds' = wounds \union {"failed"}
  <2>1. slips' \in Nat /\ slips' >= 1 /\ wounds' # {}
    BY <1>4, <1>6
  <2>2. ASSUME AloneAt(a) PROVE NobodyAsks'
    <3>1. slips' >= 2
      BY <1>1, <1>4, <1>6, <2>2 DEF AloneAt
    <3>2. ConsentIsKept'
      <4>1. CASE asker[a].was = Unset
        BY <1>1, <1>6, <2>1, <2>2, <3>1, <4>1 DEF AloneAt, ConsentIsKept
      <4>2. CASE asker[a].was # Unset
        BY <1>1, <1>6, <2>1, <2>2, <3>1, <4>2 DEF AloneAt, ConsentIsKept
      <4>3. QED
        BY <4>1, <4>2
    <3>3. QED
      BY <2>1, <3>2 DEF NobodyAsks, UnsaidIsASlip
  <2>3. ConsentAlone'
    BY <1>2, <1>3, <1>6, <2>2, OneEnds
  <2>4. unsaid' \in ConsentDocs /\ wounds' \subseteq {"overlap", "killed", "failed"}
    BY <1>1, <1>4, <1>6
  <2>5. QED
    BY <1>1, <1>3, <1>6, <2>1, <2>3, <2>4 DEF ConsentKnows, ConsentTyped
<1>7. QED
  BY <1>5, <1>6 DEF PutBack, Slip

\* The old consent goes aside.
LEMMA AsideStep == ASSUME ConsentKnows, NEW a \in Asker, MoveAside(a) PROVE ConsentKnows'
<1>1. asker[a].step = "aside" /\ UNCHANGED <<drafts, workspace, allowed, reported, unsaid, asks, wounds>> /\ slips' \in Nat /\ slips' >= slips
  BY DEF MoveAside, Speaks, SlipsBack, Slip, ConsentKnows, ConsentTyped
<1>2. a \in Busy /\ asker[a].verb = "approve" /\ asker[a].was = Unset /\ asker[a].draft \in allowed
  BY <1>1 DEF ConsentKnows, AskersAreSane, AskerIsSane, ConsentSteps, AfterAllowed, MayHaveMoved, Busy
<1>3. CASE GoesTo(a, "back") /\ UNCHANGED <<consent, aside>> /\ (consent = Unset \/ slips' = slips + 1)
  <2>1. /\ asker' \in [Asker -> AskerRecords] /\ AskersAreSane'
        /\ asker'[a].step = "back" /\ asker'[a].verb = asker[a].verb /\ asker'[a].draft = asker[a].draft /\ asker'[a].was = Unset
        /\ \A b \in Asker \ {a} : asker'[b] = asker[b]
    BY <1>1, <1>2, <1>3, StepIsSane DEF ConsentSteps, MayHaveMoved
  <2>2. slips \in Nat
    BY DEF ConsentKnows, ConsentTyped
  <2>3. AloneAt(a) => AloneAt(a)'
    BY <1>1, <1>3, <2>1, <2>2 DEF AloneAt, NobodyAsks, ConsentIsKept, InForce, UnsaidIsASlip
  <2>4. ConsentAlone'
    BY <1>1, <1>2, <2>1, <2>3, OneAsks
  <2>5. QED
    BY <1>1, <1>3, <2>1, <2>4, ConsentParts DEF ConsentKnows, ConsentTyped
<1>4. CASE /\ consent # Unset /\ consent' = Unset /\ aside' = aside \union {consent} /\ slips' = slips
           /\ asker' = [asker EXCEPT ![a].step = "place", ![a].was = consent]
  <2>1. consent \in ConsentDocs /\ consent \in allowed
    BY <1>4 DEF ConsentKnows, ConsentTyped
  <2>2. PICK mid : mid = [asker[a] EXCEPT !.step = "place"]
    OBVIOUS
  <2>3. mid \in AskerRecords /\ mid.verb = "approve" /\ mid.step = "place" /\ mid.draft = asker[a].draft
    <3>1. "place" \in ConsentSteps \union {"none", "exists", "unlink", "show"}
      BY DEF ConsentSteps
    <3>2. asker[a] \in AskerRecords
      BY AskerFacts
    <3>3. QED
      BY <1>2, <2>2, <3>1, <3>2 DEF AskerRecords
  <2>4. PICK new : new = [mid EXCEPT !.was = consent]
    OBVIOUS
  <2>5. new \in AskerRecords /\ new.verb = "approve" /\ new.step = "place" /\ new.draft = asker[a].draft /\ new.was = consent
    BY <2>1, <2>3, <2>4 DEF AskerRecords
  <2>6. asker' = [asker EXCEPT ![a] = [asker[a] EXCEPT !.step = "place", !.was = consent]]
    BY <1>4 DEF ConsentKnows, ConsentTyped
  <2>7. /\ asker' \in [Asker -> AskerRecords] /\ asker'[a] = new
        /\ \A b \in Asker \ {a} : asker'[b] = asker[b]
    <3>1. asker' = [asker EXCEPT ![a] = new]
      BY <2>2, <2>4, <2>6
    <3>2. QED
      BY <2>5, <3>1 DEF ConsentKnows, ConsentTyped
  <2>8. AskersAreSane'
    <3>1. \A b \in Asker : AskerIsSane(b)
      BY DEF AskersAreSane, ConsentKnows
    <3>2. ASSUME NEW b \in Asker \ {a} PROVE AskerIsSane(b)'
      BY <1>1, <2>7, <3>1, <3>2 DEF AskerIsSane
    <3>3. AskerIsSane(a)'
      BY <1>1, <1>2, <2>1, <2>5, <2>7, <3>1 DEF AskerIsSane, ConsentSteps, AfterAllowed, MayHaveMoved
    <3>4. QED
      BY <3>2, <3>3 DEF AskersAreSane
  <2>9. AloneAt(a) => AloneAt(a)'
    BY <1>1, <1>4, <2>5, <2>7 DEF AloneAt, NobodyAsks, ConsentIsKept, InForce, UnsaidIsASlip
  <2>10. ConsentAlone'
    BY <1>1, <1>2, <2>5, <2>7, <2>9, OneAsks
  <2>11. Unset \in ConsentDocs
    BY <1>1, AskerFacts
  <2>12. QED
    BY <1>1, <1>4, <2>7, <2>8, <2>10, <2>11, ConsentParts DEF ConsentKnows, ConsentTyped
<1>5. QED
  BY <1>3, <1>4 DEF MoveAside, SlipsBack, Slip

\* The new one takes its place, is brought to disk, and the old one is dropped; or one of these fails.
LEMMA PlaceStep == ASSUME ConsentKnows, NEW a \in Asker, PutInPlace(a) \/ SyncConsent(a) \/ DropBackup(a) PROVE ConsentKnows'
<1>1. /\ asker[a].step \in {"place", "sync", "drop"} /\ UNCHANGED <<workspace, allowed, reported, unsaid, asks, wounds>>
      /\ slips' \in Nat /\ slips' >= slips
  BY DEF PutInPlace, SyncConsent, DropBackup, Speaks, SlipsBack, Slip, ConsentKnows, ConsentTyped
<1>2. a \in Busy /\ asker[a].verb = "approve" /\ asker[a].draft \in allowed /\ asker[a].draft # Unset /\ slips \in Nat
  BY <1>1 DEF ConsentKnows, ConsentTyped, AskersAreSane, AskerIsSane, ConsentSteps, AfterAllowed, MayHaveMoved, Busy
<1>3. ASSUME NEW step, GoesTo(a, step),
             \/ /\ asker[a].step = "place" /\ consent' = asker[a].draft /\ drafts' = drafts \ {asker[a].draft} /\ aside' = aside
                /\ step = "sync"
             \/ /\ asker[a].step = "sync" /\ step = (IF asker[a].was = Unset THEN "read" ELSE "drop")
                /\ UNCHANGED <<consent, aside, drafts>>
             \/ asker[a].step = "drop" /\ aside' = aside \ {asker[a].was} /\ step = "read" /\ UNCHANGED <<consent, drafts>>
             \/ step = "back" /\ slips' = slips + 1 /\ UNCHANGED <<consent, aside, drafts>>
      PROVE  ConsentKnows'
  <2>1. step \in {"sync", "read", "drop", "back"}
    BY <1>3
  <2>2. /\ asker' \in [Asker -> AskerRecords] /\ AskersAreSane'
        /\ asker'[a].step = step /\ asker'[a].verb = asker[a].verb /\ asker'[a].draft = asker[a].draft /\ asker'[a].was = asker[a].was
        /\ \A b \in Asker \ {a} : asker'[b] = asker[b]
    BY <1>1, <1>2, <1>3, <2>1, StepIsSane DEF ConsentSteps, MayHaveMoved
  <2>3. AloneAt(a) => AloneAt(a)'
    <3>1. CASE step = "sync"
      BY <1>1, <1>2, <1>3, <2>2, <3>1 DEF AloneAt, ConsentIsKept, InForce, UnsaidIsASlip
    <3>2. CASE step \in {"read", "drop"}
      BY <1>1, <1>2, <1>3, <2>2, <3>2 DEF AloneAt, ConsentIsKept, InForce, UnsaidIsASlip
    <3>3. CASE step = "back"
      <4>1. slips' >= 1 /\ UNCHANGED <<consent, aside, drafts>>
        BY <1>2, <1>3, <3>3
      <4>2. QED
        BY <1>1, <1>2, <2>2, <3>3, <4>1 DEF AloneAt, ConsentIsKept, InForce, UnsaidIsASlip
    <3>4. QED
      BY <2>1, <3>1, <3>2, <3>3
  <2>4. ConsentAlone'
    BY <1>1, <1>2, <2>2, <2>3, OneAsks
  <2>5. consent' \in ConsentDocs /\ consent' \in allowed' \union {Unset}
    BY <1>1, <1>2, <1>3, AskerFacts DEF ConsentKnows, ConsentTyped
  <2>6. QED
    BY <1>1, <2>2, <2>4, <2>5, ConsentParts DEF ConsentKnows, ConsentTyped
<1>4. QED
  BY <1>3 DEF PutInPlace, SyncConsent, DropBackup, SlipsBack, Slip, Speaks

\* The report of an approval, or of none.
LEMMA ReportStep == ASSUME ConsentKnows, NEW a \in Asker, ReportConsent(a) PROVE ConsentKnows'
<1>1. /\ asker[a].step = "read" /\ Stops(a) /\ UNCHANGED <<consent, aside, drafts, workspace, allowed, asks, wounds>>
      /\ \/ consent # Unset /\ reported' = consent /\ unsaid' = Unset /\ slips' = slips
         \/ consent # Unset /\ reported' = reported /\ unsaid' = consent /\ slips' = slips + 1
         \/ consent = Unset /\ UNCHANGED <<reported, unsaid, slips>>
  BY DEF ReportConsent, Speaks, Slip
<1>2. a \in Busy /\ asker[a].verb = "approve" /\ asker[a].draft # Unset /\ slips \in Nat /\ Unset \in ConsentDocs
  BY <1>1, AskerFacts DEF ConsentKnows, ConsentTyped, AskersAreSane, AskerIsSane, ConsentSteps, AfterAllowed, MayHaveMoved, Busy
<1>3. asker' \in [Asker -> AskerRecords] /\ AskersAreSane' /\ asker'[a] = Silent /\ (\A b \in Asker \ {a} : asker'[b] = asker[b])
  BY <1>1, EndIsSane
<1>4. slips' \in Nat /\ slips' >= slips
  BY <1>1, <1>2
<1>5. AloneAt(a) => NobodyAsks'
  BY <1>1, <1>2 DEF AloneAt, NobodyAsks, ConsentIsKept, InForce, UnsaidIsASlip
<1>6. ConsentAlone'
  BY <1>1, <1>2, <1>3, <1>5, OneEnds
<1>7. reported' \in ConsentDocs /\ unsaid' \in ConsentDocs
  BY <1>1, <1>2 DEF ConsentKnows, ConsentTyped
<1>8. QED
  BY <1>1, <1>3, <1>4, <1>6, <1>7, ConsentParts DEF ConsentKnows, ConsentTyped

\* A revocation.
LEMMA RevokeStep == ASSUME ConsentKnows, NEW a \in Asker, RevokeConsent(a) PROVE ConsentKnows'
<1>1. asker[a].step \in {"exists", "unlink"} /\ UNCHANGED <<aside, drafts, workspace, allowed, asks, wounds>>
      /\ slips' \in Nat /\ slips' >= slips
  BY DEF RevokeConsent, Speaks, Slip, ConsentKnows, ConsentTyped
<1>2. a \in Busy /\ asker[a].verb = "revoke" /\ asker[a].was = Unset
  BY <1>1 DEF ConsentKnows, AskersAreSane, AskerIsSane, ConsentSteps, AfterAllowed, MayHaveMoved, Busy
<1>3. Unset \in ConsentDocs
  BY AskerFacts
<1>4. consent' \in {consent, Unset} /\ reported' \in {reported, Unset} /\ unsaid' \in {unsaid, Unset}
  BY DEF RevokeConsent
<1>5. ASSUME Stops(a),
             \/ asker[a].step = "exists" /\ consent = Unset /\ reported' = Unset /\ UNCHANGED <<consent, unsaid, slips>>
             \/ asker[a].step = "unlink" /\ consent' = Unset /\ reported' = Unset /\ unsaid' = Unset /\ slips' = slips
             \/ asker[a].step = "unlink" /\ UNCHANGED <<consent, reported, unsaid>>
      PROVE  ConsentKnows'
  <2>1. asker' \in [Asker -> AskerRecords] /\ AskersAreSane' /\ asker'[a] = Silent /\ (\A b \in Asker \ {a} : asker'[b] = asker[b])
    BY <1>1, <1>5, EndIsSane
  <2>2. AloneAt(a) => NobodyAsks'
    <3>1. CASE asker[a].step = "exists" /\ consent = Unset /\ reported' = Unset /\ UNCHANGED <<consent, unsaid, slips>>
      BY <1>1, <3>1 DEF AloneAt, NobodyAsks, ConsentIsKept, InForce, UnsaidIsASlip
    <3>2. CASE asker[a].step = "unlink" /\ consent' = Unset /\ reported' = Unset /\ unsaid' = Unset /\ slips' = slips
      BY <1>1, <3>2 DEF AloneAt, NobodyAsks, ConsentIsKept, InForce, UnsaidIsASlip
    <3>3. CASE asker[a].step = "unlink" /\ UNCHANGED <<consent, reported, unsaid>>
      BY <1>1, <3>3 DEF AloneAt, NobodyAsks, ConsentIsKept, InForce, UnsaidIsASlip, ConsentKnows, ConsentTyped
    <3>4. QED
      BY <1>5, <3>1, <3>2, <3>3
  <2>3. ConsentAlone'
    BY <1>1, <1>2, <2>1, <2>2, OneEnds
  <2>4. QED
    BY <1>1, <1>3, <1>4, <2>1, <2>3, ConsentParts DEF ConsentKnows, ConsentTyped
<1>6. CASE asker[a].step = "exists" /\ consent # Unset /\ GoesTo(a, "unlink") /\ UNCHANGED <<consent, reported, unsaid, slips>>
  <2>1. /\ asker' \in [Asker -> AskerRecords] /\ AskersAreSane'
        /\ asker'[a].step = "unlink" /\ asker'[a].verb = asker[a].verb
        /\ \A b \in Asker \ {a} : asker'[b] = asker[b]
    BY <1>1, <1>2, <1>6, StepIsSane DEF AfterAllowed, MayHaveMoved
  <2>2. AloneAt(a) => AloneAt(a)'
    BY <1>1, <1>6, <2>1 DEF AloneAt, NobodyAsks, ConsentIsKept, InForce, UnsaidIsASlip
  <2>3. ConsentAlone'
    BY <1>1, <1>2, <2>1, <2>2, OneAsks
  <2>4. QED
    BY <1>1, <1>6, <2>1, <2>3, ConsentParts DEF ConsentKnows, ConsentTyped
<1>7. QED
  BY <1>5, <1>6 DEF RevokeConsent, Speaks

\* A status, and a command that is killed.
LEMMA ShowOrDieStep == ASSUME ConsentKnows, NEW a \in Asker, ShowStatus(a) \/ DieAsking(a) PROVE ConsentKnows'
<1>1. Stops(a) /\ UNCHANGED <<consent, aside, drafts, workspace, allowed, reported, unsaid, asks>> /\ slips' \in Nat
      /\ \/ slips' = slips /\ wounds' = wounds /\ asker[a].step = "show"
         \/ slips' = slips + 1 /\ wounds' = wounds \union {"killed"}
  BY DEF ShowStatus, DieAsking, Slip, ConsentKnows, ConsentTyped, Speaks
<1>2. asker' \in [Asker -> AskerRecords] /\ AskersAreSane' /\ asker'[a] = Silent /\ (\A b \in Asker \ {a} : asker'[b] = asker[b])
  BY <1>1, EndIsSane
<1>3. wounds' \subseteq {"overlap", "killed", "failed"} /\ (wounds' \intersect {"killed", "failed"} # {} => slips' >= 1) /\ slips' >= slips
  <2>1. slips \in Nat /\ wounds \subseteq {"overlap", "killed", "failed"} /\ (wounds \intersect {"killed", "failed"} # {} => slips >= 1)
    BY DEF ConsentKnows, ConsentTyped
  <2>2. CASE slips' = slips /\ wounds' = wounds
    BY <2>1, <2>2
  <2>3. CASE slips' = slips + 1 /\ wounds' = wounds \union {"killed"}
    BY <2>1, <2>3
  <2>4. QED
    BY <1>1, <2>2, <2>3
<1>4. ConsentAlone'
  <2>1. CASE a \in Busy
    <3>1. slips' = slips + 1 /\ wounds' = wounds \union {"killed"}
      BY <1>1, <2>1 DEF Busy, ConsentKnows, AskersAreSane, AskerIsSane, ConsentSteps, AfterAllowed, MayHaveMoved
    <3>2. ASSUME "overlap" \notin wounds, AloneAt(a) PROVE NobodyAsks'
      <4>1. SUFFICES ASSUME consent = Unset, reported # Unset PROVE aside # {} /\ (slips' <= 1 => reported \in aside)
        BY <1>1, <3>1, <3>2 DEF NobodyAsks, ConsentIsKept, UnsaidIsASlip, AloneAt, ConsentKnows, ConsentTyped
      <4>2. slips \in Nat /\ (slips' <= 1 => slips = 0 /\ wounds = {} /\ unsaid = Unset)
        BY <3>1, <3>2 DEF ConsentKnows, ConsentTyped, AloneAt, UnsaidIsASlip
      <4>3. asker[a].step \in ConsentSteps \union {"exists", "unlink"}
        BY <2>1 DEF Busy, ConsentKnows, AskersAreSane, AskerIsSane
      <4>4. asker[a].draft # Unset
        BY <2>1 DEF Busy, ConsentKnows, AskersAreSane, AskerIsSane
      <4>5. CASE asker[a].step \in {"place", "back"} /\ asker[a].was # Unset
        BY <3>2, <4>1, <4>2, <4>5 DEF AloneAt, InForce
      <4>6. CASE ConsentIsKept
        BY <3>1, <4>1, <4>6 DEF ConsentIsKept, ConsentKnows, ConsentTyped
      <4>7. QED
        BY <3>2, <4>1, <4>3, <4>4, <4>5, <4>6 DEF AloneAt, NobodyAsks, ConsentSteps
    <3>3. QED
      BY <1>1, <1>2, <2>1, <3>2, OneEnds
  <2>2. CASE a \notin Busy
    <3>1. Busy' = Busy
      BY <1>2, <2>2 DEF Busy, Silent
    <3>2. wounds \subseteq wounds' /\ (wounds' = {} => wounds = {}) /\ slips \in Nat
      BY <1>1 DEF ConsentKnows, ConsentTyped
    <3>3. ConsentIsKept => ConsentIsKept'
      BY <1>1, <1>3, <3>2 DEF ConsentIsKept
    <3>4. NobodyAsks => NobodyAsks'
      BY <1>1, <1>3, <3>2, <3>3 DEF NobodyAsks, InForce, UnsaidIsASlip
    <3>5. ASSUME NEW b \in Busy, AloneAt(b) PROVE AloneAt(b)'
      <4>1. asker'[b] = asker[b]
        BY <1>2, <2>2 DEF Busy
      <4>2. QED
        BY <1>1, <1>3, <3>2, <3>3, <3>4, <3>5, <4>1 DEF AloneAt, InForce, UnsaidIsASlip
    <3>6. QED
      BY <3>1, <3>2, <3>4, <3>5 DEF ConsentKnows, ConsentAlone
  <2>3. QED
    BY <2>1, <2>2
<1>5. QED
  BY <1>1, <1>2, <1>3, <1>4 DEF ConsentKnows, ConsentTyped

\* Every step keeps it.
LEMMA ConsentStepKeeps == ASSUME ConsentKnows, ConsentNext \/ UNCHANGED consentVars PROVE ConsentKnows'
<1>1. ASSUME NEW a \in Asker, ConsentStep(a) PROVE ConsentKnows'
  BY <1>1, StartStep, DraftStep, ConfirmStep, TemporaryStep, AsideStep, PlaceStep, PutBackStep, ReportStep, RevokeStep, ShowOrDieStep DEF ConsentStep
<1>2. ASSUME UNCHANGED <<asker, consent, aside, drafts, allowed, reported, unsaid, asks, slips, wounds>> PROVE ConsentKnows'
  BY <1>2 DEF ConsentKnows, ConsentTyped, AskersAreSane, AskerIsSane, ConsentAlone, NobodyAsks, ConsentIsKept, InForce, UnsaidIsASlip, AloneAt, Busy
<1>3. QED
  BY <1>1, <1>2 DEF ConsentNext, consentVars, WorkspaceMoves

\* And it says what the property says.
LEMMA ConsentTells == ConsentKnows => ConsentIsTheUsers
BY DEF ConsentKnows, ConsentAlone, NobodyAsks, ConsentIsKept, InForce, UnsaidIsASlip, ConsentIsTheUsers, ConsentTyped

--------------------------------------------------------------------------------
(* SecretStore: one secret in six backends and what its callers were told. *)

Values == Texts \union {Nothing}

\* What a call has in memory.
UseRecords ==
  [verb : {"none", "get", "set", "delete"}, backend : Backend \union {"none"}, value : Values, step : {"none", "call", "add", "told"},
   alone : BOOLEAN]

\* Types.
SecretTyped ==
  /\ use \in [Caller -> UseRecords] /\ secrets \in [Backend -> Values] /\ possible \in [Backend -> SUBSET Values]
  /\ host.forced \in {"", "file", "env", "memory", "pass"}

\* What a call under way may write is possible, and who is alone has written what it will be told.
UseIsSane(c) ==
  /\ use[c].verb = "none" <=> use[c].step = "none"
  /\ use[c].verb # "none" => use[c].backend \in Backend
  /\ use[c].backend = "memory" => host.test /\ host.forced = "memory"
  /\ use[c].step = "add" => use[c].backend = "keychain"
  /\ use[c].step \in {"add", "told"} => use[c].verb \in {"set", "delete"}
  /\ use[c].verb = "delete" => use[c].value = Nothing
  /\ use[c].verb \in {"set", "delete"} => {use[c].value, Nothing} \subseteq possible[use[c].backend]
  /\ (use[c].verb # "none" /\ use[c].alone) =>
       /\ \A d \in Caller : use[d].verb # "none" => d = c
       /\ (use[c].step = "told" /\ TellsTruth(use[c])) => secrets[use[c].backend] = use[c].value

\* What was answered is what is read of a value that could be stored while the call ran, or nothing.
AnswerIsTrue ==
  answer.backend # "none" =>
    (\E w \in answer.possible : answer.value \in Readable(w)) \/ (answer.backend = "pass" /\ answer.value = Nothing)

\* What is known between two steps.
SecretKnows ==
  /\ SecretTyped
  /\ \A c \in Caller : UseIsSane(c)
  /\ \A b \in Backend : secrets[b] \in possible[b]
  /\ AnswerIsTrue

\* It holds at first.
LEMMA SecretStart == SecretInit => SecretKnows
<1>1. SUFFICES ASSUME SecretInit PROVE SecretKnows
  OBVIOUS
<1>2. Resting \in UseRecords
  BY DEF Resting, UseRecords, Values
<1>3. secrets \in [Backend -> Values] /\ use \in [Caller -> UseRecords] /\ \A c \in Caller : use[c] = Resting
  BY <1>1, <1>2 DEF SecretInit, Values, Texts
<1>4. possible \in [Backend -> SUBSET Values] /\ \A b \in Backend : secrets[b] \in possible[b]
  BY <1>1, <1>3 DEF SecretInit
<1>8. host.forced \in {"", "file", "env", "memory", "pass"}
  <2>1. host \in [platform : {"linux"}, forced : {"", "file", "env", "memory", "pass"}, test : {FALSE}]
        \/ host = [platform |-> "darwin", forced |-> "", test |-> FALSE]
        \/ host = [platform |-> "linux", forced |-> "memory", test |-> TRUE]
    BY <1>1 DEF SecretInit
  <2>2. CASE host \in [platform : {"linux"}, forced : {"", "file", "env", "memory", "pass"}, test : {FALSE}]
    BY <2>2
  <2>3. CASE host = [platform |-> "darwin", forced |-> "", test |-> FALSE]
    BY <2>3
  <2>4. CASE host = [platform |-> "linux", forced |-> "memory", test |-> TRUE]
    BY <2>4
  <2>5. QED
    BY <2>1, <2>2, <2>3, <2>4
<1>5. \A c \in Caller : UseIsSane(c)
  BY <1>3 DEF UseIsSane, Resting
<1>6. AnswerIsTrue
  BY <1>1 DEF SecretInit, NoAnswer, AnswerIsTrue
<1>7. QED
  BY <1>3, <1>4, <1>5, <1>6, <1>8 DEF SecretKnows, SecretTyped

\* What a call has in memory.
LEMMA UseFacts ==
  ASSUME SecretKnows, NEW c \in Caller
  PROVE  /\ use[c] \in UseRecords /\ UseIsSane(c) /\ Resting \in UseRecords
         /\ use[c].verb \in {"none", "get", "set", "delete"} /\ use[c].step \in {"none", "call", "add", "told"}
         /\ use[c].value \in Values /\ use[c].alone \in BOOLEAN /\ Nothing \in Values
<1>1. use[c] \in UseRecords
  BY DEF SecretKnows, SecretTyped
<1>2. Resting \in UseRecords
  BY DEF Resting, UseRecords, Values
<1>3. QED
  BY <1>1, <1>2 DEF UseRecords, SecretKnows, Values

\* A call that ends.
LEMMA EndsFacts ==
  ASSUME SecretKnows, NEW c \in Caller, Ends(c)
  PROVE  use' \in [Caller -> UseRecords] /\ use'[c] = Resting /\ (\A d \in Caller \ {c} : use'[d] = use[d])
BY UseFacts DEF Ends, SecretKnows, SecretTyped

\* With its end, nothing is left to say of a call; the others stay as they are while the store does.
LEMMA EndKeeps ==
  ASSUME SecretKnows, NEW c \in Caller, Ends(c), UNCHANGED <<host, secrets>>,
         possible' \in [Backend -> SUBSET Values], \A b \in Backend : secrets[b] \in possible'[b],
         possible' = possible \/ \A d \in Caller \ {c} : use[d].verb = "none",
         AnswerIsTrue'
  PROVE  SecretKnows'
<1>1. use' \in [Caller -> UseRecords] /\ use'[c] = Resting /\ (\A d \in Caller \ {c} : use'[d] = use[d])
  BY EndsFacts
<1>2. UseIsSane(c)'
  BY <1>1 DEF UseIsSane, Resting
<1>3. ASSUME NEW d \in Caller \ {c} PROVE UseIsSane(d)'
  <2>1. UseIsSane(d) /\ use'[d] = use[d]
    BY <1>1, UseFacts
  <2>2. use'[d].verb # "none" => possible' = possible
    BY <1>3, <2>1
  <2>3. use'[d].backend = "memory" => host'.test /\ host'.forced = "memory"
    BY <2>1 DEF UseIsSane
  <2>4. (use'[d].verb # "none" /\ use'[d].alone) =>
          /\ \A e \in Caller : use'[e].verb # "none" => e = d
          /\ (use'[d].step = "told" /\ TellsTruth(use'[d])) => secrets'[use'[d].backend] = use'[d].value
    BY <1>1, <2>1 DEF UseIsSane, Resting
  <2>5. use'[d].verb \in {"set", "delete"} => {use'[d].value, Nothing} \subseteq possible'[use'[d].backend]
    BY <2>1, <2>2 DEF UseIsSane
  <2>6. QED
    BY <2>1, <2>3, <2>4, <2>5 DEF UseIsSane
<1>4. QED
  BY <1>1, <1>2, <1>3 DEF SecretKnows, SecretTyped

\* The backend a call picks.
LEMMA PickFacts ==
  ASSUME SecretKnows, Admitted(PickBackend)
  PROVE  PickBackend \in Backend /\ (PickBackend = "memory" => host.test /\ host.forced = "memory")
<1>1. host.forced \in {"", "file", "env", "memory", "pass"}
  BY DEF SecretKnows, SecretTyped
<1>2. CASE host.forced = "file"
  BY <1>2 DEF PickBackend, Backend
<1>3. CASE host.forced \in {"env", "memory", "pass"}
  <2>1. PickBackend = host.forced
    BY <1>3 DEF PickBackend
  <2>2. QED
    BY <1>3, <2>1 DEF Backend, Admitted
<1>4. CASE host.forced = "" /\ host.platform = "darwin"
  BY <1>4 DEF PickBackend, Backend
<1>5. CASE host.forced = "" /\ host.platform = "linux" /\ "secret-service" \in usable
  BY <1>5 DEF PickBackend, Backend
<1>6. CASE host.forced = "" /\ host.platform = "linux" /\ "secret-service" \notin usable /\ "pass" \in usable
  BY <1>6 DEF PickBackend, Backend
<1>7. CASE host.forced = "" /\ host.platform \notin {"darwin", "linux"}
  <2>1. PickBackend = "unavailable"
    BY <1>7 DEF PickBackend
  <2>2. QED
    BY <2>1 DEF Admitted
<1>8. CASE host.forced = "" /\ host.platform = "linux" /\ "secret-service" \notin usable /\ "pass" \notin usable
  <2>1. PickBackend = "unavailable"
    BY <1>8 DEF PickBackend
  <2>2. QED
    BY <2>1 DEF Admitted
<1>9. QED
  BY <1>1, <1>2, <1>3, <1>4, <1>5, <1>6, <1>7, <1>8

\* A new call: what it may write becomes possible, and it is alone if no other runs.
LEMMA StartUseStep == ASSUME SecretKnows, NEW c \in Caller, StartUse(c) PROVE SecretKnows' /\ UNCHANGED secrets
<1>1. UNCHANGED <<host, usable, helper, secrets, answer, troubles>> /\ use[c] = Resting
  BY DEF StartUse
<1>2. CASE UNCHANGED <<use, possible>>
  BY <1>1, <1>2 DEF SecretKnows, SecretTyped, UseIsSane, AnswerIsTrue
<1>3. CASE ~UNCHANGED <<use, possible>>
  <2>1. Admitted(PickBackend)
    BY <1>3 DEF StartUse
  <2>2. PICK backend : backend = PickBackend
    OBVIOUS
  <2>3. backend \in Backend /\ (backend = "memory" => host.test /\ host.forced = "memory")
    BY <2>1, <2>2, PickFacts
  <2>4. PICK idle \in BOOLEAN : idle <=> (Running = {})
    OBVIOUS
  <2>5. PICK verb \in {"get", "set", "delete"} : \E value \in (IF verb = "set" THEN Texts ELSE {Nothing}) :
          /\ use' = [d \in Caller |-> IF d = c THEN [verb |-> verb, backend |-> backend, value |-> value, step |-> "call", alone |-> Running = {}]
                                     ELSE [use[d] EXCEPT !.alone = use[d].alone /\ use[d] = Resting]]
          /\ possible' = IF verb = "get" THEN possible
                         ELSE [possible EXCEPT ![backend] = possible[backend] \union {value, Nothing}]
    BY <2>1, <2>2 DEF StartUse
  <2>6. PICK value \in (IF verb = "set" THEN Texts ELSE {Nothing}) :
          /\ use' = [d \in Caller |-> IF d = c THEN [verb |-> verb, backend |-> backend, value |-> value, step |-> "call", alone |-> Running = {}]
                                     ELSE [use[d] EXCEPT !.alone = use[d].alone /\ use[d] = Resting]]
          /\ possible' = IF verb = "get" THEN possible
                         ELSE [possible EXCEPT ![backend] = possible[backend] \union {value, Nothing}]
    BY <2>5
  <2>7. value \in Values /\ Nothing \in Values /\ (verb = "delete" => value = Nothing)
    BY <2>6 DEF Values
  <2>8. (Running = {}) = idle
    BY <2>4
  <2>9. use'[c] = [verb |-> verb, backend |-> backend, value |-> value, step |-> "call", alone |-> idle]
    BY <2>6, <2>8
  <2>10. use'[c] \in UseRecords
    BY <2>3, <2>7, <2>9 DEF UseRecords
  <2>11. ASSUME NEW d \in Caller \ {c}
         PROVE  /\ use'[d] \in UseRecords /\ use'[d].verb = use[d].verb /\ use'[d].backend = use[d].backend /\ use'[d].value = use[d].value
                /\ use'[d].step = use[d].step /\ (use'[d].alone => use[d].alone /\ use[d] = Resting)
    <3>1. PICK still \in BOOLEAN : still <=> (use[d].alone /\ use[d] = Resting)
      OBVIOUS
    <3>2. (use[d].alone /\ use[d] = Resting) = still
      BY <3>1, UseFacts
    <3>3. use'[d] = [use[d] EXCEPT !.alone = still]
      BY <2>6, <2>11, <3>2
    <3>4. use[d] \in UseRecords
      BY UseFacts
    <3>5. QED
      BY <3>1, <3>3, <3>4 DEF UseRecords
  <2>12. use' \in [Caller -> UseRecords]
    <3>1. DOMAIN use' = Caller /\ use' = [d \in Caller |-> use'[d]]
      BY <2>6
    <3>2. \A d \in Caller : use'[d] \in UseRecords
      BY <2>10, <2>11
    <3>3. QED
      BY <3>1, <3>2
  <2>13. possible' \in [Backend -> SUBSET Values] /\ (\A b \in Backend : possible[b] \subseteq possible'[b])
         /\ (verb # "get" => {value, Nothing} \subseteq possible'[backend])
    BY <2>3, <2>6, <2>7 DEF SecretKnows, SecretTyped
  <2>14. UseIsSane(c)'
    <3>1. /\ use'[c].verb = verb /\ use'[c].backend = backend /\ use'[c].value = value /\ use'[c].step = "call" /\ use'[c].alone = idle
      BY <2>9
    <3>2. idle => \A d \in Caller : use'[d].verb # "none" => d = c
      BY <2>4, <2>11 DEF Running
    <3>3. QED
      BY <1>1, <2>3, <2>5, <2>7, <2>13, <3>1, <3>2 DEF UseIsSane
  <2>15. ASSUME NEW d \in Caller \ {c} PROVE UseIsSane(d)'
    <3>1. UseIsSane(d)
      BY UseFacts
    <3>2. use'[d].alone => use'[d].verb = "none"
      BY <2>11 DEF Resting
    <3>3. use'[d].verb \in {"set", "delete"} => {use'[d].value, Nothing} \subseteq possible'[use'[d].backend]
      BY <2>11, <2>13, <3>1 DEF UseIsSane
    <3>4. QED
      BY <1>1, <2>11, <3>1, <3>2, <3>3 DEF UseIsSane
  <2>16. \A b \in Backend : secrets'[b] \in possible'[b]
    BY <1>1, <2>13 DEF SecretKnows
  <2>17. QED
    BY <1>1, <2>12, <2>13, <2>14, <2>15, <2>16 DEF SecretKnows, SecretTyped, AnswerIsTrue
<1>4. QED
  BY <1>1, <1>2, <1>3

\* What is read of a secret is read of it wherever it is.
LEMMA ShownFacts == ASSUME NEW b, NEW s \in Values PROVE Shown(b, s) \in Readable(s)
<1>1. CASE b \in LinuxTool
  BY <1>1 DEF Shown, Readable, Values, Texts, LinuxTool, Nothing
<1>2. CASE b \notin LinuxTool /\ b = "legacy-file-readonly"
  BY <1>2 DEF Shown, Readable, Values, Texts, Nothing
<1>3. CASE b \notin LinuxTool /\ b # "legacy-file-readonly"
  BY <1>3 DEF Shown, Readable, Values, Texts, Nothing
<1>4. QED
  BY <1>1, <1>2, <1>3

\* A write: the backend of the call gets what is possible for it.
LEMMA WriteKeeps ==
  ASSUME SecretKnows, NEW c \in Caller, NEW step \in {"add", "told"}, NEW v \in {use[c].value, Nothing},
         use[c].verb \in {"set", "delete"}, use[c].step # "none",
         step = "told" => v = use[c].value, step = "add" => use[c].backend = "keychain",
         use' = [use EXCEPT ![c].step = step], secrets' = [secrets EXCEPT ![use[c].backend] = v],
         UNCHANGED <<host, possible, answer>>
  PROVE  SecretKnows'
<1>1. use[c] \in UseRecords /\ UseIsSane(c) /\ use[c].backend \in Backend /\ v \in Values
  BY UseFacts DEF UseIsSane
<1>2. use' = [use EXCEPT ![c] = [use[c] EXCEPT !.step = step]]
  BY DEF SecretKnows, SecretTyped
<1>3. PICK new : new = [use[c] EXCEPT !.step = step]
  OBVIOUS
<1>4. /\ new \in UseRecords /\ new.verb = use[c].verb /\ new.backend = use[c].backend /\ new.value = use[c].value
      /\ new.step = step /\ new.alone = use[c].alone
  BY <1>1, <1>3 DEF UseRecords
<1>5. use' \in [Caller -> UseRecords] /\ use'[c] = new /\ \A d \in Caller \ {c} : use'[d] = use[d]
  BY <1>2, <1>3, <1>4 DEF SecretKnows, SecretTyped
<1>6. v \in possible[use[c].backend]
  BY <1>1 DEF UseIsSane
<1>7. secrets' \in [Backend -> Values] /\ secrets'[use[c].backend] = v /\ (\A b \in Backend : secrets'[b] \in possible'[b])
  BY <1>1, <1>6 DEF SecretKnows, SecretTyped
<1>8. UseIsSane(c)'
  <2>1. (use'[c].verb # "none" /\ use'[c].alone) =>
          /\ \A d \in Caller : use'[d].verb # "none" => d = c
          /\ (use'[c].step = "told" /\ TellsTruth(use'[c])) => secrets'[use'[c].backend] = use'[c].value
    BY <1>1, <1>4, <1>5, <1>7 DEF UseIsSane
  <2>2. QED
    BY <1>1, <1>4, <1>5, <2>1 DEF UseIsSane
<1>9. ASSUME NEW d \in Caller \ {c} PROVE UseIsSane(d)'
  <2>1. UseIsSane(d) /\ use'[d] = use[d]
    BY <1>5, UseFacts
  <2>2. ~(use[d].verb # "none" /\ use[d].alone)
    BY <1>9, <2>1 DEF UseIsSane
  <2>3. QED
    BY <2>1, <2>2 DEF UseIsSane
<1>10. QED
  BY <1>5, <1>7, <1>8, <1>9 DEF SecretKnows, SecretTyped, AnswerIsTrue

\* A call that fails, is cut off, or has read; and one that is told of its write.
LEMMA EndStep ==
  ASSUME SecretKnows, NEW c \in Caller, Fails(c) \/ CutOff(c) \/ GetSecret(c) \/ FindsNone(c) \/ IsTold(c)
  PROVE  SecretKnows' /\ UNCHANGED secrets
<1>1. Ends(c) /\ UNCHANGED <<host, secrets>>
  BY DEF Fails, CutOff, GetSecret, FindsNone, IsTold
<1>2. CASE UNCHANGED <<possible, answer>>
  BY <1>1, <1>2, EndKeeps DEF SecretKnows, SecretTyped, AnswerIsTrue
<1>3. CASE GetSecret(c)
  <2>1. PICK b \in Backend : answer' = [backend |-> b, value |-> Shown(b, secrets[b]), possible |-> possible[b]] /\ UNCHANGED possible
    BY <1>3 DEF GetSecret
  <2>2. PICK s : s = secrets[b]
    OBVIOUS
  <2>3. s \in possible[b] /\ s \in Values
    BY <2>2 DEF SecretKnows, SecretTyped
  <2>4. PICK v : v = Shown(b, s)
    OBVIOUS
  <2>5. v \in Readable(s)
    BY <2>3, <2>4, ShownFacts
  <2>6. answer'.value = v /\ answer'.possible = possible[b]
    BY <2>1, <2>2, <2>4
  <2>7. AnswerIsTrue'
    BY <2>3, <2>5, <2>6 DEF AnswerIsTrue
  <2>8. QED
    BY <1>1, <2>1, <2>7, EndKeeps DEF SecretKnows, SecretTyped
<1>4. CASE IsTold(c) /\ TellsTruth(use[c])
  <2>1. /\ use[c].step = "told" /\ UNCHANGED answer
        /\ possible' = [possible EXCEPT ![use[c].backend] = {use[c].value}]
    BY <1>4 DEF IsTold
  <2>2. /\ use[c].backend \in Backend /\ use[c].value \in Values /\ secrets[use[c].backend] = use[c].value
        /\ \A d \in Caller \ {c} : use[d].verb = "none"
    BY <1>4, <2>1, UseFacts DEF UseIsSane, TellsTruth
  <2>3. possible' \in [Backend -> SUBSET Values] /\ \A b \in Backend : secrets[b] \in possible'[b]
    BY <2>1, <2>2 DEF SecretKnows, SecretTyped
  <2>4. AnswerIsTrue'
    BY <2>1 DEF SecretKnows, AnswerIsTrue
  <2>5. QED
    BY <1>1, <2>2, <2>3, <2>4, EndKeeps
<1>5. CASE FindsNone(c)
  <2>1. answer' = [backend |-> "pass", value |-> Nothing, possible |-> possible["pass"]] /\ UNCHANGED possible
    BY <1>5 DEF FindsNone
  <2>2. AnswerIsTrue'
    BY <2>1 DEF AnswerIsTrue
  <2>3. QED
    BY <1>1, <2>1, <2>2, EndKeeps DEF SecretKnows, SecretTyped
<1>6. QED
  BY <1>2, <1>3, <1>4, <1>5 DEF Fails, CutOff, IsTold

\* A set and a delete.
LEMMA SetStep ==
  ASSUME SecretKnows, NEW c \in Caller, SetSecret(c) \/ AddSecret(c) \/ DeleteSecret(c)
  PROVE  SecretKnows' /\ NoPlaintext
<1>1. use[c] \in UseRecords /\ UseIsSane(c)
  BY UseFacts
<1>2. CASE SetSecret(c)
  <2>1. PICK b \in Backend :
          /\ Calls(c, b) /\ MayWrite(c, b) /\ secrets' = [secrets EXCEPT ![b] = IF b = "keychain" THEN Nothing ELSE use[c].value]
          /\ use' = [use EXCEPT ![c].step = IF b = "keychain" THEN "add" ELSE "told"] /\ UNCHANGED <<host, possible, answer>>
    BY <1>2 DEF SetSecret
  <2>2. use[c].verb = "set" /\ use[c].step = "call" /\ use[c].backend = b /\ ~ReadOnly(b)
    BY <2>1 DEF Calls, MayWrite
  <2>3. PICK v, step : v = (IF b = "keychain" THEN Nothing ELSE use[c].value) /\ step = (IF b = "keychain" THEN "add" ELSE "told")
    OBVIOUS
  <2>4. secrets' = [secrets EXCEPT ![b] = v] /\ use' = [use EXCEPT ![c].step = step]
    BY <2>1, <2>3
  <2>5. SecretKnows'
    BY <2>1, <2>2, <2>3, <2>4, WriteKeeps
  <2>6. NoPlaintext
    BY <1>1, <2>2, <2>4 DEF NoPlaintext, ReadOnly, UseIsSane, SecretKnows, SecretTyped, Backend
  <2>7. QED
    BY <2>5, <2>6
<1>3. CASE AddSecret(c) /\ secrets["keychain"] = Nothing
  <2>1. /\ use[c].step = "add" /\ secrets' = [secrets EXCEPT !["keychain"] = use[c].value] /\ use' = [use EXCEPT ![c].step = "told"]
        /\ UNCHANGED <<host, possible, answer>>
    BY <1>3 DEF AddSecret
  <2>2. use[c].backend = "keychain" /\ use[c].verb \in {"set", "delete"}
    BY <1>1, <2>1 DEF UseIsSane
  <2>3. SecretKnows'
    BY <2>1, <2>2, WriteKeeps
  <2>4. NoPlaintext
    BY <2>1 DEF NoPlaintext, SecretKnows, SecretTyped, Backend
  <2>5. QED
    BY <2>3, <2>4
<1>4. CASE AddSecret(c) /\ secrets["keychain"] # Nothing
  <2>1. Ends(c) /\ UNCHANGED <<host, secrets, possible, answer>>
    BY <1>4 DEF AddSecret
  <2>2. SecretKnows'
    BY <2>1, EndKeeps DEF SecretKnows, SecretTyped, AnswerIsTrue
  <2>3. QED
    BY <2>1, <2>2 DEF NoPlaintext
<1>5. CASE DeleteSecret(c)
  <2>1. PICK b \in Backend :
          /\ Calls(c, b) /\ use[c].verb = "delete" /\ secrets' = [secrets EXCEPT ![b] = Nothing]
          /\ use' = [use EXCEPT ![c].step = "told"] /\ UNCHANGED <<host, possible, answer>>
    BY <1>5 DEF DeleteSecret
  <2>2. use[c].step = "call" /\ use[c].backend = b /\ use[c].value = Nothing
    BY <1>1, <2>1 DEF Calls, UseIsSane
  <2>3. SecretKnows'
    BY <2>1, <2>2, WriteKeeps
  <2>4. NoPlaintext
    BY <1>1, <2>1, <2>2 DEF NoPlaintext, UseIsSane, SecretKnows, SecretTyped, Backend
  <2>5. QED
    BY <2>3, <2>4
<1>6. QED
  BY <1>2, <1>3, <1>4, <1>5

\* A deletion that was none: the caller is told, and nothing is known of the secret.
LEMMA KeepsStep == ASSUME SecretKnows, NEW c \in Caller, KeepsSecret(c) PROVE SecretKnows' /\ UNCHANGED secrets
<1>1. /\ use[c].verb = "delete" /\ use[c].step = "call" /\ use[c].backend \in LinuxTool /\ use' = [use EXCEPT ![c].step = "told"]
      /\ UNCHANGED <<host, secrets, possible, answer>>
  BY DEF KeepsSecret, SaysNotThere, Calls
<1>2. use[c] \in UseRecords /\ UseIsSane(c)
  BY UseFacts
<1>3. PICK new : new = [use[c] EXCEPT !.step = "told"]
  OBVIOUS
<1>4. /\ new \in UseRecords /\ new.verb = "delete" /\ new.backend = use[c].backend /\ new.value = use[c].value
      /\ new.step = "told" /\ new.alone = use[c].alone
  BY <1>1, <1>2, <1>3 DEF UseRecords
<1>5. use' = [use EXCEPT ![c] = new]
  BY <1>1, <1>3
<1>6. use' \in [Caller -> UseRecords] /\ use'[c] = new /\ \A d \in Caller \ {c} : use'[d] = use[d]
  BY <1>4, <1>5 DEF SecretKnows, SecretTyped
<1>7. ~TellsTruth(new)
  BY <1>1, <1>4 DEF TellsTruth
<1>8. UseIsSane(c)'
  BY <1>1, <1>2, <1>4, <1>6, <1>7 DEF UseIsSane
<1>9. ASSUME NEW d \in Caller \ {c} PROVE UseIsSane(d)'
  <2>1. UseIsSane(d) /\ use'[d] = use[d]
    BY <1>6, UseFacts
  <2>2. (use[d].verb # "none" /\ use[d].alone) => use[c].verb = "none"
    BY <1>9, <2>1 DEF UseIsSane
  <2>3. QED
    BY <1>1, <2>1, <2>2 DEF UseIsSane
<1>10. QED
  BY <1>1, <1>6, <1>8, <1>9 DEF SecretKnows, SecretTyped, AnswerIsTrue

\* Every step keeps it, and writes no plaintext.
LEMMA SecretStep == ASSUME SecretKnows, SecretNext \/ UNCHANGED secretVars PROVE SecretKnows' /\ NoPlaintext
<1>1. ASSUME NEW c \in Caller,
             \/ StartUse(c) \/ Fails(c) \/ GetSecret(c) \/ FindsNone(c) \/ SetSecret(c) \/ AddSecret(c)
             \/ DeleteSecret(c) \/ KeepsSecret(c) \/ IsTold(c) \/ CutOff(c)
      PROVE  SecretKnows' /\ NoPlaintext
  <2>1. CASE StartUse(c)
    BY <2>1, StartUseStep DEF NoPlaintext
  <2>2. CASE Fails(c) \/ CutOff(c) \/ GetSecret(c) \/ FindsNone(c) \/ IsTold(c)
    BY <2>2, EndStep DEF NoPlaintext
  <2>3. CASE KeepsSecret(c)
    BY <2>3, KeepsStep DEF NoPlaintext
  <2>4. QED
    BY <1>1, <2>1, <2>2, <2>3, SetStep
<1>2. CASE UNCHANGED <<host, use, secrets, possible, answer>>
  BY <1>2 DEF SecretKnows, SecretTyped, UseIsSane, AnswerIsTrue, NoPlaintext
<1>3. QED
  BY <1>1, <1>2 DEF SecretNext, EnvironmentMoves, secretVars

\* And it says what the property says.
LEMMA SecretTells == SecretKnows => SecretsAreAsTold
BY DEF SecretKnows, AnswerIsTrue, SecretsAreAsTold

--------------------------------------------------------------------------------

(***************************************************************************)
(* The parts together.                                                     *)
(***************************************************************************)

\* What is known of the part that runs.
ToolsInv ==
  /\ part = "entitlement" => EntitlementKnows
  /\ part = "installer" => InstallerKnows
  /\ part = "consent" => ConsentKnows
  /\ part = "secrets" => SecretKnows
  /\ part = "protection" => ProtectKnows
  /\ part = "archives" => ArchiveKnows
  /\ part = "cluster" => ClusterKnows
  /\ part = "discovery" => DiscoveryKnows
  /\ part = "traces" => TraceKnows

\* A step of the tools is a step of the part that runs, or none of it.
LEMMA ToolsMove ==
  ASSUME [ToolsNext]_toolVars
  PROVE  /\ part' = part
         /\ part = "entitlement" => EntitlementNext \/ UNCHANGED entitlementVars
         /\ part = "installer" => InstallerNext \/ UNCHANGED installerVars
         /\ part = "consent" => ConsentNext \/ UNCHANGED consentVars
         /\ part = "secrets" => SecretNext \/ UNCHANGED secretVars
         /\ part = "protection" => ProtectNext \/ UNCHANGED protectVars
         /\ part = "archives" => ArchiveNext \/ UNCHANGED archiveVars
         /\ part = "cluster" => ClusterNext \/ UNCHANGED clusterVars
         /\ part = "discovery" => DiscoveryNext \/ UNCHANGED discoveryVars
         /\ part = "traces" => TraceNext \/ UNCHANGED traceVars
BY DEF ToolsNext, toolVars

\* It holds at first and every step keeps it.
LEMMA ToolsInvariant == ToolsSpec => []ToolsInv
<1>1. ToolsInit => ToolsInv
  BY EntitlementStart, InstallerStart, ConsentStart, SecretStart, ProtectStart, ArchiveStart, ClusterStart, DiscoveryStart,
     TraceStart DEF ToolsInit, ToolsInv
<1>2. ToolsInv /\ [ToolsNext]_toolVars => ToolsInv'
  <2>1. SUFFICES ASSUME ToolsInv, [ToolsNext]_toolVars PROVE ToolsInv'
    OBVIOUS
  <2>2. part' = part
    BY <2>1, ToolsMove
  <2>3. CASE part = "entitlement"
    BY <2>1, <2>2, <2>3, ToolsMove, EntitlementStep1 DEF ToolsInv
  <2>4. CASE part = "installer"
    BY <2>1, <2>2, <2>4, ToolsMove, InstallerStep1 DEF ToolsInv
  <2>5. CASE part = "consent"
    BY <2>1, <2>2, <2>5, ToolsMove, ConsentStepKeeps DEF ToolsInv
  <2>6. CASE part = "secrets"
    BY <2>1, <2>2, <2>6, ToolsMove, SecretStep DEF ToolsInv
  <2>7. CASE part = "protection"
    BY <2>1, <2>2, <2>7, ToolsMove, ProtectStep DEF ToolsInv
  <2>8. CASE part = "archives"
    BY <2>1, <2>2, <2>8, ToolsMove, ArchiveStep DEF ToolsInv
  <2>9. CASE part = "cluster"
    BY <2>1, <2>2, <2>9, ToolsMove, ClusterStep DEF ToolsInv
  <2>10. CASE part = "discovery"
    BY <2>1, <2>2, <2>10, ToolsMove, DiscoveryStep DEF ToolsInv
  <2>11. CASE part = "traces"
    BY <2>1, <2>2, <2>11, ToolsMove, TraceStep DEF ToolsInv
  <2>12. QED
    BY <2>2, <2>3, <2>4, <2>5, <2>6, <2>7, <2>8, <2>9, <2>10, <2>11 DEF ToolsInv
<1>3. QED
  BY <1>1, <1>2, PTL DEF ToolsSpec

\* What is kept agrees with what was granted, listed or allowed, for any number of clients, commands and calls and
\* whatever crashed, failed or overlapped.
THEOREM ToolsStayAgreed == ToolsSpec => []ToolsAgree
<1>1. ToolsInv => ToolsAgree
  BY EntitlementTells, InstallerTells, ConsentTells, SecretTells DEF ToolsInv, ToolsAgree
<1>2. QED
  BY <1>1, ToolsInvariant, PTL

\* What a reading command answers is true of what it read: for any words of a task and any manifest, any number of domains
\* and of changes by others, any number of readers, days and records, and wherever an append is cut off.
THEOREM AnswersStayTrue == ToolsSpec => []AnswersAreTrue
<1>1. ToolsInv => AnswersAreTrue
  BY ClusterTells DEF ToolsInv, AnswersAreTrue, DiscoveryKnows, TraceKnows
<1>2. QED
  BY <1>1, ToolsInvariant, PTL

\* An asset that is protected, recovered or unlocked opens as its owner was told and leaves no plaintext behind; one that
\* is extracted is safe, the registry's and whole: for any number of commands, and for archives of any size and layout.
THEOREM AssetsStayProtected == ToolsSpec => []AssetsAreProtected
<1>1. ToolsInv => AssetsAreProtected
  BY ProtectTells, ArchiveTells DEF ToolsInv, AssetsAreProtected
<1>2. QED
  BY <1>1, ToolsInvariant, PTL

\* A grant and its status only move forwards, what is installed an unexpired registry lists, a secret is never in the clear.
THEOREM ToolsMoveByTheirRight == ToolsSpec => ToolsMoveByRight
<1>1. ToolsInv /\ [ToolsNext]_toolVars =>
        [/\ part = "entitlement" => GrantsOnlyMoveForward
         /\ part = "installer" => InstallsAreListed
         /\ part = "secrets" => NoPlaintext]_toolVars
  <2>1. SUFFICES ASSUME ToolsInv, [ToolsNext]_toolVars
                 PROVE  /\ part = "entitlement" => GrantsOnlyMoveForward
                        /\ part = "installer" => InstallsAreListed
                        /\ part = "secrets" => NoPlaintext
    OBVIOUS
  <2>2. part = "entitlement" => GrantsOnlyMoveForward
    BY <2>1, ToolsMove, EntitlementStep1 DEF ToolsInv
  <2>3. part = "installer" => InstallsAreListed
    BY <2>1, ToolsMove, InstallerStep1 DEF ToolsInv
  <2>4. part = "secrets" => NoPlaintext
    BY <2>1, ToolsMove, SecretStep DEF ToolsInv
  <2>5. QED
    BY <2>2, <2>3, <2>4
<1>2. QED
  BY <1>1, ToolsInvariant, PTL DEF ToolsSpec, ToolsMoveByRight

================================================================================
