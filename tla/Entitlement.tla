------------------------------- MODULE Entitlement -------------------------------
(***************************************************************************)
(* Account entitlements of one domain: retired/src/cmds/license.js,        *)
(* external-entitlement.js, runtime-entitlement.js over secret-store.js.   *)
(* A device key pair, the grant, the pinned issuer and two high-water      *)
(* marks live in the secret store, each a write of its own; a file shared  *)
(* with the legacy licences holds the rest; the server may revoke or       *)
(* change its issuer key at any time.                                      *)
(***************************************************************************)
EXTENDS Naturals, FiniteSets, FiniteSetsExt

CONSTANTS
  Client,         \* slots in which commands run
  MaxVersion,     \* bound on the server's status versions
  MaxOrders,      \* bound on the commands started
  MaxHarm         \* bound on crashes, failed writes and clock changes

ASSUME EntitlementAssumption == MaxVersion \in Nat /\ MaxOrders \in Nat /\ MaxHarm \in Nat

VARIABLES
  client,    \* client[c]: the command, its step and what it has in memory
  vault,     \* the secret store: private keys by pair, grant by version, issuer, status version and last seen time
  file,      \* licenses/<domain>.json
  server,    \* its status version, whether the account is live, its issuer key and the device it knows
  clock,
  keys,      \* key pairs generated so far
  orders, harm,
  scars      \* what went wrong so far: "overlap" of two commands that write, "crossed" installs, "lost", "torn" (history)

entitlementVars == <<client, vault, file, server, clock, keys, orders, harm, scars>>

NoGrant == [version |-> 0, device |-> 0, issuer |-> 0]

NoDevice == [public |-> 0, agreement |-> 0, signing |-> 0]

NoFile == [kind |-> "none", status |-> "none", device |-> 0]

Away == [order |-> "none", step |-> "none", device |-> NoDevice, reply |-> NoGrant, met |-> NoFile]

NoVault == [agreement |-> 0, signing |-> 0, grant |-> NoGrant, issuer |-> 0, floor |-> 0, seen |-> 0]

\* A machine without an entitlement, or one that was activated under version 1.
EntitlementInit ==
  /\ client = [c \in Client |-> Away] /\ clock \in 1..2 /\ orders = 0 /\ harm = 0 /\ scars = {}
  /\ \/ vault = NoVault /\ file = NoFile /\ keys = 0 /\ server = [version |-> 1, live |-> TRUE, issuer |-> 1, device |-> 0]
     \/ /\ vault = [agreement |-> 1, signing |-> 1, grant |-> [version |-> 1, device |-> 1, issuer |-> 1], issuer |-> 1, floor |-> 1, seen |-> clock]
        /\ file = [kind |-> "device", status |-> "active", device |-> 1] /\ keys = 1
        /\ server = [version |-> 1, live |-> TRUE, issuer |-> 1, device |-> 1]

--------------------------------------------------------------------------------
(* What a command does next is its step; what follows depends on the command only where two share a function. *)

Next1(c) == client[c].step

\* Mutant of Installing: the status version is raised before the grant is replaced.
InstallingFloorFirst == [issuer |-> "floor", floor |-> "grant", grant |-> "seen", seen |-> "active", active |-> "end"]

Installing == [issuer |-> "grant", grant |-> "floor", floor |-> "seen", seen |-> "active", active |-> "end"]

\* Mutant of Revoking: the metadata says revoked and the grant stays.
RevokingByName == "revoked"

\* What a revocation writes first.
Revoking == "drop"

\* What follows a step that goes well, up to the writes of an installation.
Following(m) ==
  CASE m.step = "metadata" -> IF m.order = "load" THEN "open" ELSE "device"
    [] m.step \in {"device", "pending"} -> IF m.order = "activate" THEN "activation" ELSE "exchange"
    [] m.step = "agreement" -> "signing"
    [] m.step = "signing" -> "pending"
    [] m.step = "activation" -> "authorize"
    [] m.step = "drop" -> "revoked"
    [] m.step = "legacy" -> "answer"
    [] m.step = "answer" -> "licence"
    [] m.step \in DOMAIN Installing -> Installing[m.step]
    [] OTHER -> "end"

Proceeds(c, with) == client' = [client EXCEPT ![c] = [with EXCEPT !.step = Following(with)]]

Quits(c) == client' = [client EXCEPT ![c] = Away]

Orders == [activate |-> "device", sync |-> "metadata", load |-> "metadata", install |-> "licence", renew |-> "legacy"]

\* A command is admitted at any time; only the interplay of two that write is remembered.
StartOrder(c, order) ==
  /\ client[c] = Away /\ orders < MaxOrders /\ orders' = orders + 1
  /\ client' = [client EXCEPT ![c] = [Away EXCEPT !.order = order, !.step = Orders[order]]]
  /\ scars' = scars \union (IF order # "load" /\ \E d \in Client : client[d].order \notin {"none", "load"} THEN {"overlap"} ELSE {})
  /\ UNCHANGED <<vault, file, server, clock, keys, harm>>

\* readMetadata: a legacy licence is no metadata, and a torn file throws.
Metadata == IF file.kind = "device" THEN file ELSE NoFile

ReadMetadata(c) ==
  /\ Next1(c) = "metadata"
  /\ IF file.kind = "device" /\ file.status # "pending" THEN Proceeds(c, [client[c] EXCEPT !.met = file]) ELSE Quits(c)
  /\ UNCHANGED <<vault, file, server, clock, keys, orders, harm, scars>>

HasDevice == Metadata.device # 0 /\ vault.agreement # 0 /\ vault.signing # 0

\* prepareDevice: the stored pair, or a new one written key by key and then to the file.
PrepareDevice(c) ==
  /\ Next1(c) = "device"
  /\ IF file.kind = "torn" THEN Quits(c) /\ keys' = keys
     ELSE IF HasDevice
     THEN /\ Proceeds(c, [client[c] EXCEPT !.device = [public |-> file.device, agreement |-> vault.agreement, signing |-> vault.signing]])
          /\ keys' = keys
     ELSE /\ keys' = keys + 1
          /\ LET pair == [public |-> keys + 1, agreement |-> keys + 1, signing |-> keys + 1] IN
             client' = [client EXCEPT ![c] = [client[c] EXCEPT !.device = pair, !.step = "agreement"]]
  /\ UNCHANGED <<vault, file, server, clock, orders, harm, scars>>

\* The proof is signed with the private key of the pair the server is told.
Proves(device) == device.signing = device.public

\* Device activation: created, opened by the user, polled to completion; or denied, expired or out of reach.
Activation(c) ==
  LET d == client[c].device
      grant == [version |-> server.version, device |-> d.public, issuer |-> server.issuer] IN
  /\ Next1(c) = "activation"
  /\ \/ Quits(c) /\ server' = server
     \/ /\ server.live /\ Proves(d)
        /\ server' = [server EXCEPT !.device = d.public]
        /\ Proceeds(c, [client[c] EXCEPT !.reply = grant])
  /\ UNCHANGED <<vault, file, clock, keys, orders, harm, scars>>

\* The challenge and the sync of a known device.
Exchange(c) ==
  LET d == client[c].device
      grant == [version |-> server.version, device |-> d.public, issuer |-> server.issuer] IN
  /\ Next1(c) = "exchange"
  /\ \/ Quits(c)
     \/ /\ server.device = d.public /\ Proves(d)
        /\ client' = [client EXCEPT ![c] = [client[c] EXCEPT !.reply = grant, !.step = IF server.live THEN "authorize" ELSE Revoking]]
  /\ UNCHANGED <<vault, file, server, clock, keys, orders, harm, scars>>

\* Mutant of Admits: an older grant is accepted.
AdmitsOlder(grant, issuer, floor, device) == grant.issuer = issuer /\ grant.device = device.public /\ device.agreement = device.public

\* authorizeExternalKeyGrant as its callers depend on it: signer, version and the device that can open the envelope.
Admits(grant, issuer, floor, device) ==
  /\ grant.issuer = issuer /\ grant.version >= floor
  /\ grant.device = device.public /\ device.agreement = device.public

\* Authorised, and not yet at the end of its writes.
Installs(c) == Next1(c) \in DOMAIN Installing

\* installActivation reads the pinned issuer, or takes the one of the reply, and the stored status version.
Authorize(c) ==
  LET g == client[c].reply
      pin == IF vault.issuer = 0 THEN g.issuer ELSE vault.issuer IN
  /\ Next1(c) = "authorize"
  /\ IF Admits(g, pin, vault.floor, client[c].device)
     THEN /\ client' = [client EXCEPT ![c] = [client[c] EXCEPT !.step = IF vault.issuer = 0 THEN "issuer" ELSE Installing.issuer]]
          /\ scars' = scars \union (IF \E d \in Client \ {c} : Installs(d) THEN {"crossed"} ELSE {})
     ELSE Quits(c) /\ scars' = scars
  /\ UNCHANGED <<vault, file, server, clock, keys, orders, harm>>

\* The secret a step writes, and its value.
Secret(c) ==
  LET m == client[c] IN
  CASE Next1(c) = "agreement" -> <<"agreement", m.device.agreement>>
    [] Next1(c) = "signing" -> <<"signing", m.device.signing>>
    [] Next1(c) = "issuer" -> <<"issuer", m.reply.issuer>>
    [] Next1(c) = "grant" -> <<"grant", m.reply>>
    [] Next1(c) = "floor" -> <<"floor", m.reply.version>>
    [] Next1(c) = "seen" -> <<"seen", clock>>
    [] Next1(c) = "drop" -> <<"grant", NoGrant>>
    [] OTHER -> <<>>

\* A write of the secret store. The helper deletes the old item and adds the new: refused, timed out or killed in
\* between, the old value may be gone.
StoreSecret(c) ==
  /\ Secret(c) # <<>>
  /\ LET name == Secret(c)[1] IN
     \/ vault' = [vault EXCEPT ![name] = Secret(c)[2]] /\ Proceeds(c, client[c]) /\ UNCHANGED <<harm, scars>>
     \/ /\ harm < MaxHarm /\ harm' = harm + 1 /\ Quits(c)
        /\ \/ vault' = vault /\ scars' = scars
           \/ vault' = [vault EXCEPT ![name] = NoVault[name]] /\ scars' = scars \union {"lost"}
  /\ UNCHANGED <<file, server, clock, keys, orders>>

\* The file a step writes: prepareDevice's, installActivation's, the revoked metadata it had read, or a licence.
Written(c) ==
  CASE Next1(c) = "pending" -> [kind |-> "device", status |-> "pending", device |-> client[c].device.public]
    [] Next1(c) = "active" -> [kind |-> "device", status |-> "active", device |-> client[c].device.public]
    [] Next1(c) = "revoked" -> [client[c].met EXCEPT !.status = "revoked"]
    [] Next1(c) = "licence" -> [kind |-> "licence", status |-> "active", device |-> 0]
    [] OTHER -> NoFile

\* writeFileSync: a crash leaves the file cut short.
WriteFile(c) ==
  /\ Written(c) # NoFile
  /\ \/ file' = Written(c) /\ Proceeds(c, client[c]) /\ UNCHANGED <<harm, scars>>
     \/ /\ harm < MaxHarm /\ harm' = harm + 1 /\ Quits(c)
        /\ file' = [kind |-> "torn", status |-> "none", device |-> 0] /\ scars' = scars \union {"torn"}
  /\ UNCHANGED <<vault, server, clock, keys, orders>>

\* Mutant of ClockIsBehind: the clock may have moved back.
ClockIsBehindNever == FALSE

ClockIsBehind == clock < vault.seen

\* loadExternalAuthorization, from the metadata it read to the last seen time it writes.
MayOpen(c) ==
  /\ vault.grant # NoGrant /\ vault.agreement # 0 /\ vault.issuer # 0 /\ ~ClockIsBehind
  /\ Admits(vault.grant, vault.issuer, vault.floor, [public |-> client[c].met.device, agreement |-> vault.agreement])

Open(c) ==
  /\ Next1(c) = "open"
  /\ IF MayOpen(c) THEN Proceeds(c, client[c]) /\ vault' = [vault EXCEPT !.seen = Max({vault.seen, clock})]
     ELSE Quits(c) /\ vault' = vault
  /\ UNCHANGED <<file, server, clock, keys, orders, harm, scars>>

\* syncOneLicense: a legacy licence is read, the server asked, and whatever is at its path replaced.
ReadLegacy(c) ==
  /\ Next1(c) = "legacy"
  /\ IF file.kind = "licence" THEN Proceeds(c, client[c]) ELSE Quits(c)
  /\ UNCHANGED <<vault, file, server, clock, keys, orders, harm, scars>>

Answer(c) ==
  /\ Next1(c) = "answer" /\ (Proceeds(c, client[c]) \/ Quits(c))
  /\ UNCHANGED <<vault, file, server, clock, keys, orders, harm, scars>>

\* The command has nothing left to do.
Return(c) ==
  /\ Next1(c) = "end" /\ Quits(c)
  /\ UNCHANGED <<vault, file, server, clock, keys, orders, harm, scars>>

Die(c) ==
  /\ Next1(c) \notin {"none", "end"} /\ harm < MaxHarm /\ harm' = harm + 1 /\ Quits(c)
  /\ UNCHANGED <<vault, file, server, clock, keys, orders, scars>>

\* The server revokes or restores the account, changes its issuer key, or renews its status; a status has its version.
ServerChanges ==
  /\ server.version < MaxVersion
  /\ \/ server' = [server EXCEPT !.version = @ + 1, !.live = ~@]
     \/ server' = [server EXCEPT !.version = @ + 1, !.issuer = 3 - @]
     \/ server' = [server EXCEPT !.version = @ + 1]
  /\ UNCHANGED <<client, vault, file, clock, keys, orders, harm, scars>>

ClockChanges ==
  /\ harm < MaxHarm /\ harm' = harm + 1 /\ clock' \in 1..2 \ {clock}
  /\ UNCHANGED <<client, vault, file, server, keys, orders, scars>>

EntitlementStep(c) ==
  \/ \E order \in DOMAIN Orders : StartOrder(c, order)
  \/ ReadMetadata(c) \/ PrepareDevice(c) \/ Activation(c) \/ Exchange(c) \/ Authorize(c) \/ StoreSecret(c) \/ WriteFile(c)
  \/ Open(c) \/ ReadLegacy(c) \/ Answer(c) \/ Return(c) \/ Die(c)

EntitlementNext == (\E c \in Client : EntitlementStep(c)) \/ ServerChanges \/ ClockChanges

EntitlementSpec == EntitlementInit /\ [][EntitlementNext]_entitlementVars

--------------------------------------------------------------------------------

Quiet == \A c \in Client : client[c] = Away

\* The pair in the store is the pair the metadata names, so that another activation can succeed.
Repairable ==
  file.kind # "torn" /\ (HasDevice => vault.agreement = file.device /\ vault.signing = file.device)

\* What is stored can be loaded.
GrantIsLoadable ==
  /\ vault.grant.issuer = vault.issuer /\ vault.grant.version >= vault.floor
  /\ vault.grant.device = file.device /\ vault.agreement = file.device

\* A status that says active is one that can be loaded, but for a revocation that died between its two writes.
StatusIsTrue ==
  (file.kind = "device" /\ file.status = "active") => GrantIsLoadable \/ (harm > 0 /\ vault.grant = NoGrant)

\* A revocation that was written leaves nothing to load, but what a later activation stored before it died.
RevokedIsRevoked ==
  (file.kind = "device" /\ file.status = "revoked") => vault.grant = NoGrant \/ (harm > 0 /\ GrantIsLoadable)

\* prepareDevice, installActivation and the sync of a revocation between commands: with nothing lost, torn or
\* overlapping, the machine can be activated again, shows the status it can load, and keeps no revoked grant.
EntitlementInv ==
  (Quiet /\ scars = {}) => Repairable /\ RevokedIsRevoked /\ StatusIsTrue

\* A load succeeds only on a grant of the pinned issuer, for the device of the metadata, no older than the status
\* version stored, with the clock not behind; the stored status version falls, and the pinned issuer changes, only
\* by a lost write or where two installs crossed: an answer that was late is not installed.
GrantsOnlyMoveForward ==
  /\ \A c \in Client : (Next1(c) = "open" /\ client'[c].order = "load" /\ client'[c] # client[c]) =>
       /\ vault.grant.issuer = vault.issuer /\ vault.grant.version >= vault.floor /\ vault.grant.device = client[c].met.device
       /\ clock >= vault.seen
  /\ vault'.floor < vault.floor => "crossed" \in scars \/ "lost" \in scars'
  /\ (vault.issuer # 0 /\ vault'.issuer # vault.issuer) => "crossed" \in scars \/ "lost" \in scars'
================================================================================
