------------------------------- MODULE ProtectAsset -------------------------------
(***************************************************************************)
(* kdna protect, unlock and recover of retired/src/cmds/protect.js: each   *)
(* reads an asset, rebuilds it in a temporary directory and packs it to a  *)
(* path that may be the input's, while other commands do the same.  The    *)
(* ciphers, the reader and pack are Core's: an asset is opened by its      *)
(* password or by its recovery code, and a pack under way shows as a torn  *)
(* file.                                                                   *)
(***************************************************************************)
EXTENDS Integers, FiniteSets

CONSTANTS
  Keeper,         \* processes
  Place,          \* paths of assets
  Password,
  MaxCommands,    \* bound on the commands begun
  MaxMisfortunes  \* bound on crashes, failed writes and failed removals

ASSUME ProtectAssumption == MaxCommands \in Nat /\ MaxMisfortunes \in Nat /\ Password # {}

VARIABLES
  assets,      \* assets[x]: the asset at path x
  writes,      \* writes[x]: how often a pack has begun or ended there (history)
  keeper,      \* keeper[k]: the command under way
  dir,         \* dir[k]: what its temporary directory holds: "none", "cipher", "plain"
  codes,       \* the number of recovery codes made
  told,        \* what the user was told of finished assets (history)
  left,        \* the number of directories with plaintext that nobody will remove
  commands, misfortunes

protectVars == <<assets, writes, keeper, dir, codes, told, left, commands, misfortunes>>

\* The access that the manifest states and whether the payload is encrypted are kept apart.
Asset(kind, access, locked, profile, password, code, body) ==
  [kind |-> kind, access |-> access, locked |-> locked, profile |-> profile, password |-> password, code |-> code,
   body |-> body]

NoAsset == Asset("none", "public", FALSE, "none", "none", 0, 0)
Torn    == Asset("torn", "public", FALSE, "none", "none", 0, 0)
Public(body) == Asset("whole", "public", FALSE, "none", "none", 0, body)
Locked(body, profile, code) == Asset("whole", "licensed", TRUE, profile, CHOOSE w \in Password : TRUE, code, body)

\* A process with a command, or with none.
Command(verb, at, file, out, password, code) ==
  [verb |-> verb, at |-> at, file |-> file, out |-> out, password |-> password, code |-> code, profile |-> "none",
   made |-> NoAsset, fresh |-> 0, source |-> NoAsset, begun |-> 0]

AtEase == Command("none", "rest", "none", "none", "none", 0)

ProtectInit ==
  /\ assets \in [Place -> {NoAsset, Public(1), Locked(2, "scrypt", 0), Locked(3, "argon2id", 1)}]
  /\ \E x \in Place : assets[x] # NoAsset
  /\ writes = [x \in Place |-> 0] /\ keeper = [k \in Keeper |-> AtEase] /\ dir = [k \in Keeper |-> "none"]
  /\ codes = 1 /\ told = {} /\ left = 0 /\ commands = 0 /\ misfortunes = 0

--------------------------------------------------------------------------------

Goes(k, with) == keeper' = [keeper EXCEPT ![k] = with]

\* The arguments are read, the file exists, the password and the code are typed in.
BeginCommand(k) ==
  /\ keeper[k].at = "rest" /\ commands < MaxCommands /\ commands' = commands + 1
  /\ \E verb \in {"protect", "unlock", "show", "recover"}, x, y \in Place, w \in Password,
       c \in 1..codes :
       /\ assets[x] # NoAsset /\ (verb = "show" => x = y) /\ (verb # "recover" => c = 1)
       /\ Goes(k, Command(verb, "asked", x, y, w, c))
  /\ UNCHANGED <<assets, writes, dir, codes, told, left, misfortunes>>

Input(k) == assets[keeper[k].file]

\* fresh is the new recovery code, 0 for none.
Staged(k, asset, fresh, holds) ==
  /\ Goes(k, [keeper[k] EXCEPT !.at = "staged", !.made = asset, !.fresh = fresh, !.source = Input(k)])
  /\ dir' = [dir EXCEPT ![k] = holds]

Ended(k) == Goes(k, AtEase) /\ UNCHANGED <<dir, codes>>

\* Mutant of Protected: the payload stays readable.
ProtectedManifestOnly(asset, w, c) == Asset("whole", "licensed", FALSE, "argon2id", w, c, asset.body)

Protected(asset, w, c) == Asset("whole", "licensed", TRUE, "argon2id", w, c, asset.body)

\* cmdProtect: everything is taken from one opening of the file.
OpenToProtect(k) ==
  /\ keeper[k].at = "asked" /\ keeper[k].verb = "protect"
  /\ IF Input(k).kind = "whole" /\ Input(k).access # "licensed"
     THEN codes' = codes + 1 /\ Staged(k, Protected(Input(k), keeper[k].password, codes + 1), codes + 1, "cipher")
     ELSE Ended(k)
  /\ UNCHANGED <<assets, writes, told, left, commands, misfortunes>>

\* Mutant of Recovered: the recovery slot of the input is kept.
RecoveredOldSlot(asset, w, c) == [asset EXCEPT !.profile = "argon2id", !.password = w]

Recovered(asset, w, c) == Asset(asset.kind, asset.access, asset.locked, "argon2id", w, c, asset.body)

\* cmdRecover: an asset of the scrypt profile has no recovery slot, a wrong code does not decrypt.
OpenToRecover(k) ==
  /\ keeper[k].at = "asked" /\ keeper[k].verb = "recover"
  /\ IF Input(k).kind = "whole" /\ Input(k).access = "licensed" /\ Input(k).profile # "scrypt" /\ Input(k).code = keeper[k].code
     THEN codes' = codes + 1 /\ Staged(k, Recovered(Input(k), keeper[k].password, codes + 1), codes + 1, "cipher")
     ELSE Ended(k)
  /\ UNCHANGED <<assets, writes, told, left, commands, misfortunes>>

\* cmdUnlock opens the file three times: for its access and profile,
OpenToUnlock(k) ==
  /\ keeper[k].at = "asked" /\ keeper[k].verb \in {"unlock", "show"}
  /\ IF Input(k).kind = "whole" /\ Input(k).access = "licensed"
     THEN Goes(k, [keeper[k] EXCEPT !.at = "checked", !.profile = Input(k).profile]) /\ UNCHANGED <<dir, codes>>
     ELSE Ended(k)
  /\ UNCHANGED <<assets, writes, told, left, commands, misfortunes>>

\* then for loadAuthorized, whose result a command without --out prints,
LoadAuthorized(k) ==
  /\ keeper[k].at = "checked"
  /\ IF Input(k).kind = "whole" /\ (Input(k).locked => Input(k).password = keeper[k].password) /\ keeper[k].verb = "unlock"
     THEN Goes(k, [keeper[k] EXCEPT !.at = "authorized"]) /\ UNCHANGED <<dir, codes>>
     ELSE Ended(k)
  /\ UNCHANGED <<assets, writes, told, left, commands, misfortunes>>

\* Mutant of Decrypts: what was authorized at the second opening is taken for the third.
DecryptsAsAuthorized(asset, profile, w) == TRUE

\* The decryptor is the one of the profile first read, the entries to decrypt are those of the manifest last read.
Decrypts(asset, profile, w) == asset.locked => asset.profile = profile /\ asset.password = w

\* Mutant of Unlocked: the entries are copied, and only the manifest is made public.
UnlockedByName(asset) == [asset EXCEPT !.access = "public", !.profile = "none"]

Unlocked(asset) == Public(asset.body)

\* and again for what it writes; the directory is there before the decryption, which may fail.
OpenAgain(k) ==
  /\ keeper[k].at = "authorized" /\ UNCHANGED codes
  /\ IF Input(k).kind # "whole" THEN Ended(k)
     ELSE IF Decrypts(Input(k), keeper[k].profile, keeper[k].password) THEN Staged(k, Unlocked(Input(k)), 0, "plain")
     ELSE Goes(k, [keeper[k] EXCEPT !.at = "cleaning"]) /\ dir' = [dir EXCEPT ![k] = "cipher"]
  /\ UNCHANGED <<assets, writes, told, left, commands, misfortunes>>

--------------------------------------------------------------------------------

Wrote(x, asset) == assets' = [assets EXCEPT ![x] = asset] /\ writes' = [writes EXCEPT ![x] = writes[x] + 1]

BeginPack(k) ==
  /\ keeper[k].at = "staged"
  /\ \/ /\ Wrote(keeper[k].out, Torn) /\ UNCHANGED misfortunes
        /\ Goes(k, [keeper[k] EXCEPT !.at = "packing", !.begun = writes[keeper[k].out] + 1])
     \/ /\ misfortunes < MaxMisfortunes /\ misfortunes' = misfortunes + 1 /\ UNCHANGED <<assets, writes>>
        /\ Goes(k, [keeper[k] EXCEPT !.at = "cleaning", !.made = NoAsset])
  /\ UNCHANGED <<dir, codes, told, left, commands>>

\* Two packs that overlap may leave a torn file.
EndPack(k) ==
  /\ keeper[k].at = "packing"
  /\ LET out == keeper[k].out IN
     \/ Wrote(out, keeper[k].made) /\ UNCHANGED misfortunes /\ Goes(k, [keeper[k] EXCEPT !.at = "cleaning", !.begun = writes[out] + 1])
     \/ /\ writes[out] # keeper[k].begun /\ Wrote(out, Torn) /\ UNCHANGED misfortunes
        /\ Goes(k, [keeper[k] EXCEPT !.at = "cleaning", !.begun = 0])
     \/ /\ misfortunes < MaxMisfortunes /\ misfortunes' = misfortunes + 1 /\ UNCHANGED <<assets, writes>>
        /\ Goes(k, [keeper[k] EXCEPT !.at = "cleaning", !.made = NoAsset])
  /\ UNCHANGED <<dir, codes, told, left, commands>>

Plaintext(k) == IF dir[k] = "plain" THEN 1 ELSE 0

\* Mutant of Clean: the directory is removed behind a pack that succeeded only.
CleanOnSuccess(k) ==
  /\ keeper[k].at = "cleaning"
  /\ dir' = IF keeper[k].made = NoAsset THEN dir ELSE [dir EXCEPT ![k] = "none"]
  /\ Goes(k, IF keeper[k].made = NoAsset THEN AtEase ELSE [keeper[k] EXCEPT !.at = "cleaned"])
  /\ UNCHANGED <<assets, writes, codes, told, left, commands, misfortunes>>

\* finally: a directory that cannot be removed is a warning.
Clean(k) ==
  /\ keeper[k].at = "cleaning" /\ dir' = [dir EXCEPT ![k] = "none"]
  /\ \/ UNCHANGED <<left, misfortunes>>
     \/ misfortunes < MaxMisfortunes /\ misfortunes' = misfortunes + 1 /\ left' = left + Plaintext(k)
  /\ Goes(k, IF keeper[k].made = NoAsset THEN AtEase ELSE [keeper[k] EXCEPT !.at = "cleaned"])
  /\ UNCHANGED <<assets, writes, codes, told, commands>>

\* The lines that name the output and show the new recovery code, once.
Tell(k) ==
  /\ keeper[k].at = "cleaned" /\ Goes(k, AtEase)
  /\ told' = told \union {[out |-> keeper[k].out, at |-> keeper[k].begun, verb |-> keeper[k].verb, password |-> keeper[k].password,
                          old |-> keeper[k].code, code |-> keeper[k].fresh, body |-> keeper[k].source.body]}
  /\ UNCHANGED <<assets, writes, dir, codes, left, commands, misfortunes>>

Killed(k) ==
  /\ keeper[k].at # "rest" /\ misfortunes < MaxMisfortunes /\ misfortunes' = misfortunes + 1
  /\ Goes(k, AtEase) /\ dir' = [dir EXCEPT ![k] = "none"] /\ left' = left + Plaintext(k)
  /\ UNCHANGED <<assets, writes, codes, told, commands>>

ProtectNext ==
  \E k \in Keeper :
    \/ BeginCommand(k) \/ OpenToProtect(k) \/ OpenToRecover(k) \/ OpenToUnlock(k) \/ LoadAuthorized(k) \/ OpenAgain(k)
    \/ BeginPack(k) \/ EndPack(k) \/ Clean(k) \/ Tell(k) \/ Killed(k)

--------------------------------------------------------------------------------

\* What a manifest says of the payload is so: a licensed asset's is encrypted, a public one's is not.
AccessIsReal ==
  \A x \in Place : assets[x].kind = "whole" =>
    /\ assets[x].locked <=> assets[x].access = "licensed"
    /\ assets[x].locked <=> assets[x].profile # "none"

\* What a command told holds as long as nobody else has written its output: the password and the code that it showed open
\* the payload that it read, and the code it was given is no longer valid.
WhatWasToldOpens ==
  \A t \in told : writes[t.out] = t.at =>
    /\ assets[t.out].kind = "whole" /\ assets[t.out].body = t.body
    /\ t.verb = "unlock" => ~assets[t.out].locked
    /\ t.verb # "unlock" => assets[t.out].password = t.password /\ assets[t.out].code = t.code
    /\ t.verb = "recover" => assets[t.out].code # t.old

\* A payload is decrypted to the disk only by the password of the asset it was read from, whatever replaced the file
\* between two openings; and plaintext stays in a temporary directory only behind a crash or a failed removal.
PlaintextIsEarned ==
  /\ \A k \in Keeper : dir[k] = "plain" =>
       keeper[k].at # "rest" /\ (keeper[k].source.locked => keeper[k].source.password = keeper[k].password)
  /\ \A k \in Keeper : keeper[k].at = "rest" => dir[k] = "none"
  /\ left <= misfortunes

ProtectionHolds == AccessIsReal /\ WhatWasToldOpens /\ PlaintextIsEarned
================================================================================
