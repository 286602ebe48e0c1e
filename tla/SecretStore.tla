------------------------------- MODULE SecretStore -------------------------------
(***************************************************************************)
(* The credential store of retired/src/secret-store.js, for one name: each *)
(* call picks a backend anew, and the keychain replaces a secret by        *)
(* deleting and adding it in a helper process that may be cut off.         *)
(***************************************************************************)
EXTENDS Naturals, FiniteSets

CONSTANTS
  Caller,      \* processes that use the store
  MaxUses,     \* bound on the calls
  MaxTroubles  \* bound on changes of the environment and on helpers cut off

ASSUME SecretAssumption == MaxUses \in Nat /\ MaxTroubles \in Nat

VARIABLES
  host,      \* platform, KDNA_SECRET_STORE_BACKEND, whether NODE_ENV is test
  usable,    \* the credential tools that work now
  use,       \* use[c]: the call under way
  helper,    \* helper[c]: keychainHelperState, which a process asks once
  secrets,   \* secrets[b]: the secret in backend b
  possible,  \* possible[b]: what it may be by what callers were told (history)
  answer,    \* the last completed read: backend, answer and what was possible (history)
  uses, troubles

secretVars == <<host, usable, use, helper, secrets, possible, answer, uses, troubles>>

\* A secret, the same ending with a newline and with two, another secret, the empty text.
Texts == {"key", "key+", "key++", "other", ""}

Nothing == "nothing"

Backend == {"keychain", "secret-service", "pass", "legacy-file-readonly", "env", "memory"}

LinuxTool == {"secret-service", "pass"}

Tool == {"keychain"} \union LinuxTool

Resting == [verb |-> "none", backend |-> "none", value |-> Nothing, step |-> "none", alone |-> TRUE]

NoAnswer == [backend |-> "none", value |-> Nothing, possible |-> {}]

SecretInit ==
  /\ host \in [platform : {"linux"}, forced : {"", "file", "env", "memory", "pass"}, test : {FALSE}]
       \union {[platform |-> "darwin", forced |-> "", test |-> FALSE], [platform |-> "linux", forced |-> "memory", test |-> TRUE]}
  /\ usable \in {{"keychain"}, {"secret-service", "pass"}, {"pass"}, {}}
  /\ use = [c \in Caller |-> Resting] /\ helper = [c \in Caller |-> "unknown"]
  /\ secrets = [b \in Backend |-> IF b \in {"legacy-file-readonly", "env"} THEN "key+" ELSE Nothing]
  /\ possible = [b \in Backend |-> {secrets[b]}] /\ answer = NoAnswer /\ uses = 0 /\ troubles = 0

--------------------------------------------------------------------------------

PickBackend ==
  CASE host.forced = "file" -> "legacy-file-readonly"
    [] host.forced \notin {"", "file"} -> host.forced
    [] host.forced = "" /\ host.platform = "darwin" -> "keychain"
    [] host.forced = "" /\ host.platform = "linux" /\ "secret-service" \in usable -> "secret-service"
    [] host.forced = "" /\ host.platform = "linux" /\ "secret-service" \notin usable /\ "pass" \in usable -> "pass"
    [] OTHER -> "unavailable"

\* assertTestBackend, and an unavailable backend.
Admitted(b) == b # "unavailable" /\ (b = "memory" => host.test)

Running == {c \in Caller : use[c].verb # "none"}

StartUse(c) ==
  /\ use[c] = Resting /\ uses < MaxUses /\ uses' = uses + 1
  /\ \E verb \in {"get", "set", "delete"} : \E value \in (IF verb = "set" THEN Texts ELSE {Nothing}) :
       IF ~Admitted(PickBackend) THEN UNCHANGED <<use, possible>>
       ELSE LET b == PickBackend
                began == [verb |-> verb, backend |-> b, value |-> value, step |-> "call", alone |-> Running = {}] IN
            /\ use' = [d \in Caller |-> IF d = c THEN began ELSE [use[d] EXCEPT !.alone = @ /\ use[d] = Resting]]
            /\ possible' = IF verb = "get" THEN possible
                           ELSE [possible EXCEPT ![b] = @ \union {value, Nothing}]
  /\ UNCHANGED <<host, usable, helper, secrets, answer, troubles>>

\* What a backend can make of a secret it has: without all white space at its end and never empty, without its last
\* newline, or as it is.
Shown(b, v) ==
  CASE b \in LinuxTool /\ v \in {"key+", "key++"} -> "key"
    [] b \in LinuxTool /\ v = "" -> Nothing
    [] b = "legacy-file-readonly" /\ v = "key+" -> "key"
    [] b = "legacy-file-readonly" /\ v = "key++" -> "key+"
    [] OTHER -> v

Calls(c, b) == use[c].step = "call" /\ use[c].backend = b

ReadOnly(b) == b \in {"legacy-file-readonly", "env"}

\* keychainHelperAvailable asks, and compiles, once; the others are tried again with every call.
Works(c, b) == b \notin Tool \/ (b \in usable /\ (b = "keychain" => helper[c] # "no"))

Ends(c) == use' = [use EXCEPT ![c] = Resting]

Fails(c) ==
  \E b \in Backend :
    /\ Calls(c, b) /\ Ends(c)
    /\ ~Works(c, b) \/ (ReadOnly(b) /\ use[c].verb = "set") \/ (b = "env" /\ use[c].verb = "delete")
         \/ (b = "keychain" /\ use[c].verb = "set" /\ use[c].value = "")
    /\ helper' = IF b = "keychain" /\ helper[c] = "unknown" /\ b \notin usable THEN [helper EXCEPT ![c] = "no"] ELSE helper
    /\ UNCHANGED <<host, usable, secrets, possible, answer, uses, troubles>>

\* A tool that does not work may say so with the exit status that stands for a secret that is not there.
SaysNotThere(c, b) == Calls(c, b) /\ b \in LinuxTool /\ ~Works(c, b)

Learns(c, b) == helper' = IF b = "keychain" THEN [helper EXCEPT ![c] = "yes"] ELSE helper

GetSecret(c) ==
  \E b \in Backend :
    /\ Calls(c, b) /\ use[c].verb = "get" /\ Works(c, b) /\ Ends(c) /\ Learns(c, b)
    /\ answer' = [backend |-> b, value |-> Shown(b, secrets[b]), possible |-> possible[b]]
    /\ UNCHANGED <<host, usable, secrets, possible, uses, troubles>>

\* Of pass the exit status is enough; secret-tool has to be silent, too, and is not when it fails.
FindsNone(c) ==
  /\ use[c].verb = "get" /\ SaysNotThere(c, "pass") /\ Ends(c)
  /\ answer' = [backend |-> "pass", value |-> Nothing, possible |-> possible["pass"]]
  /\ UNCHANGED <<host, usable, helper, secrets, possible, uses, troubles>>

\* Mutant of MayWrite: the plaintext files of old can be written.
MayWriteFile(c, b) == use[c].verb = "set" /\ b # "env" /\ Works(c, b)

MayWrite(c, b) == use[c].verb = "set" /\ ~ReadOnly(b) /\ Works(c, b)

\* The keychain deletes first; the others replace. Whether the caller hears of it comes after.
SetSecret(c) ==
  \E b \in Backend :
    /\ Calls(c, b) /\ MayWrite(c, b) /\ (b = "keychain" => use[c].value # "") /\ Learns(c, b)
    /\ secrets' = [secrets EXCEPT ![b] = IF b = "keychain" THEN Nothing ELSE use[c].value]
    /\ use' = [use EXCEPT ![c].step = IF b = "keychain" THEN "add" ELSE "told"]
    /\ UNCHANGED <<host, usable, possible, answer, uses, troubles>>

\* Mutant of AddSecret: an item that another process has added meanwhile is taken for ours.
AddSecretOver(c) ==
  /\ use[c].step = "add" /\ use' = [use EXCEPT ![c].step = "told", ![c].alone = TRUE]
  /\ secrets' = [secrets EXCEPT !["keychain"] = IF @ = Nothing THEN use[c].value ELSE @]
  /\ UNCHANGED <<host, usable, helper, possible, answer, uses, troubles>>

\* SecItemAdd refuses an item that is there again.
AddSecret(c) ==
  /\ use[c].step = "add"
  /\ IF secrets["keychain"] = Nothing
     THEN secrets' = [secrets EXCEPT !["keychain"] = use[c].value] /\ use' = [use EXCEPT ![c].step = "told"]
     ELSE secrets' = secrets /\ Ends(c)
  /\ UNCHANGED <<host, usable, helper, possible, answer, uses, troubles>>

\* An item that is not there is deleted, too.
DeleteSecret(c) ==
  \E b \in Backend :
    /\ Calls(c, b) /\ use[c].verb = "delete" /\ b # "env" /\ Works(c, b) /\ Learns(c, b)
    /\ secrets' = [secrets EXCEPT ![b] = Nothing] /\ use' = [use EXCEPT ![c].step = "told"]
    /\ UNCHANGED <<host, usable, possible, answer, uses, troubles>>

\* Neither tool of Linux is asked why it has not deleted: the secret stays, and the caller hears of a deletion.
KeepsSecret(c) ==
  /\ use[c].verb = "delete" /\ \E b \in LinuxTool : SaysNotThere(c, b)
  /\ use' = [use EXCEPT ![c].step = "told"]
  /\ UNCHANGED <<host, usable, helper, secrets, possible, answer, uses, troubles>>

\* Whether what the caller is told of its call proves anything.
TellsTruth(u) == u.alone /\ (u.verb = "delete" => u.backend \notin LinuxTool)

IsTold(c) ==
  /\ use[c].step = "told" /\ Ends(c)
  /\ possible' = IF TellsTruth(use[c]) THEN [possible EXCEPT ![use[c].backend] = {use[c].value}] ELSE possible
  /\ UNCHANGED <<host, usable, helper, secrets, answer, uses, troubles>>

Trouble == troubles < MaxTroubles /\ troubles' = troubles + 1

\* The helper does not answer in time, before or after it has done its work; the caller is told a failure.
CutOff(c) ==
  /\ use[c].step \in {"add", "told"} /\ use[c].backend = "keychain" /\ Trouble /\ Ends(c)
  /\ UNCHANGED <<host, usable, helper, secrets, possible, answer, uses>>

\* A session bus, a tool or the compiler comes or goes.
EnvironmentMoves ==
  /\ Trouble
  /\ \E t \in Tool : usable' = IF t \in usable THEN usable \ {t} ELSE usable \union {t}
  /\ UNCHANGED <<host, use, helper, secrets, possible, answer, uses>>

SecretNext ==
  \/ \E c \in Caller :
       \/ StartUse(c) \/ Fails(c) \/ GetSecret(c) \/ FindsNone(c) \/ SetSecret(c) \/ AddSecret(c)
       \/ DeleteSecret(c) \/ KeepsSecret(c) \/ IsTold(c) \/ CutOff(c)
  \/ EnvironmentMoves

SecretSpec == SecretInit /\ [][SecretNext]_secretVars

--------------------------------------------------------------------------------

\* What a caller may read of a secret: it, or what is left of it without white space at its end.
Readable(v) ==
  CASE v = "key+" -> {"key+", "key"}
    [] v = "key++" -> {"key++", "key+", "key"}
    [] v = "" -> {"", Nothing}
    [] OTHER -> {v}

\* A secret is what it was last set to or deleted as far as its callers were told; after calls that failed or overlapped
\* it is one of theirs, or gone. A deletion that secret-tool or pass was asked for proves nothing: delete() takes every exit
\* status 1 for done, and the secret may be there still. A read answers that secret, up to white space at its end, and not
\* the secret of another backend; only that pass has none is no proof, because get() takes every exit status 1 for that.
SecretsAreAsTold ==
  /\ \A b \in Backend : secrets[b] \in possible[b]
  /\ answer.backend # "none" =>
       \/ \E w \in answer.possible : answer.value \in Readable(w)
       \/ answer.backend = "pass" /\ answer.value = Nothing

\* "There is no plaintext fallback": whichever tools come and go, the files of old only lose secrets, and memory holds some
\* only in tests.
NoPlaintext ==
  /\ secrets'["legacy-file-readonly"] \in {secrets["legacy-file-readonly"], Nothing}
  /\ secrets'["memory"] # secrets["memory"] => host.test /\ host.forced = "memory"
================================================================================
