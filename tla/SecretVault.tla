------------------------------ MODULE SecretVault ------------------------------
(***************************************************************************)
(* The one Keychain item that holds every secret of the application        *)
(* (secure_store/vault.rs, vault_lock.rs, connection_settings.rs, on       *)
(* macOS).  A process owns the item while it holds the credential lease,   *)
(* loads it once, keeps a verified copy and writes the whole item for      *)
(* every change.  A write that is reported as failed may have landed, a    *)
(* read may fail, and a process may die between any two calls; the next    *)
(* one starts from what the Keychain holds.                                *)
(*                                                                         *)
(* Secrets are numbers, 0 is none.  The bytes of an item are its edition   *)
(* and what that edition carries; the lease stands for its file.           *)
(***************************************************************************)
EXTENDS Integers, FiniteSets

CONSTANTS
    App,            \* processes over one application root
    Beginnings,     \* what the Keychain holds at first: [item, legacy]
    Hashes,         \* the API hashes a person may enter
    Credentials,    \* the Discord credentials a sign-in may end with
    MaxVaultCalls,  \* calls in a behaviour
    MaxVaultFaults, \* Keychain or file calls that fail
    MaxLaunches     \* launches in a behaviour

VARIABLES
    item,           \* the item secret-vault-v1: [edition, has], edition 0 when absent
    legacy,         \* the three items of earlier builds, never deleted
    settings,       \* the settings file says that the setup is complete
    lease,          \* the holder of credentials.lock, "nobody" if none
    cache,          \* by process, CacheState: [state, vault, persisted, needsRead]
    doing,          \* by process, [step, kind, value, vault]: the call that holds the mutex
    minted,         \* keys generated so far
    vaultCalls, vaultFaults, launches,   \* counters
    handed,         \* history: by key, every value a caller was given
    told,           \* history: the hash and the credential last reported as stored
    newest          \* history: the highest edition the item has had

vaultVars == <<item, legacy, settings, lease, cache, doing, minted, vaultCalls, vaultFaults,
               launches, handed, told, newest>>
-----------------------------------------------------------------------------
DatabaseKeys == {"tdlib", "jobs"}
KeyNames == DatabaseKeys \cup {"index"}
Names == KeyNames \cup {"hash", "discord"}
Unsure == -1
Malformed == -2

\* SecretVault: its flags keep an item from being written in an older edition.
Empty == [has |-> [n \in Names |-> 0], two |-> FALSE, three |-> FALSE]

Just(names, vault) == [n \in Names |-> IF n \in names THEN vault.has[n] ELSE 0]

\* encode_secret_vault: the flat item of the first edition, or named entries.
Flat(vault) == [edition |-> 1, has |-> Just({"hash", "tdlib", "jobs"}, vault)]
Namespaced(vault) == [edition |-> 2, has |-> Just(Names \ {"discord"}, vault)]
NamespacedV3(vault) == [edition |-> 3, has |-> Just(Names, vault)]
Encoded(vault) == IF vault.three \/ vault.has["discord"] # 0 THEN NamespacedV3(vault)
                  ELSE IF vault.two \/ vault.has["index"] # 0 THEN Namespaced(vault)
                  ELSE Flat(vault)

\* decode_secret_vault; an item with anything this build does not know is refused.
FromFlat(i) == [Empty EXCEPT !.has = i.has]
FromNamespaced(i) == [Empty EXCEPT !.has = i.has, !.two = TRUE]
FromNamespacedV3(i) == [has |-> i.has, two |-> TRUE, three |-> TRUE]
Known(i) == i.edition \in 1..3
Decoded(i) == CASE i.edition = 1 -> FromFlat(i)
                [] i.edition = 2 -> FromNamespaced(i)
                [] i.edition = 3 -> FromNamespacedV3(i)

\* What an item can be: an edition holds what its encoding does, an item that is
\* absent holds nothing.
WellFormed(i) == /\ i.edition = 0 => i.has = Empty.has
                 /\ i.edition = 1 => i.has["index"] = 0
                 /\ i.edition \in 1..2 => i.has["discord"] = 0

\* A secret that is there is not 0.  An item of this or an earlier build was made
\* of what the builds before it had left, so it holds their keys.
ASSUME VaultAssumption ==
    /\ "nobody" \notin App
    /\ Hashes \subseteq Int \ {0} /\ Credentials \subseteq Int \ {0}
    /\ \A b \in Beginnings :
          /\ b.item \in [edition : Nat, has : [Names -> Int]] /\ WellFormed(b.item)
          /\ b.legacy \in [{"hash", "tdlib", "jobs"} -> Int]
          /\ \A n \in DatabaseKeys :
                Known(b.item) /\ b.legacy[n] # 0 => b.item.has[n] = b.legacy[n]

Unloaded == [state |-> "unloaded", vault |-> Empty, persisted |-> FALSE, needsRead |-> FALSE]
Ready(vault, persisted) ==
    [state |-> "ready", vault |-> vault, persisted |-> persisted, needsRead |-> FALSE]
NoCall == [step |-> "none", kind |-> "none", value |-> 0, vault |-> Empty]
Gone == [NoCall EXCEPT !.step = "gone"]
Closed == [NoCall EXCEPT !.step = "closed"]

VaultStart(beginning, started) ==
    /\ item = beginning.item /\ legacy = beginning.legacy /\ settings = FALSE
    /\ lease = "nobody" /\ cache = [p \in App |-> Unloaded] /\ doing = [p \in App |-> Gone]
    /\ minted = 0 /\ vaultCalls = 0 /\ vaultFaults = 0 /\ launches = started
    /\ handed = [n \in KeyNames |-> {}] /\ told = [n \in {"hash", "discord"} |-> Unsure]
    /\ newest = beginning.item.edition
VaultInit == \E beginning \in Beginnings : VaultStart(beginning, 0)
VaultIdle == VaultStart([item |-> [edition |-> 0, has |-> Empty.has],
                         legacy |-> [n \in {"hash", "tdlib", "jobs"} |-> 0]], MaxLaunches)
-----------------------------------------------------------------------------
\* How a call ends, and how it goes on.

EndCall(p) == doing' = [doing EXCEPT ![p] = NoCall]
Turns(p, step) == doing' = [doing EXCEPT ![p].step = step]
Cached(p, value) == cache' = [cache EXCEPT ![p] = value]
Faulty == vaultFaults < MaxVaultFaults /\ vaultFaults' = vaultFaults + 1
Flawless == UNCHANGED vaultFaults
Hands(name, key) == handed' = [handed EXCEPT ![name] = @ \cup {key}]
Vault(p) == cache[p].vault

\* application and bind_root, before anything is read.
Launch(p) ==
    /\ doing[p] = Gone /\ launches < MaxLaunches
    /\ launches' = launches + 1 /\ EndCall(p)
    /\ UNCHANGED <<item, legacy, settings, lease, cache, minted, vaultCalls, vaultFaults, handed,
                   told, newest>>

\* The calls: a key, the API hash with or without a new value (save of the
\* connection settings), the Discord credential, its erasure, and plain readings.
Calls == {[NoCall EXCEPT !.kind = n] : n \in KeyNames \cup {"settings", "forget", "look"}}
         \cup {[NoCall EXCEPT !.kind = "hash", !.value = v] : v \in Hashes}
         \cup {[NoCall EXCEPT !.kind = "discord", !.value = v] : v \in Credentials}

\* CredentialLease::acquire and with_ready
Leased(p) == lease \in {"nobody", p}
CallVault(p) ==
    /\ doing[p] = NoCall /\ vaultCalls < MaxVaultCalls
    /\ vaultCalls' = vaultCalls + 1
    /\ IF Leased(p)
       THEN /\ lease' = p
            /\ IF cache[p].state = "failed" THEN UNCHANGED doing
               ELSE \E c \in Calls : doing' = [doing EXCEPT ![p] =
                      [c EXCEPT !.step = IF cache[p].state = "unloaded" THEN "load" ELSE "act"]]
       ELSE UNCHANGED <<lease, doing>>
    /\ UNCHANGED <<item, legacy, settings, cache, minted, vaultFaults, launches, handed, told, newest>>

\* load_vault: the item, or what earlier builds left, which is written as an item.
Migrated == [Empty EXCEPT !.has = [n \in Names |-> IF n \in DOMAIN legacy THEN legacy[n] ELSE 0]]
Load(p) ==
    /\ doing[p].step = "load"
    /\ \/ /\ Faulty /\ Cached(p, [Unloaded EXCEPT !.state = "failed"]) /\ EndCall(p)
       \/ /\ Flawless
          /\ \/ /\ item.edition # 0 /\ Known(item)
                /\ Cached(p, Ready(Decoded(item), TRUE)) /\ Turns(p, "act")
             \/ /\ \/ item.edition # 0 /\ ~Known(item)
                   \/ item.edition = 0 /\ Malformed \in {legacy[n] : n \in DOMAIN legacy}
                /\ Cached(p, [Unloaded EXCEPT !.state = "failed"]) /\ EndCall(p)
             \/ /\ item.edition = 0 /\ \A n \in DOMAIN legacy : legacy[n] = 0
                /\ Cached(p, Ready(Empty, FALSE)) /\ Turns(p, "act")
             \/ /\ item.edition = 0 /\ \A n \in DOMAIN legacy : legacy[n] # Malformed
                /\ \E n \in DOMAIN legacy : legacy[n] # 0
                /\ Cached(p, [Ready(Migrated, FALSE) EXCEPT !.needsRead = TRUE])
                /\ doing' = [doing EXCEPT ![p].step = "migrate", ![p].vault = Migrated]
    /\ UNCHANGED <<item, legacy, settings, lease, minted, vaultCalls, launches, handed, told, newest>>
-----------------------------------------------------------------------------
\* What the copy answers without looking at the Keychain.

AnsweredByCopy(p) == \/ doing[p].kind \in {"look", "settings"}
                     \/ doing[p].kind \in DatabaseKeys /\ Vault(p).has[doing[p].kind] # 0
AnswerByCopy(p) ==
    /\ doing[p].step = "act" /\ AnsweredByCopy(p)
    /\ IF doing[p].kind = "settings" /\ Vault(p).has["hash"] # 0 THEN Turns(p, "file") ELSE EndCall(p)
    /\ IF doing[p].kind \in DatabaseKeys THEN Hands(doing[p].kind, Vault(p).has[doing[p].kind])
       ELSE UNCHANGED handed
    /\ UNCHANGED <<item, legacy, settings, lease, cache, minted, vaultCalls, vaultFaults, launches,
                   told, newest>>

\* reconcile, after a write whose outcome is unknown
Reconcile(p) ==
    /\ doing[p].step = "act" /\ ~AnsweredByCopy(p) /\ cache[p].needsRead
    /\ LET found == IF Known(item) THEN Decoded(item) ELSE Empty
           index == Vault(p).has["index"]
           refused == \/ item.edition > 3
                      \/ item.edition = 0 /\ cache[p].persisted
                      \/ index # 0 /\ index # found.has["index"]
       IN \/ /\ Faulty /\ EndCall(p) /\ UNCHANGED cache
          \/ /\ Flawless
             /\ IF refused THEN EndCall(p) /\ UNCHANGED cache
                ELSE Cached(p, Ready(found, item.edition # 0)) /\ UNCHANGED doing
    /\ UNCHANGED <<item, legacy, settings, lease, minted, vaultCalls, launches, handed, told, newest>>

\* What the call makes of the copy: a key that is missing, a new value, none.
Candidate(p) ==
    LET vault == Vault(p)
    IN CASE doing[p].kind = "hash" -> [vault EXCEPT !.has["hash"] = doing[p].value]
         [] doing[p].kind = "discord" ->
              [vault EXCEPT !.has["discord"] = doing[p].value, !.three = TRUE]
         [] doing[p].kind = "forget" -> [vault EXCEPT !.has["discord"] = 0, !.three = TRUE]
         [] doing[p].kind = "index" -> [vault EXCEPT !.has["index"] = minted + 1, !.two = TRUE]
         [] OTHER -> [vault EXCEPT !.has[doing[p].kind] = minted + 1]

\* A call that finds nothing to change returns; another one writes its candidate.
Decide(p) ==
    /\ doing[p].step = "act" /\ ~AnsweredByCopy(p) /\ ~cache[p].needsRead
    /\ LET kind == doing[p].kind
       IN \/ /\ kind = "index" /\ Vault(p).has["index"] # 0
             /\ Hands("index", Vault(p).has["index"]) /\ EndCall(p) /\ UNCHANGED <<minted, told>>
          \/ /\ kind = "forget" /\ Vault(p).has["discord"] = 0
             /\ told' = [told EXCEPT !["discord"] = 0] /\ EndCall(p) /\ UNCHANGED <<minted, handed>>
          \/ /\ kind = "index" => Vault(p).has["index"] = 0
             /\ kind = "forget" => Vault(p).has["discord"] # 0
             /\ doing' = [doing EXCEPT ![p].step = "write", ![p].vault = Candidate(p)]
             /\ minted' = IF kind \in KeyNames THEN minted + 1 ELSE minted
             /\ UNCHANGED <<handed, told>>
    /\ UNCHANGED <<item, legacy, settings, lease, cache, vaultCalls, vaultFaults, launches, newest>>
-----------------------------------------------------------------------------
\* commit: the copy stays as it is until the item has been read back.

Uncertain_Optimistic(p) == Cached(p, [cache[p] EXCEPT !.needsRead = TRUE, !.vault = doing[p].vault])
Uncertain(p) == Cached(p, [cache[p] EXCEPT !.needsRead = TRUE])

Doubt(p) == told' = CASE doing[p].kind = "hash" -> [told EXCEPT !["hash"] = Unsure]
                      [] doing[p].kind \in {"discord", "forget"} -> [told EXCEPT !["discord"] = Unsure]
                      [] OTHER -> told
\* A migration that fails leaves the process without a vault.
GivesUp(p) == /\ EndCall(p)
              /\ IF doing[p].step \in {"migrate", "migrated"}
                 THEN Cached(p, [Unloaded EXCEPT !.state = "failed"]) ELSE Uncertain(p)

WriteItem(p) ==
    /\ doing[p].step \in {"write", "migrate"}
    /\ item' \in {item, Encoded(doing[p].vault)}
    /\ newest' = IF item'.edition > newest THEN item'.edition ELSE newest
    /\ \/ /\ Flawless /\ item' = Encoded(doing[p].vault) /\ Uncertain(p)
          /\ Turns(p, IF doing[p].step = "write" THEN "written" ELSE "migrated")
       \/ Faulty /\ GivesUp(p)
    /\ Doubt(p)
    /\ UNCHANGED <<legacy, settings, lease, minted, vaultCalls, launches, handed>>

ReadBack(p) ==
    /\ doing[p].step \in {"written", "migrated"}
    /\ \/ /\ Faulty /\ GivesUp(p) /\ UNCHANGED <<handed, told>>
       \/ /\ Flawless
          /\ IF item # Encoded(doing[p].vault)
             THEN GivesUp(p) /\ UNCHANGED <<handed, told>>
             ELSE /\ Cached(p, Ready(doing[p].vault, TRUE))
                  /\ IF doing[p].step = "migrated"
                     THEN Turns(p, "act") /\ UNCHANGED <<handed, told>>
                     ELSE /\ IF doing[p].kind = "hash" THEN Turns(p, "file") ELSE EndCall(p)
                          /\ IF doing[p].kind \in KeyNames
                             THEN Hands(doing[p].kind, doing[p].vault.has[doing[p].kind])
                             ELSE UNCHANGED handed
                          /\ told' = CASE doing[p].kind = "hash" ->
                                              [told EXCEPT !["hash"] = doing[p].value]
                                       [] doing[p].kind \in {"discord", "forget"} ->
                                              [told EXCEPT !["discord"] = doing[p].value]
                                       [] OTHER -> told
    /\ UNCHANGED <<item, legacy, settings, lease, minted, vaultCalls, launches, newest>>

\* write_settings, a rename after the hash is in its place
WriteSettings(p) ==
    /\ doing[p].step = "file" /\ EndCall(p)
    /\ \/ Faulty /\ UNCHANGED settings
       \/ Flawless /\ settings' = TRUE
    /\ UNCHANGED <<item, legacy, lease, cache, minted, vaultCalls, launches, handed, told, newest>>

\* clear waits for the mutex and is for good; a death is at any time.
Leave(p) == /\ cache' = [cache EXCEPT ![p] = Unloaded]
            /\ lease' = IF lease = p THEN "nobody" ELSE lease
            /\ UNCHANGED <<item, legacy, settings, minted, vaultCalls, vaultFaults, launches, handed,
                           told, newest>>
Clear(p) == /\ doing[p] = NoCall
            /\ doing' = [doing EXCEPT ![p] = Closed] /\ Leave(p)
Die(p) == /\ doing[p] # Gone
          /\ doing' = [doing EXCEPT ![p] = Gone] /\ Leave(p)

VaultNext == \E p \in App :
    \/ Launch(p) \/ CallVault(p) \/ Load(p) \/ AnswerByCopy(p) \/ Reconcile(p) \/ Decide(p)
    \/ WriteItem(p) \/ ReadBack(p) \/ WriteSettings(p) \/ Clear(p) \/ Die(p)

VaultSpec == VaultInit /\ [][VaultNext]_vaultVars
-----------------------------------------------------------------------------
Held == IF item.edition = 0 THEN Empty.has ELSE item.has

\* A secret that was given out is kept.  Every value of a key that any process was
\* ever given is the one in the Keychain - so it is one value, of whatever process
\* or launch, and the one an earlier build had if there was one; the item is never
\* written in an older edition, nor at all if this build does not know it; the hash
\* and the credential are what was last reported as stored or erased; and a setup
\* that is complete has its hash.  Writes may land although they fail, and
\* processes may die and start over (vault.rs).
SecretsAreKept ==
    /\ \A n \in KeyNames : \A key \in handed[n] :
          /\ Held[n] = key
          /\ n \in DOMAIN legacy /\ legacy[n] # 0 => key = legacy[n]
    /\ item.edition = newest
    /\ \A n \in DOMAIN told : told[n] # Unsure => Held[n] = told[n]
    /\ settings => Held["hash"] # 0
=============================================================================
