----------------------------- MODULE RulesProofs -----------------------------
(***************************************************************************)
(* Proofs about the vault, three of the clients of the providers, the      *)
(* reader of exports, the migration of an earlier store and the plans for  *)
(* Telegram, for any processes, workers, calls, chats, messages, files,    *)
(* stores, rights of an account and bounds:                                *)
(* the vault keeps every secret it has given out; what the gateway's       *)
(* catalog shows is the server's or is marked to be looked at again; the   *)
(* Discord remediation adapter deletes only what it has seen and the owner *)
(* has reviewed; the calls of the delete client exclude each other channel *)
(* by channel although the map of locks is pruned, what they confirm is    *)
(* absent, and no retry deletes what was edited before it; what an         *)
(* export's reader says is complete is what was inspected, although        *)
(* anybody may replace the file between two reads; a migrated history is   *)
(* the earlier store's, job by job; and what is prepared of a Telegram     *)
(* chat is what was offered, and what is approved is what runs.            *)
(***************************************************************************)
EXTENDS SecretVault, TelegramCatalog, DiscordRemediation, DiscordDelete, DiscordArchive,
        LegacyMigration, TelegramPlanning, FiniteSetTheorems, WellFoundedInduction, TLAPS

-----------------------------------------------------------------------------
(* The vault: an item, its copies, and the calls that are under way.        *)

VaultForm == [has : [Names -> Int], two : BOOLEAN, three : BOOLEAN]
ItemForm == [edition : Nat, has : [Names -> Int]]
VaultRest == {"none", "gone", "closed"}
CallKinds == Names \cup {"none", "settings", "forget", "look"}
StepNames == VaultRest \cup {"load", "act", "write", "written", "migrate", "migrated", "file"}
CallForm == [step : StepNames, kind : CallKinds, value : Int, vault : VaultForm]
CacheForm == [state : {"unloaded", "ready", "failed"}, vault : VaultForm,
              persisted : BOOLEAN, needsRead : BOOLEAN]

VaultTypeOK ==
  /\ item \in ItemForm /\ WellFormed(item)
  /\ legacy \in [{"hash", "tdlib", "jobs"} -> Int]
  /\ settings \in BOOLEAN
  /\ lease \in App \cup {"nobody"}
  /\ cache \in [App -> CacheForm]
  /\ doing \in [App -> CallForm]
  /\ minted \in Nat
  /\ handed \in [KeyNames -> SUBSET Int]
  /\ told \in [{"hash", "discord"} -> Int]

(* Only the process that holds the lease has a copy, or a call under way.   *)
HolderAlone ==
  \A p \in App : cache[p].state # "unloaded" \/ doing[p].step \notin VaultRest => lease = p

NoLegacy == \A n \in DOMAIN legacy : legacy[n] = 0

(* A copy that need not be read again is the item, or the emptiness before  *)
(* the first one.                                                           *)
InSync(p) ==
  IF cache[p].persisted THEN item = Encoded(Vault(p))
  ELSE item.edition = 0 /\ Vault(p) = Empty /\ NoLegacy

(* A copy that has to be read again still tells the truth of what it has.   *)
Follows(v) ==
  /\ \A n \in KeyNames : v.has[n] # 0 => item.has[n] = v.has[n]
  /\ v.has["hash"] # 0 => item.has["hash"] # 0

(* What call c is about to write instead of v: nothing that v has of keys is*)
(* changed, no older edition, and only the secret the call is about.        *)
Adds(c, v) ==
  /\ \A n \in KeyNames : v.has[n] # 0 => c.vault.has[n] = v.has[n]
  /\ v.has["hash"] # 0 => c.vault.has["hash"] # 0
  /\ c.kind \in KeyNames => c.vault.has[c.kind] # 0
  /\ c.vault.has["hash"] = IF c.kind = "hash" THEN c.value ELSE v.has["hash"]
  /\ c.vault.has["discord"] = IF c.kind \in {"discord", "forget"} THEN c.value
                              ELSE v.has["discord"]
  /\ Encoded(c.vault).edition >= Encoded(v).edition

(* What has been written is what the call was about.                        *)
IsWritten(c) ==
  /\ item = Encoded(c.vault)
  /\ c.kind \in KeyNames => item.has[c.kind] # 0
  /\ c.kind = "hash" => item.has["hash"] = c.value
  /\ c.kind \in {"discord", "forget"} => item.has["discord"] = c.value

CopyOk(p) ==
  cache[p].state = "ready" =>
    /\ item.edition <= 3
    /\ ~cache[p].needsRead => InSync(p)
    /\ cache[p].needsRead /\ doing[p].step \notin {"migrate", "migrated"} =>
         Follows(Vault(p)) /\ (~cache[p].persisted => NoLegacy)

CallOk(p) ==
  LET c == doing[p]
  IN /\ c.step \notin VaultRest => c.kind # "none"
     /\ c.kind = "hash" => c.value # 0
     /\ c.kind = "forget" => c.value = 0
     /\ c.step \notin VaultRest \cup {"load"} => cache[p].state = "ready"
     /\ c.step = "load" => cache[p].state = "unloaded"
     /\ c.step = "write" => ~cache[p].needsRead /\ Adds(c, Vault(p))
     /\ c.step = "written" => cache[p].needsRead /\ IsWritten(c)
     /\ c.step \in {"migrate", "migrated"} =>
          /\ c.vault = Migrated /\ cache[p].needsRead
          /\ IF c.step = "migrate" THEN item.edition = 0 ELSE item = Encoded(Migrated)
     /\ c.step = "file" => item.has["hash"] # 0

(* What the Keychain holds, against what was said of it.                    *)
KeychainOk ==
  /\ newest = item.edition
  /\ \A n \in KeyNames : \A key \in handed[n] : Known(item) /\ key # 0 /\ item.has[n] = key
  /\ \A n \in DatabaseKeys : Known(item) /\ legacy[n] # 0 => item.has[n] = legacy[n]
  /\ \A n \in {"hash", "discord"} : told[n] # Unsure => item.has[n] = told[n]
  /\ told["hash"] # 0
  /\ settings => item.has["hash"] # 0

VaultInv ==
  /\ VaultTypeOK
  /\ HolderAlone
  /\ \A p \in App : CopyOk(p) /\ CallOk(p)
  /\ KeychainOk

LEMMA BlankVault ==
  Empty \in VaultForm /\ Empty.has = [n \in Names |-> 0] /\ ~Empty.two /\ ~Empty.three
BY DEF Empty, VaultForm

(* Encoding and decoding lose nothing.                                      *)
LEMMA EncodedFacts ==
  ASSUME NEW v \in VaultForm
  PROVE  /\ Encoded(v) \in ItemForm /\ WellFormed(Encoded(v))
         /\ Encoded(v).has = v.has /\ Encoded(v).edition \in 1..3
<1>1. v.has \in [Names -> Int]
  BY DEF VaultForm
<1>2. CASE v.three \/ v.has["discord"] # 0
  <2>1. Just(Names, v) = v.has
    BY <1>1 DEF Just
  <2>2. Encoded(v) = [edition |-> 3, has |-> v.has]
    BY <1>2, <2>1 DEF Encoded, NamespacedV3
  <2> QED BY <1>1, <2>2 DEF ItemForm, WellFormed
<1>3. CASE ~(v.three \/ v.has["discord"] # 0) /\ (v.two \/ v.has["index"] # 0)
  <2>1. Just(Names \ {"discord"}, v) = v.has
    BY <1>1, <1>3 DEF Just
  <2>2. Encoded(v) = [edition |-> 2, has |-> v.has]
    BY <1>3, <2>1 DEF Encoded, Namespaced
  <2> QED BY <1>1, <1>3, <2>2 DEF ItemForm, WellFormed
<1>4. CASE ~(v.three \/ v.has["discord"] # 0) /\ ~(v.two \/ v.has["index"] # 0)
  <2>1. Just({"hash", "tdlib", "jobs"}, v) = v.has
    BY <1>1, <1>4 DEF Just, Names, KeyNames, DatabaseKeys
  <2>2. Encoded(v) = [edition |-> 1, has |-> v.has]
    BY <1>4, <2>1 DEF Encoded, Flat
  <2> QED BY <1>1, <1>4, <2>2 DEF ItemForm, WellFormed
<1> QED BY <1>2, <1>3, <1>4

LEMMA DecodedFacts ==
  ASSUME NEW i \in ItemForm, WellFormed(i), Known(i)
  PROVE  /\ Decoded(i) \in VaultForm
         /\ Decoded(i).has = i.has
         /\ Encoded(Decoded(i)) = i
<1>1. i.has \in [Names -> Int] /\ i = [edition |-> i.edition, has |-> i.has]
  BY DEF ItemForm
<1>2. CASE i.edition = 1
  <2>1. Decoded(i) \in VaultForm /\ Decoded(i).has = i.has /\ ~Decoded(i).two /\ ~Decoded(i).three
    <3>1. FromFlat(i) \in VaultForm /\ FromFlat(i).has = i.has /\ ~FromFlat(i).two /\ ~FromFlat(i).three
      BY BlankVault, <1>1 DEF FromFlat, VaultForm
    <3> QED BY <1>2, <3>1 DEF Decoded
  <2>2. i.has["index"] = 0 /\ i.has["discord"] = 0
    BY <1>2 DEF WellFormed
  <2>3. Just({"hash", "tdlib", "jobs"}, Decoded(i)) = i.has
    BY <1>1, <2>1, <2>2 DEF Just, Names, KeyNames, DatabaseKeys
  <2>4. Encoded(Decoded(i)) = [edition |-> 1, has |-> i.has]
    BY <2>1, <2>2, <2>3 DEF Encoded, Flat
  <2> QED BY <1>1, <1>2, <2>1, <2>4 DEF VaultForm
<1>3. CASE i.edition = 2
  <2>1. Decoded(i) \in VaultForm /\ Decoded(i).has = i.has /\ Decoded(i).two /\ ~Decoded(i).three
    <3>1. /\ FromNamespaced(i) \in VaultForm /\ FromNamespaced(i).has = i.has
          /\ FromNamespaced(i).two /\ ~FromNamespaced(i).three
      BY BlankVault, <1>1 DEF FromNamespaced, VaultForm
    <3> QED BY <1>3, <3>1 DEF Decoded
  <2>2. i.has["discord"] = 0
    BY <1>3 DEF WellFormed
  <2>3. Just(Names \ {"discord"}, Decoded(i)) = i.has
    BY <1>1, <2>1, <2>2 DEF Just
  <2>4. Encoded(Decoded(i)) = [edition |-> 2, has |-> i.has]
    BY <2>1, <2>2, <2>3 DEF Encoded, Namespaced
  <2> QED BY <1>1, <1>3, <2>1, <2>4 DEF VaultForm
<1>4. CASE i.edition = 3
  <2>1. Decoded(i) = [has |-> i.has, two |-> TRUE, three |-> TRUE]
    BY <1>4 DEF Decoded, FromNamespacedV3
  <2>2. Just(Names, Decoded(i)) = i.has
    BY <1>1, <2>1 DEF Just
  <2>3. Encoded(Decoded(i)) = [edition |-> 3, has |-> i.has]
    BY <2>1, <2>2 DEF Encoded, NamespacedV3
  <2> QED BY <1>1, <1>4, <2>1, <2>3 DEF VaultForm
<1> QED BY <1>2, <1>3, <1>4 DEF Known, ItemForm

LEMMA MigratedForm ==
  ASSUME VaultTypeOK
  PROVE  /\ Migrated \in VaultForm
         /\ \A n \in DatabaseKeys \cup {"hash"} : Migrated.has[n] = legacy[n]
         /\ Migrated.has["index"] = 0 /\ Migrated.has["discord"] = 0
<1> DEFINE has == [n \in Names |-> IF n \in DOMAIN legacy THEN legacy[n] ELSE 0]
<1>1. has \in [Names -> Int] => Migrated \in VaultForm /\ Migrated.has = has
  BY BlankVault DEF Migrated, VaultForm
<1> HIDE DEF has
<1>2. DOMAIN legacy = {"hash", "tdlib", "jobs"} /\ \A n \in DOMAIN legacy : legacy[n] \in Int
  BY DEF VaultTypeOK
<1>3. has \in [Names -> Int]
  BY <1>2 DEF has
<1> QED BY <1>1, <1>2, <1>3 DEF has, VaultForm, Names, KeyNames, DatabaseKeys

(* A copy that need not be read again shows what the item holds.            *)
LEMMA InSyncShows ==
  ASSUME VaultTypeOK, NEW p \in App, InSync(p)
  PROVE  item.has = Vault(p).has /\ item.edition <= 3
<1>1. Vault(p) \in VaultForm
  BY DEF VaultTypeOK, CacheForm, Vault
<1> QED BY <1>1, EncodedFacts, BlankVault DEF InSync, VaultTypeOK, WellFormed, ItemForm

(* The invariant begins.                                                    *)
LEMMA VaultBegins == VaultInit => VaultInv
<1> SUFFICES ASSUME VaultInit PROVE VaultInv
  OBVIOUS
<1>1. PICK b \in Beginnings : VaultStart(b, 0)
  BY DEF VaultInit
<1>2. VaultTypeOK
  <2>1. Unloaded \in CacheForm /\ Gone \in CallForm
    BY BlankVault DEF CacheForm, CallForm, Unloaded, NoCall, Gone, StepNames, VaultRest, CallKinds
  <2>2. cache \in [App -> CacheForm] /\ doing \in [App -> CallForm]
    BY <1>1, <2>1 DEF VaultStart
  <2>3. /\ handed \in [KeyNames -> SUBSET Int]
        /\ told \in [{"hash", "discord"} -> Int]
    BY <1>1 DEF VaultStart, Unsure
  <2>4. item \in ItemForm /\ WellFormed(item) /\ legacy \in [{"hash", "tdlib", "jobs"} -> Int]
    BY <1>1, VaultAssumption DEF VaultStart, ItemForm
  <2> QED BY <1>1, <2>2, <2>3, <2>4 DEF VaultStart, VaultTypeOK
<1>3. HolderAlone /\ \A p \in App : CopyOk(p) /\ CallOk(p)
  BY <1>1 DEF VaultStart, HolderAlone, CopyOk, CallOk, Unloaded, Gone, NoCall, VaultRest
<1>4. KeychainOk
  BY <1>1, VaultAssumption DEF VaultStart, KeychainOk, Known, Unsure
<1> QED BY <1>2, <1>3, <1>4 DEF VaultInv

-----------------------------------------------------------------------------
(* How a call and a copy change.                                            *)

(* Sole(p): a step of process p leaves what is of the others as it was.     *)
Sole(p) ==
  /\ cache' \in [App -> CacheForm] /\ doing' \in [App -> CallForm]
  /\ \A q \in App \ {p} : cache'[q] = cache[q] /\ doing'[q] = doing[q]

LEMMA TurnsForm ==
  ASSUME VaultTypeOK, NEW p \in App, NEW s \in StepNames, Turns(p, s)
  PROVE  /\ doing' \in [App -> CallForm]
         /\ \A q \in App \ {p} : doing'[q] = doing[q]
         /\ doing'[p].step = s /\ doing'[p].kind = doing[p].kind
         /\ doing'[p].value = doing[p].value /\ doing'[p].vault = doing[p].vault
BY DEF VaultTypeOK, Turns, CallForm

LEMMA WritesForm ==
  ASSUME VaultTypeOK, NEW p \in App, NEW s \in StepNames, NEW v \in VaultForm,
         doing' = [doing EXCEPT ![p].step = s, ![p].vault = v]
  PROVE  /\ doing' \in [App -> CallForm]
         /\ \A q \in App \ {p} : doing'[q] = doing[q]
         /\ doing'[p].step = s /\ doing'[p].kind = doing[p].kind
         /\ doing'[p].value = doing[p].value /\ doing'[p].vault = v
BY DEF VaultTypeOK, CallForm

LEMMA RestForm ==
  /\ NoCall \in CallForm /\ Gone \in CallForm /\ Closed \in CallForm
  /\ NoCall.step = "none" /\ Gone.step = "gone" /\ Closed.step = "closed"
  /\ \A c \in {NoCall, Gone, Closed} : c.kind = "none" /\ c.value = 0
BY BlankVault DEF NoCall, Gone, Closed, CallForm, StepNames, VaultRest, CallKinds

LEMMA EndForm ==
  ASSUME VaultTypeOK, NEW p \in App, EndCall(p)
  PROVE  /\ doing' \in [App -> CallForm]
         /\ \A q \in App \ {p} : doing'[q] = doing[q]
         /\ doing'[p].step = "none" /\ doing'[p].kind = "none"
BY RestForm DEF VaultTypeOK, EndCall

LEMMA CachedForm ==
  ASSUME VaultTypeOK, NEW p \in App, NEW c \in CacheForm, Cached(p, c)
  PROVE  /\ cache' \in [App -> CacheForm]
         /\ \A q \in App \ {p} : cache'[q] = cache[q]
         /\ cache'[p] = c
BY DEF VaultTypeOK, Cached

(* What copies are made of.                                                 *)
LEMMA UnloadedForm ==
  /\ Unloaded \in CacheForm /\ Unloaded.state = "unloaded"
  /\ [Unloaded EXCEPT !.state = "failed"] \in CacheForm
  /\ [Unloaded EXCEPT !.state = "failed"].state = "failed"
<1>1. /\ Unloaded \in CacheForm /\ Unloaded.state = "unloaded"
  BY BlankVault DEF Unloaded, CacheForm
<1>2. ASSUME NEW c \in CacheForm
      PROVE  /\ [c EXCEPT !.state = "failed"] \in CacheForm
             /\ [c EXCEPT !.state = "failed"].state = "failed"
  BY DEF CacheForm
<1> QED BY <1>1, <1>2

LEMMA CachedReady ==
  ASSUME VaultTypeOK, NEW p \in App, NEW v \in VaultForm, NEW b \in BOOLEAN, Cached(p, Ready(v, b))
  PROVE  /\ cache' \in [App -> CacheForm]
         /\ \A q \in App \ {p} : cache'[q] = cache[q]
         /\ cache'[p].state = "ready" /\ cache'[p].vault = v
         /\ cache'[p].persisted = b /\ ~cache'[p].needsRead
<1>1. /\ Ready(v, b) \in CacheForm
      /\ Ready(v, b).state = "ready" /\ Ready(v, b).vault = v
      /\ Ready(v, b).persisted = b /\ ~Ready(v, b).needsRead
  BY DEF Ready, CacheForm
<1> QED BY <1>1, CachedForm

LEMMA CachedUnread ==
  ASSUME VaultTypeOK, NEW p \in App, NEW v \in VaultForm, NEW b \in BOOLEAN,
         Cached(p, [Ready(v, b) EXCEPT !.needsRead = TRUE])
  PROVE  /\ cache' \in [App -> CacheForm]
         /\ \A q \in App \ {p} : cache'[q] = cache[q]
         /\ cache'[p].state = "ready" /\ cache'[p].needsRead
<1>1. Ready(v, b) \in CacheForm /\ Ready(v, b).state = "ready"
  BY DEF Ready, CacheForm
<1>2. ASSUME NEW c \in CacheForm
      PROVE  LET unread == [c EXCEPT !.needsRead = TRUE]
             IN unread \in CacheForm /\ unread.state = c.state /\ unread.needsRead
  BY DEF CacheForm
<1>3. LET unread == [Ready(v, b) EXCEPT !.needsRead = TRUE]
      IN unread \in CacheForm /\ unread.state = "ready" /\ unread.needsRead
  BY <1>1, <1>2
<1> QED BY <1>3, CachedForm

LEMMA UncertainForm ==
  ASSUME VaultTypeOK, NEW p \in App, Uncertain(p)
  PROVE  /\ cache' \in [App -> CacheForm]
         /\ \A q \in App \ {p} : cache'[q] = cache[q]
         /\ cache'[p].state = cache[p].state /\ cache'[p].vault = cache[p].vault
         /\ cache'[p].persisted = cache[p].persisted /\ cache'[p].needsRead
BY DEF VaultTypeOK, CacheForm, Uncertain, Cached

(* The holder of the lease is alone, and stays alone if it acts.            *)
LEMMA Alone ==
  ASSUME VaultInv, NEW p \in App,
         cache[p].state # "unloaded" \/ doing[p].step \notin VaultRest
  PROVE  /\ lease = p
         /\ \A q \in App \ {p} : cache[q].state = "unloaded" /\ doing[q].step \in VaultRest
BY DEF VaultInv, HolderAlone

LEMMA HolderKept ==
  ASSUME VaultInv, NEW p \in App, Sole(p), lease' = lease,
         cache[p].state # "unloaded" \/ doing[p].step \notin VaultRest
  PROVE  HolderAlone'
BY Alone DEF Sole, HolderAlone

LEMMA OthersKept ==
  ASSUME VaultInv, NEW p \in App, Sole(p), legacy' = legacy,
         cache[p].state # "unloaded" \/ doing[p].step \notin VaultRest
  PROVE  \A q \in App \ {p} : CopyOk(q)' /\ CallOk(q)'
BY Alone DEF VaultInv, Sole, CopyOk, CallOk, VaultRest

(* The same when the item stays as it is, whoever holds the lease.          *)
LEMMA OthersStay ==
  ASSUME VaultInv, NEW p \in App, Sole(p), UNCHANGED <<legacy, item>>
  PROVE  \A q \in App \ {p} : CopyOk(q)' /\ CallOk(q)'
<1> SUFFICES ASSUME NEW q \in App \ {p}
             PROVE  CopyOk(q)' /\ CallOk(q)'
  OBVIOUS
<1>1. CopyOk(q) /\ CallOk(q) /\ cache'[q] = cache[q] /\ doing'[q] = doing[q]
  BY DEF VaultInv, Sole
<1>2. CopyOk(q)'
  BY <1>1 DEF CopyOk, VaultRest, InSync, Vault, NoLegacy, Follows, Adds, IsWritten, Migrated
<1>3. CallOk(q)'
  BY <1>1 DEF CallOk, VaultRest, InSync, Vault, NoLegacy, Follows, Adds, IsWritten, Migrated
<1> QED BY <1>2, <1>3

-----------------------------------------------------------------------------
(* One lemma for each action.                                               *)

LEMMA LaunchKept ==
  ASSUME VaultInv, NEW p \in App, Launch(p)
  PROVE  VaultInv'
<1>1. VaultTypeOK /\ doing[p] = Gone
  BY DEF VaultInv, Launch
<1>2. doing' \in [App -> CallForm] /\ doing'[p].step = "none" /\ doing'[p].kind = "none"
      /\ \A q \in App \ {p} : doing'[q] = doing[q]
  BY <1>1, EndForm DEF Launch
<1>3. VaultTypeOK' /\ Sole(p)
  BY <1>1, <1>2 DEF VaultTypeOK, Sole, Launch
<1>4. HolderAlone'
  BY <1>1, <1>2, <1>3, RestForm DEF VaultInv, HolderAlone, Launch, Sole, VaultRest
<1>5. CopyOk(p)' /\ CallOk(p)'
  BY <1>1, <1>2, RestForm DEF VaultInv, CopyOk, CallOk, Launch, VaultRest, InSync, Vault, NoLegacy,
     Follows
<1>6. \A q \in App : CopyOk(q)' /\ CallOk(q)'
  BY <1>3, <1>5, OthersStay DEF Launch
<1>7. KeychainOk'
  BY DEF VaultInv, KeychainOk, Launch
<1> QED BY <1>3, <1>4, <1>6, <1>7 DEF VaultInv

(* What a call can be when it begins.                                       *)
LEMMA CallForms ==
  ASSUME NEW c \in Calls, NEW s \in StepNames
  PROVE  LET begun == [c EXCEPT !.step = s]
         IN /\ begun \in CallForm /\ begun.step = s /\ begun.kind # "none"
            /\ begun.kind = "hash" => begun.value # 0
            /\ begun.kind = "forget" => begun.value = 0
<1>1. /\ c \in CallForm /\ c.kind # "none"
      /\ c.kind = "hash" => c.value # 0
      /\ c.kind = "forget" => c.value = 0
  <2>1. CASE \E n \in KeyNames \cup {"settings", "forget", "look"} : c = [NoCall EXCEPT !.kind = n]
    BY <2>1, RestForm DEF CallForm, CallKinds, Names, KeyNames, DatabaseKeys
  <2>2. CASE \E v \in Hashes : c = [NoCall EXCEPT !.kind = "hash", !.value = v]
    BY <2>2, RestForm, VaultAssumption DEF CallForm, CallKinds, Names
  <2>3. CASE \E v \in Credentials : c = [NoCall EXCEPT !.kind = "discord", !.value = v]
    BY <2>3, RestForm, VaultAssumption DEF CallForm, CallKinds, Names
  <2> QED BY <2>1, <2>2, <2>3 DEF Calls
<1> QED BY <1>1 DEF CallForm

LEMMA CallVaultKept ==
  ASSUME VaultInv, NEW p \in App, CallVault(p)
  PROVE  VaultInv'
<1>1. VaultTypeOK /\ doing[p].step = "none" /\ CopyOk(p)
  BY RestForm DEF VaultInv, CallVault
<1>2. CASE ~Leased(p) \/ cache[p].state = "failed"
  <2>1. doing' = doing /\ cache' = cache /\ lease' \in {lease, p}
        /\ (lease' # lease => lease = "nobody")
    BY <1>2 DEF CallVault, Leased
  <2>2. Sole(p) /\ VaultTypeOK'
    BY <1>1, <2>1 DEF Sole, VaultTypeOK, CallVault
  <2>3. HolderAlone'
    BY <2>1, VaultAssumption DEF VaultInv, HolderAlone
  <2>4. CopyOk(p)' /\ CallOk(p)'
    BY <2>1 DEF VaultInv, CopyOk, CallOk, CallVault, VaultRest, InSync, Vault, NoLegacy, Follows,
       Adds, IsWritten, Migrated
  <2>5. \A q \in App \ {p} : CopyOk(q)' /\ CallOk(q)'
    BY <2>2, OthersStay DEF CallVault
  <2>6. KeychainOk'
    BY DEF VaultInv, KeychainOk, CallVault
  <2> QED BY <2>2, <2>3, <2>4, <2>5, <2>6 DEF VaultInv
<1>3. CASE Leased(p) /\ cache[p].state # "failed"
  <2> DEFINE s == IF cache[p].state = "unloaded" THEN "load" ELSE "act"
  <2>1. PICK c \in Calls : doing' = [doing EXCEPT ![p] = [c EXCEPT !.step = s]]
    BY <1>3 DEF CallVault
  <2>2. s \in StepNames /\ s \in {"load", "act"}
    BY DEF StepNames
  <2>3. /\ doing' \in [App -> CallForm]
        /\ \A q \in App \ {p} : doing'[q] = doing[q]
        /\ doing'[p].step = s /\ doing'[p].kind # "none"
        /\ doing'[p].kind = "hash" => doing'[p].value # 0
        /\ doing'[p].kind = "forget" => doing'[p].value = 0
    <3> HIDE DEF s
    <3> QED BY <1>1, <2>1, <2>2, CallForms DEF VaultTypeOK
  <2>4. cache' = cache /\ lease' = p
    BY <1>3 DEF CallVault
  <2>5. Sole(p) /\ VaultTypeOK'
    BY <1>1, <2>3, <2>4 DEF Sole, VaultTypeOK, CallVault
  <2>6. HolderAlone'
    BY <1>3, <2>3, <2>4, VaultAssumption DEF VaultInv, HolderAlone, Leased
  <2>7. CopyOk(p)' /\ CallOk(p)'
    <3>1. CopyOk(p)'
      BY <1>1, <2>2, <2>3, <2>4 DEF CopyOk, CallVault, InSync, Vault, NoLegacy, Follows, VaultRest
    <3>2. cache[p].state \in {"unloaded", "ready"}
      BY <1>1, <1>3 DEF VaultTypeOK, CacheForm
    <3> QED BY <3>1, <3>2, <2>3, <2>4 DEF CallOk, VaultRest
  <2>8. \A q \in App \ {p} : CopyOk(q)' /\ CallOk(q)'
    BY <2>5, OthersStay DEF CallVault
  <2>9. KeychainOk'
    BY DEF VaultInv, KeychainOk, CallVault
  <2> QED BY <2>5, <2>6, <2>7, <2>8, <2>9 DEF VaultInv
<1> QED BY <1>2, <1>3

LEMMA LoadKept ==
  ASSUME VaultInv, NEW p \in App, Load(p)
  PROVE  VaultInv'
<1>1. VaultTypeOK /\ doing[p].step = "load" /\ doing[p].step \notin VaultRest /\ CallOk(p)
  BY DEF VaultInv, Load, VaultRest
<1>2. UNCHANGED <<item, legacy, settings, lease, minted, launches, handed, told, newest>>
  BY DEF Load
<1> SUFFICES Sole(p) /\ CopyOk(p)' /\ CallOk(p)'
  <2>1. ASSUME Sole(p), CopyOk(p)', CallOk(p)'
        PROVE  VaultInv'
    <3>1. VaultTypeOK' /\ HolderAlone' /\ KeychainOk'
      BY <1>1, <1>2, <2>1, HolderKept DEF VaultTypeOK, Sole, VaultInv, KeychainOk
    <3> QED BY <1>1, <1>2, <2>1, <3>1, OthersKept DEF VaultInv
  <2> QED BY <2>1
<1>3. CASE Cached(p, [Unloaded EXCEPT !.state = "failed"]) /\ EndCall(p)
  <2>1. Sole(p)
    BY <1>1, <1>3, CachedForm, UnloadedForm, EndForm DEF Sole
  <2>2. CopyOk(p)' /\ CallOk(p)'
    <3>1. cache'[p].state = "failed" /\ doing'[p].step = "none" /\ doing'[p].kind = "none"
      BY <1>1, <1>3, CachedForm, UnloadedForm, EndForm
    <3> QED BY <3>1 DEF CopyOk, CallOk, VaultRest
  <2> QED BY <2>1, <2>2
<1>4. CASE /\ item.edition # 0 /\ Known(item)
           /\ Cached(p, Ready(Decoded(item), TRUE)) /\ Turns(p, "act")
  <2> DEFINE v == Decoded(item)
  <2>1. v \in VaultForm /\ v.has = item.has /\ Encoded(v) = item /\ item.edition <= 3
    BY <1>1, <1>4, DecodedFacts DEF VaultTypeOK, Known
  <2> HIDE DEF v
  <2>2. /\ cache' \in [App -> CacheForm] /\ \A q \in App \ {p} : cache'[q] = cache[q]
        /\ cache'[p].state = "ready" /\ cache'[p].vault = v /\ cache'[p].persisted
        /\ ~cache'[p].needsRead
    BY <1>1, <1>4, <2>1, CachedReady DEF v
  <2>3. /\ doing' \in [App -> CallForm] /\ \A q \in App \ {p} : doing'[q] = doing[q]
        /\ doing'[p].step = "act" /\ doing'[p].kind = doing[p].kind
        /\ doing'[p].value = doing[p].value
    BY <1>1, <1>4, TurnsForm DEF StepNames
  <2>4. Sole(p)
    BY <2>2, <2>3 DEF Sole
  <2>5. CopyOk(p)' /\ CallOk(p)'
    <3>1. CopyOk(p)'
      BY <1>2, <2>1, <2>2 DEF CopyOk, InSync, Vault
    <3>2. CallOk(p)'
      BY <1>1, <1>2, <2>2, <2>3 DEF CallOk, VaultRest
    <3> QED BY <3>1, <3>2
  <2> QED BY <2>4, <2>5
<1>5. CASE /\ item.edition = 0 /\ \A n \in DOMAIN legacy : legacy[n] = 0
           /\ Cached(p, Ready(Empty, FALSE)) /\ Turns(p, "act")
  <2>2. /\ cache' \in [App -> CacheForm] /\ \A q \in App \ {p} : cache'[q] = cache[q]
        /\ cache'[p].state = "ready" /\ cache'[p].vault = Empty /\ ~cache'[p].persisted
        /\ ~cache'[p].needsRead
    BY <1>1, <1>5, CachedReady, BlankVault
  <2>3. /\ doing' \in [App -> CallForm] /\ \A q \in App \ {p} : doing'[q] = doing[q]
        /\ doing'[p].step = "act" /\ doing'[p].kind = doing[p].kind
        /\ doing'[p].value = doing[p].value
    BY <1>1, <1>5, TurnsForm DEF StepNames
  <2>4. Sole(p)
    BY <2>2, <2>3 DEF Sole
  <2>5. CopyOk(p)' /\ CallOk(p)'
    <3>1. CopyOk(p)'
      BY <1>2, <1>5, <2>2 DEF CopyOk, InSync, Vault, NoLegacy
    <3>2. CallOk(p)'
      BY <1>1, <1>2, <2>2, <2>3 DEF CallOk, VaultRest
    <3> QED BY <3>1, <3>2
  <2> QED BY <2>4, <2>5
<1>6. CASE /\ item.edition = 0
           /\ Cached(p, [Ready(Migrated, FALSE) EXCEPT !.needsRead = TRUE])
           /\ doing' = [doing EXCEPT ![p].step = "migrate", ![p].vault = Migrated]
  <2>1. Migrated \in VaultForm /\ Migrated' = Migrated
    BY <1>1, <1>2, MigratedForm DEF Migrated
  <2>2. /\ cache' \in [App -> CacheForm] /\ \A q \in App \ {p} : cache'[q] = cache[q]
        /\ cache'[p].state = "ready" /\ cache'[p].needsRead
    BY <1>1, <1>6, <2>1, CachedUnread
  <2>3. /\ doing' \in [App -> CallForm] /\ \A q \in App \ {p} : doing'[q] = doing[q]
        /\ doing'[p].step = "migrate" /\ doing'[p].kind = doing[p].kind
        /\ doing'[p].value = doing[p].value /\ doing'[p].vault = Migrated
    BY <1>1, <1>6, <2>1, WritesForm DEF StepNames
  <2>4. Sole(p)
    BY <2>2, <2>3 DEF Sole
  <2>5. CopyOk(p)' /\ CallOk(p)'
    <3>1. CopyOk(p)'
      BY <1>2, <1>6, <2>2, <2>3 DEF CopyOk
    <3>2. CallOk(p)'
      BY <1>1, <1>2, <1>6, <2>1, <2>2, <2>3 DEF CallOk, VaultRest
    <3> QED BY <3>1, <3>2
  <2> QED BY <2>4, <2>5
<1> QED BY <1>3, <1>4, <1>5, <1>6 DEF Load

(* A caller that is given a key that the item holds.                        *)
LEMMA HandsKept ==
  ASSUME VaultTypeOK, NEW n \in KeyNames, KeychainOk, Known(item), item.has[n] # 0,
         Hands(n, item.has[n]), UNCHANGED <<item, legacy, told, newest>>,
         settings' => item.has["hash"] # 0
  PROVE  KeychainOk' /\ handed' \in [KeyNames -> SUBSET Int]
<1>1. item.has[n] \in Int
  BY DEF VaultTypeOK, ItemForm, Names
<1>2. \A m \in KeyNames : handed'[m] = IF m = n THEN handed[m] \cup {item.has[n]} ELSE handed[m]
  BY DEF Hands, VaultTypeOK
<1>3. handed' \in [KeyNames -> SUBSET Int]
  BY <1>1 DEF Hands, VaultTypeOK
<1> QED BY <1>2, <1>3 DEF KeychainOk

(* A key that a copy shows is in an item this build knows.                  *)
LEMMA CopyShows ==
  ASSUME VaultInv, NEW p \in App, cache[p].state = "ready",
         doing[p].step \notin {"migrate", "migrated"}
  PROVE  /\ \A n \in KeyNames : Vault(p).has[n] # 0 =>
              Known(item) /\ item.has[n] = Vault(p).has[n]
         /\ Vault(p).has["hash"] # 0 => item.has["hash"] # 0
         /\ ~cache[p].needsRead => item.has = Vault(p).has
<1>1. VaultTypeOK /\ CopyOk(p)
  BY DEF VaultInv
<1>2. \A n \in KeyNames : item.has[n] # 0 => Known(item)
  <2>1. item.edition # 0 => Known(item)
    BY <1>1 DEF CopyOk, Known, VaultTypeOK, ItemForm
  <2>2. item.edition = 0 => \A n \in KeyNames : item.has[n] = 0
    BY <1>1, BlankVault DEF VaultTypeOK, WellFormed, Names
  <2> QED BY <2>1, <2>2
<1>3. CASE cache[p].needsRead
  BY <1>1, <1>2, <1>3 DEF CopyOk, Follows
<1>4. CASE ~cache[p].needsRead
  <2>1. item.has = Vault(p).has
    BY <1>1, <1>4, InSyncShows DEF CopyOk
  <2> QED BY <1>2, <2>1
<1> QED BY <1>3, <1>4

LEMMA AnswerByCopyKept ==
  ASSUME VaultInv, NEW p \in App, AnswerByCopy(p)
  PROVE  VaultInv'
<1>1. /\ VaultTypeOK /\ CallOk(p) /\ CopyOk(p) /\ KeychainOk
      /\ doing[p].step = "act" /\ doing[p].step \notin VaultRest /\ cache[p].state = "ready"
  BY DEF VaultInv, AnswerByCopy, VaultRest, CallOk
<1>2. UNCHANGED <<item, legacy, settings, lease, cache, minted, launches, told, newest>>
  BY DEF AnswerByCopy
<1>3. /\ \A n \in KeyNames : Vault(p).has[n] # 0 =>
              Known(item) /\ item.has[n] = Vault(p).has[n]
      /\ Vault(p).has["hash"] # 0 => item.has["hash"] # 0
  BY <1>1, CopyShows
<1>4. \/ Turns(p, "file") /\ item.has["hash"] # 0
      \/ EndCall(p)
  BY <1>3 DEF AnswerByCopy
<1>5. /\ Sole(p)
      /\ \/ /\ doing'[p].step = "file" /\ doing'[p].kind = doing[p].kind
            /\ doing'[p].value = doing[p].value /\ item.has["hash"] # 0
         \/ doing'[p].step = "none" /\ doing'[p].kind = "none"
  BY <1>1, <1>2, <1>4, TurnsForm, EndForm DEF Sole, VaultTypeOK, StepNames
<1>6. CopyOk(p)'
  BY <1>1, <1>2, <1>5 DEF CopyOk, InSync, Vault, NoLegacy, Follows
<1>7. CallOk(p)'
  BY <1>1, <1>2, <1>5 DEF CallOk, VaultRest
<1>8. KeychainOk' /\ handed' \in [KeyNames -> SUBSET Int]
  <2>1. CASE doing[p].kind \in DatabaseKeys
    <3> DEFINE n == doing[p].kind
    <3>1. n \in KeyNames /\ Hands(n, Vault(p).has[n]) /\ Vault(p).has[n] # 0
      BY <2>1 DEF AnswerByCopy, AnsweredByCopy, KeyNames, DatabaseKeys
    <3>2. Known(item) /\ item.has[n] = Vault(p).has[n]
      BY <1>3, <3>1
    <3> HIDE DEF n
    <3> QED BY <1>1, <1>2, <3>1, <3>2, HandsKept DEF KeychainOk
  <2>2. CASE doing[p].kind \notin DatabaseKeys
    BY <1>1, <1>2, <2>2 DEF AnswerByCopy, KeychainOk, VaultTypeOK
  <2> QED BY <2>1, <2>2
<1>9. VaultTypeOK' /\ HolderAlone'
  BY <1>1, <1>2, <1>5, <1>8, HolderKept DEF VaultTypeOK, Sole
<1> QED BY <1>1, <1>2, <1>5, <1>6, <1>7, <1>8, <1>9, OthersKept DEF VaultInv

LEMMA ReconcileKept ==
  ASSUME VaultInv, NEW p \in App, Reconcile(p)
  PROVE  VaultInv'
<1>1. /\ VaultTypeOK /\ CallOk(p) /\ CopyOk(p) /\ KeychainOk
      /\ doing[p].step = "act" /\ doing[p].step \notin VaultRest /\ cache[p].state = "ready"
      /\ cache[p].needsRead
  BY DEF VaultInv, Reconcile, VaultRest, CallOk
<1>2. UNCHANGED <<item, legacy, settings, lease, minted, launches, handed, told, newest>>
  BY DEF Reconcile
<1> SUFFICES Sole(p) /\ CopyOk(p)' /\ CallOk(p)'
  <2>1. ASSUME Sole(p), CopyOk(p)', CallOk(p)'
        PROVE  VaultInv'
    <3>1. VaultTypeOK' /\ HolderAlone' /\ KeychainOk'
      BY <1>1, <1>2, <2>1, HolderKept DEF VaultTypeOK, Sole, KeychainOk
    <3> QED BY <1>1, <1>2, <2>1, <3>1, OthersKept DEF VaultInv
  <2> QED BY <2>1
<1>3. CASE EndCall(p) /\ UNCHANGED cache
  <2>1. Sole(p) /\ doing'[p].step = "none" /\ doing'[p].kind = "none"
    BY <1>1, <1>3, EndForm DEF Sole, VaultTypeOK
  <2>2. CopyOk(p)' /\ CallOk(p)'
    BY <1>1, <1>2, <1>3, <2>1 DEF CopyOk, CallOk, InSync, Vault, NoLegacy, Follows, VaultRest
  <2> QED BY <2>1, <2>2
<1>4. CASE ~(EndCall(p) /\ UNCHANGED cache)
  <2> DEFINE found == IF Known(item) THEN Decoded(item) ELSE Empty
  <2>1. /\ item.edition <= 3 /\ ~(item.edition = 0 /\ cache[p].persisted)
        /\ Cached(p, Ready(found, item.edition # 0)) /\ UNCHANGED doing
    BY <1>1, <1>4 DEF Reconcile, VaultTypeOK, ItemForm
  <2>2. /\ found \in VaultForm
        /\ IF item.edition # 0 THEN item = Encoded(found) ELSE found = Empty
    BY <1>1, <2>1, DecodedFacts, BlankVault DEF VaultTypeOK, Known, ItemForm
  <2> HIDE DEF found
  <2>3. /\ cache' \in [App -> CacheForm] /\ \A q \in App \ {p} : cache'[q] = cache[q]
        /\ cache'[p].state = "ready" /\ cache'[p].vault = found
        /\ cache'[p].persisted = (item.edition # 0)
        /\ ~cache'[p].needsRead
    BY <1>1, <2>1, <2>2, CachedReady
  <2>4. Sole(p)
    BY <1>1, <2>1, <2>3 DEF Sole, VaultTypeOK
  <2>5. item.edition = 0 => NoLegacy
    BY <1>1, <2>1 DEF CopyOk
  <2>6. CopyOk(p)'
    BY <1>1, <1>2, <2>1, <2>2, <2>3, <2>5 DEF CopyOk, InSync, Vault, NoLegacy
  <2>7. CallOk(p)'
    BY <1>1, <1>2, <2>1, <2>3 DEF CallOk, VaultRest
  <2> QED BY <2>4, <2>6, <2>7
<1> QED BY <1>3, <1>4

(* What a call makes of a copy that is in step adds to it.                  *)
LEMMA CandidateForm ==
  ASSUME VaultInv, NEW p \in App, Decide(p),
         doing[p].kind = "index" => Vault(p).has["index"] = 0
  PROVE  LET w == Candidate(p)
             kind == doing[p].kind
         IN /\ w \in VaultForm
            /\ \A n \in KeyNames : Vault(p).has[n] # 0 => w.has[n] = Vault(p).has[n]
            /\ Vault(p).has["hash"] # 0 => w.has["hash"] # 0
            /\ kind \in KeyNames => w.has[kind] # 0
            /\ w.has["hash"] = IF kind = "hash" THEN doing[p].value ELSE Vault(p).has["hash"]
            /\ w.has["discord"] = IF kind \in {"discord", "forget"} THEN doing[p].value
                                  ELSE Vault(p).has["discord"]
            /\ Encoded(w).edition >= Encoded(Vault(p)).edition
<1> DEFINE v == Vault(p)
           kind == doing[p].kind
           w == Candidate(p)
           key == minted + 1
<1>1. /\ v \in VaultForm /\ minted \in Nat /\ doing[p].value \in Int
      /\ kind \in Names \cup {"forget"}
      /\ kind = "hash" => doing[p].value # 0
      /\ kind = "forget" => doing[p].value = 0
      /\ kind \in DatabaseKeys => v.has[kind] = 0
  BY DEF VaultInv, VaultTypeOK, CacheForm, CallForm, CallOk, Vault, Decide, AnsweredByCopy,
     CallKinds, VaultRest
<1>2. kind = "index" => v.has["index"] = 0
  OBVIOUS
<1>3. key \in Int /\ key # 0
  BY <1>1
<1> DEFINE Put(n, x) == [v.has EXCEPT ![n] = x]
<1>4. \A n, m \in Names, x \in Int : Put(n, x)[m] = IF m = n THEN x ELSE v.has[m]
  <2> HIDE DEF v
  <2> QED BY <1>1 DEF VaultForm
<1>5. \A u \in VaultForm : Encoded(u).edition = IF u.three \/ u.has["discord"] # 0 THEN 3
                                                ELSE IF u.two \/ u.has["index"] # 0 THEN 2 ELSE 1
  BY DEF Encoded, NamespacedV3, Namespaced, Flat
<1>6. {"hash", "discord", "index"} \cup DatabaseKeys = Names
  BY DEF Names, KeyNames, DatabaseKeys
<1>7. /\ w \in VaultForm
      /\ w.has = IF kind = "hash" THEN Put("hash", doing[p].value)
                 ELSE IF kind \in {"discord", "forget"} THEN Put("discord", doing[p].value)
                 ELSE Put(kind, key)
      /\ v.two => w.two
      /\ v.three => w.three
      /\ kind \in {"discord", "forget"} => w.three
  <2>1. CASE kind = "hash"
    <3>1. w = [v EXCEPT !.has["hash"] = doing[p].value]
      BY <2>1 DEF Candidate
    <3> HIDE DEF v, w, kind, key, Put
    <3>2. w \in VaultForm /\ w.has = Put("hash", doing[p].value) /\ w.two = v.two /\ w.three = v.three
      BY <1>1, <1>6, <3>1 DEF VaultForm, Put
    <3> QED BY <2>1, <3>2
  <2>2. CASE kind \in {"discord", "forget"}
    <3>1. w = [v EXCEPT !.has["discord"] = doing[p].value, !.three = TRUE]
      BY <1>1, <2>2 DEF Candidate
    <3> HIDE DEF v, w, kind, key, Put
    <3>2. w \in VaultForm /\ w.has = Put("discord", doing[p].value) /\ w.two = v.two /\ w.three
      BY <1>1, <1>6, <3>1 DEF VaultForm, Put
    <3> QED BY <2>2, <3>2
  <2>3. CASE kind = "index"
    <3>1. w = [v EXCEPT !.has["index"] = key, !.two = TRUE]
      BY <2>3 DEF Candidate
    <3> HIDE DEF v, w, kind, key, Put
    <3>2. w \in VaultForm /\ w.has = Put("index", key) /\ w.two /\ w.three = v.three
      BY <1>1, <1>3, <1>6, <3>1 DEF VaultForm, Put
    <3> QED BY <2>3, <3>2
  <2>4. CASE kind \in DatabaseKeys
    <3>1. w = [v EXCEPT !.has[kind] = key]
      BY <2>4 DEF Candidate, DatabaseKeys
    <3>2. kind \in Names /\ kind \notin {"hash", "discord", "forget"}
      BY <2>4 DEF DatabaseKeys, Names, KeyNames
    <3> HIDE DEF v, w, kind, key, Put
    <3>3. w \in VaultForm /\ w.has = Put(kind, key) /\ w.two = v.two /\ w.three = v.three
      BY <1>1, <1>3, <3>1, <3>2 DEF VaultForm, Put
    <3> QED BY <3>2, <3>3
  <2> HIDE DEF kind
  <2> QED BY <1>1, <1>6, <2>1, <2>2, <2>3, <2>4
<1> HIDE DEF v, w, kind, key, Put
<1>8. \A n \in KeyNames : v.has[n] # 0 => w.has[n] = v.has[n]
  BY <1>1, <1>2, <1>3, <1>4, <1>7 DEF Names, KeyNames, DatabaseKeys
<1>9. /\ v.has["hash"] # 0 => w.has["hash"] # 0
      /\ kind \in KeyNames => w.has[kind] # 0
      /\ w.has["hash"] = IF kind = "hash" THEN doing[p].value ELSE v.has["hash"]
      /\ w.has["discord"] = IF kind \in {"discord", "forget"} THEN doing[p].value
                            ELSE v.has["discord"]
  BY <1>1, <1>3, <1>4, <1>7 DEF Names, KeyNames, DatabaseKeys
<1>10. Encoded(w).edition >= Encoded(v).edition
  <2>1. CASE kind \in {"discord", "forget"}
    BY <1>1, <1>5, <1>7, <2>1
  <2>2. CASE kind \notin {"discord", "forget"}
    <3>1. w.has["discord"] = v.has["discord"]
      BY <1>9, <2>2
    <3>2. v.has["index"] # 0 => w.has["index"] # 0
      BY <1>8 DEF KeyNames
    <3> QED BY <1>1, <1>5, <1>7, <3>1, <3>2
  <2> QED BY <2>1, <2>2
<1> QED BY <1>7, <1>8, <1>9, <1>10 DEF v, w, kind

LEMMA DecideKept ==
  ASSUME VaultInv, NEW p \in App, Decide(p)
  PROVE  VaultInv'
<1>1. /\ VaultTypeOK /\ CallOk(p) /\ CopyOk(p) /\ KeychainOk
      /\ doing[p].step = "act" /\ doing[p].step \notin VaultRest /\ cache[p].state = "ready"
      /\ ~cache[p].needsRead
  BY DEF VaultInv, Decide, VaultRest, CallOk
<1>2. UNCHANGED <<item, legacy, settings, lease, cache, newest>>
  BY DEF Decide
<1>3. /\ \A n \in KeyNames : Vault(p).has[n] # 0 => Known(item) /\ item.has[n] = Vault(p).has[n]
      /\ item.has = Vault(p).has
  BY <1>1, CopyShows
<1> SUFFICES /\ Sole(p) /\ CallOk(p)' /\ KeychainOk'
             /\ doing'[p].step \notin {"migrate", "migrated"}
             /\ minted' \in Nat /\ handed' \in [KeyNames -> SUBSET Int]
             /\ told' \in [{"hash", "discord"} -> Int]
  <2>1. ASSUME /\ Sole(p) /\ CallOk(p)' /\ KeychainOk'
               /\ doing'[p].step \notin {"migrate", "migrated"}
               /\ minted' \in Nat /\ handed' \in [KeyNames -> SUBSET Int]
               /\ told' \in [{"hash", "discord"} -> Int]
        PROVE  VaultInv'
    <3>1. VaultTypeOK' /\ HolderAlone'
      BY <1>1, <1>2, <2>1, HolderKept DEF VaultTypeOK, Sole
    <3>2. CopyOk(p)'
      BY <1>1, <1>2, <2>1 DEF CopyOk, InSync, Vault, NoLegacy
    <3> QED BY <1>1, <1>2, <2>1, <3>1, <3>2, OthersKept DEF VaultInv
  <2> QED BY <2>1
<1>4. CASE EndCall(p) /\ UNCHANGED minted
  <2>1. Sole(p) /\ doing'[p].step = "none" /\ doing'[p].kind = "none"
    BY <1>1, <1>2, <1>4, EndForm DEF Sole, VaultTypeOK
  <2>2. CallOk(p)'
    BY <2>1 DEF CallOk, VaultRest
  <2>3. CASE /\ Vault(p).has["index"] # 0 /\ Hands("index", Vault(p).has["index"])
             /\ UNCHANGED told
    BY <1>1, <1>2, <1>3, <1>4, <2>1, <2>2, <2>3, HandsKept DEF VaultTypeOK, KeyNames, KeychainOk
  <2>4. CASE /\ Vault(p).has["discord"] = 0 /\ told' = [told EXCEPT !["discord"] = 0]
             /\ UNCHANGED handed
    <3>1. KeychainOk' /\ told' \in [{"hash", "discord"} -> Int]
      BY <1>1, <1>2, <1>3, <2>4 DEF VaultTypeOK, KeychainOk
    <3> QED BY <1>1, <1>4, <2>1, <2>2, <2>4, <3>1 DEF VaultTypeOK
  <2>5. doing'[p].step # "write"
    BY <2>1
  <2>6. doing[p].step = "act" /\ UNCHANGED minted
    BY <1>1, <1>4
  <2>7. doing' # [doing EXCEPT ![p].step = "write", ![p].vault = Candidate(p)]
    BY <1>1, <2>5 DEF VaultTypeOK, CallForm
  <2> QED BY <2>3, <2>4, <2>7 DEF Decide
<1>5. CASE /\ doing[p].kind = "index" => Vault(p).has["index"] = 0
           /\ doing' = [doing EXCEPT ![p].step = "write", ![p].vault = Candidate(p)]
           /\ minted' = IF doing[p].kind \in KeyNames THEN minted + 1 ELSE minted
           /\ UNCHANGED <<handed, told>>
  <2> DEFINE w == Candidate(p)
  <2>1. /\ w \in VaultForm
        /\ \A n \in KeyNames : Vault(p).has[n] # 0 => w.has[n] = Vault(p).has[n]
        /\ Vault(p).has["hash"] # 0 => w.has["hash"] # 0
        /\ doing[p].kind \in KeyNames => w.has[doing[p].kind] # 0
        /\ w.has["hash"] = IF doing[p].kind = "hash" THEN doing[p].value
                           ELSE Vault(p).has["hash"]
        /\ w.has["discord"] = IF doing[p].kind \in {"discord", "forget"} THEN doing[p].value
                              ELSE Vault(p).has["discord"]
        /\ Encoded(w).edition >= Encoded(Vault(p)).edition
    BY <1>5, CandidateForm
  <2>2. doing' = [doing EXCEPT ![p].step = "write", ![p].vault = w]
    BY <1>5
  <2> HIDE DEF w
  <2>3. /\ doing' \in [App -> CallForm] /\ \A q \in App \ {p} : doing'[q] = doing[q]
        /\ doing'[p].step = "write" /\ doing'[p].kind = doing[p].kind
        /\ doing'[p].value = doing[p].value /\ doing'[p].vault = w
    <3>1. VaultTypeOK /\ w \in VaultForm /\ "write" \in StepNames
      BY <1>1, <2>1 DEF StepNames
    <3>2. doing \in [App -> CallForm]
      BY <3>1 DEF VaultTypeOK
    <3> QED BY <2>2, <3>1, <3>2 DEF CallForm
  <2>4. Sole(p)
    BY <1>1, <1>2, <2>3 DEF Sole, VaultTypeOK
  <2>5. Adds(doing'[p], Vault(p))
    BY <2>1, <2>3 DEF Adds
  <2>6. CallOk(p)'
    <3>1. cache'[p] = cache[p] /\ Vault(p)' = Vault(p)
      BY <1>2 DEF Vault
    <3> QED BY <1>1, <2>3, <2>5, <3>1 DEF CallOk, VaultRest
  <2>7. KeychainOk'
    BY <1>1, <1>2, <1>5 DEF KeychainOk
  <2>8. minted' \in Nat
    BY <1>1, <1>5 DEF VaultTypeOK
  <2> QED BY <1>1, <1>5, <2>3, <2>4, <2>6, <2>7, <2>8 DEF VaultTypeOK
<1> QED BY <1>4, <1>5 DEF Decide

(* An item that is written in place of one that the copy was in step with,  *)
(* or that was not there, keeps every key and every promise.                *)
LEMMA WrittenKept ==
  ASSUME VaultInv, NEW p \in App, doing[p].step \in {"write", "migrate"},
         item' \in {item, Encoded(doing[p].vault)}, UNCHANGED <<legacy, settings, handed>>,
         newest' = IF item'.edition > newest THEN item'.edition ELSE newest, Doubt(p)
  PROVE  /\ item' \in ItemForm /\ WellFormed(item') /\ item'.edition <= 3
         /\ told' \in [{"hash", "discord"} -> Int]
         /\ KeychainOk'
         /\ doing[p].step = "write" =>
              /\ \A n \in KeyNames : Vault(p).has[n] # 0 => item'.has[n] = Vault(p).has[n]
              /\ Vault(p).has["hash"] # 0 => item'.has["hash"] # 0
              /\ ~cache[p].persisted => NoLegacy
              /\ LET c == doing[p]
                 IN /\ c.kind \in KeyNames => c.vault.has[c.kind] # 0
                    /\ c.kind = "hash" => c.vault.has["hash"] = c.value
                    /\ c.kind \in {"discord", "forget"} => c.vault.has["discord"] = c.value
<1> DEFINE w == doing[p].vault
           kind == doing[p].kind
<1>1. /\ VaultTypeOK /\ CallOk(p) /\ CopyOk(p) /\ KeychainOk
      /\ cache[p].state = "ready" /\ kind # "none"
      /\ w \in VaultForm /\ Vault(p) \in VaultForm
  BY DEF VaultInv, CallOk, VaultRest, VaultTypeOK, CallForm, CacheForm, Vault
<1>2. /\ Encoded(w) \in ItemForm /\ WellFormed(Encoded(w))
      /\ Encoded(w).has = w.has /\ Encoded(w).edition \in 1..3
  BY <1>1, EncodedFacts
<1>3. /\ told' \in [{"hash", "discord"} -> Int]
      /\ told'["hash"] \in {told["hash"], Unsure} /\ told'["discord"] \in {told["discord"], Unsure}
      /\ kind = "hash" => told'["hash"] = Unsure
      /\ kind \in {"discord", "forget"} => told'["discord"] = Unsure
  <2>1. told \in [{"hash", "discord"} -> Int] /\ Unsure \in Int
    BY <1>1 DEF VaultTypeOK, Unsure
  <2>2. CASE kind = "hash"
    <3>1. told' = [told EXCEPT !["hash"] = Unsure]
      BY <2>2 DEF Doubt
    <3> QED BY <2>1, <2>2, <3>1
  <2>3. CASE kind \in {"discord", "forget"}
    <3>1. told' = [told EXCEPT !["discord"] = Unsure]
      BY <2>3 DEF Doubt
    <3> QED BY <2>1, <2>3, <3>1
  <2>4. CASE kind \notin {"hash", "discord", "forget"}
    <3>1. told' = told
      BY <2>4 DEF Doubt
    <3> QED BY <2>1, <2>4, <3>1
  <2> QED BY <2>2, <2>3, <2>4
<1>4. CASE doing[p].step = "write"
  <2>1. ~cache[p].needsRead /\ InSync(p) /\ Adds(doing[p], Vault(p))
    BY <1>1, <1>4 DEF CallOk, CopyOk
  <2>2. item.has = Vault(p).has /\ item.edition <= 3
    BY <1>1, <2>1, InSyncShows
  <2>3. Encoded(w).edition >= item.edition
    BY <1>1, <1>2, <2>1 DEF InSync, Adds, VaultTypeOK, ItemForm
  <2>4. newest' = item'.edition
    BY <1>1, <1>2, <2>3 DEF KeychainOk, VaultTypeOK, ItemForm
  <2>5. ~Known(item) => item.edition = 0 /\ NoLegacy
    BY <1>1, <2>1, <2>2, EncodedFacts DEF InSync, Known, VaultTypeOK, ItemForm
  <2>6. \A n \in KeyNames : item.has[n] # 0 => item'.has[n] = item.has[n]
    BY <1>2, <2>1, <2>2 DEF Adds
  <2>7. item'.has["hash"] = item.has["hash"] \/ kind = "hash"
    BY <1>2, <2>1, <2>2 DEF Adds
  <2>8. item'.has["discord"] = item.has["discord"] \/ kind \in {"discord", "forget"}
    BY <1>2, <2>1, <2>2 DEF Adds
  <2>9. item.has["hash"] # 0 => item'.has["hash"] # 0
    BY <1>2, <2>1, <2>2 DEF Adds
  <2>10. Known(item) => Known(item')
    BY <1>2 DEF Known
  <2>11. KeychainOk'
    <3>1. \A n \in KeyNames : \A key \in handed'[n] : Known(item') /\ key # 0 /\ item'.has[n] = key
      BY <1>1, <2>6, <2>10 DEF KeychainOk
    <3>2. \A n \in DatabaseKeys : Known(item') /\ legacy'[n] # 0 => item'.has[n] = legacy'[n]
      <4>1. CASE Known(item)
        BY <1>1, <2>6, <4>1 DEF KeychainOk, KeyNames
      <4>2. CASE ~Known(item)
        BY <1>1, <2>5, <4>2 DEF NoLegacy, VaultTypeOK, DatabaseKeys
      <4> QED BY <4>1, <4>2
    <3>3. \A n \in {"hash", "discord"} : told'[n] # Unsure => item'.has[n] = told'[n]
      BY <1>1, <1>3, <2>7, <2>8 DEF KeychainOk
    <3>4. settings' => item'.has["hash"] # 0
      BY <1>1, <2>9 DEF KeychainOk
    <3>5. told'["hash"] # 0
      BY <1>1, <1>3 DEF KeychainOk, Unsure
    <3> QED BY <2>4, <3>1, <3>2, <3>3, <3>4, <3>5 DEF KeychainOk
  <2>12. /\ \A n \in KeyNames : Vault(p).has[n] # 0 => item'.has[n] = Vault(p).has[n]
         /\ Vault(p).has["hash"] # 0 => item'.has["hash"] # 0
    BY <2>2, <2>6, <2>9
  <2>13. ~cache[p].persisted => NoLegacy
    BY <2>1 DEF InSync
  <2>14. LET c == doing[p]
         IN /\ c.kind \in KeyNames => c.vault.has[c.kind] # 0
            /\ c.kind = "hash" => c.vault.has["hash"] = c.value
            /\ c.kind \in {"discord", "forget"} => c.vault.has["discord"] = c.value
    BY <2>1 DEF Adds
  <2>15. item' \in ItemForm /\ WellFormed(item') /\ item'.edition <= 3
    BY <1>1, <1>2, <2>2 DEF VaultTypeOK
  <2> QED BY <1>3, <2>11, <2>12, <2>13, <2>14, <2>15
<1>5. CASE doing[p].step = "migrate"
  <2>1. w = Migrated /\ item.edition = 0 /\ item.has = [n \in Names |-> 0]
    BY <1>1, <1>5, BlankVault DEF CallOk, VaultTypeOK, WellFormed
  <2>2. item' \in ItemForm /\ WellFormed(item') /\ item'.edition <= 3
    BY <1>1, <1>2, <2>1 DEF VaultTypeOK
  <2>3. newest' = item'.edition
    BY <1>1, <1>2, <2>1 DEF KeychainOk, VaultTypeOK, ItemForm
  <2>4. \A n \in KeyNames : handed'[n] = {}
    BY <1>1, <2>1 DEF KeychainOk, Known
  <2>5. \A n \in DatabaseKeys : Known(item') /\ legacy'[n] # 0 => item'.has[n] = legacy'[n]
    BY <1>1, <1>2, <2>1, MigratedForm DEF Known
  <2>6. told["hash"] = Unsure /\ ~settings
    BY <1>1, <2>1 DEF KeychainOk, Names
  <2>7. told["discord"] # Unsure => told["discord"] = 0
    BY <1>1, <2>1 DEF KeychainOk, Names
  <2>8. item'.has["discord"] = 0
    BY <1>1, <1>2, <2>1, MigratedForm DEF Names
  <2>9. \A n \in {"hash", "discord"} : told'[n] # Unsure => item'.has[n] = told'[n]
    BY <1>3, <2>6, <2>7, <2>8
  <2>10. KeychainOk'
    BY <1>3, <2>3, <2>4, <2>5, <2>6, <2>9 DEF KeychainOk, Unsure
  <2> QED BY <1>3, <1>5, <2>2, <2>10
<1> QED BY <1>4, <1>5

LEMMA WriteItemKept ==
  ASSUME VaultInv, NEW p \in App, WriteItem(p)
  PROVE  VaultInv'
<1> DEFINE w == doing[p].vault
<1>1. /\ VaultTypeOK /\ CallOk(p) /\ CopyOk(p) /\ KeychainOk
      /\ doing[p].step \in {"write", "migrate"} /\ doing[p].step \notin VaultRest
      /\ cache[p].state = "ready" /\ w \in VaultForm
  BY DEF VaultInv, WriteItem, CallOk, VaultRest, VaultTypeOK, CallForm
<1>2. /\ item' \in {item, Encoded(w)}
      /\ UNCHANGED <<legacy, settings, lease, minted, launches, handed>>
      /\ newest' = IF item'.edition > newest THEN item'.edition ELSE newest
      /\ Doubt(p)
  BY DEF WriteItem
<1>3. /\ item' \in ItemForm /\ WellFormed(item') /\ item'.edition <= 3
      /\ told' \in [{"hash", "discord"} -> Int]
      /\ KeychainOk'
      /\ doing[p].step = "write" =>
           /\ \A n \in KeyNames : Vault(p).has[n] # 0 => item'.has[n] = Vault(p).has[n]
           /\ Vault(p).has["hash"] # 0 => item'.has["hash"] # 0
           /\ ~cache[p].persisted => NoLegacy
           /\ LET c == doing[p]
              IN /\ c.kind \in KeyNames => c.vault.has[c.kind] # 0
                 /\ c.kind = "hash" => c.vault.has["hash"] = c.value
                 /\ c.kind \in {"discord", "forget"} => c.vault.has["discord"] = c.value
  BY <1>1, <1>2, WrittenKept
<1> SUFFICES Sole(p) /\ CopyOk(p)' /\ CallOk(p)'
  <2>1. ASSUME Sole(p), CopyOk(p)', CallOk(p)'
        PROVE  VaultInv'
    <3>1. VaultTypeOK' /\ HolderAlone'
      BY <1>1, <1>2, <1>3, <2>1, HolderKept DEF VaultTypeOK, Sole
    <3> QED BY <1>1, <1>2, <1>3, <2>1, <3>1, OthersKept DEF VaultInv
  <2> QED BY <2>1
<1>4. NoLegacy' = NoLegacy /\ Migrated' = Migrated
  BY <1>2 DEF NoLegacy, Migrated
<1>5. ASSUME doing[p].step = "write",
             /\ cache'[p].state = cache[p].state /\ cache'[p].vault = cache[p].vault
             /\ cache'[p].persisted = cache[p].persisted /\ cache'[p].needsRead
      PROVE  CopyOk(p)'
  BY <1>1, <1>3, <1>4, <1>5 DEF CopyOk, Follows, Vault
<1>6. CASE /\ item' = Encoded(w) /\ Uncertain(p)
           /\ Turns(p, IF doing[p].step = "write" THEN "written" ELSE "migrated")
  <2> DEFINE s == IF doing[p].step = "write" THEN "written" ELSE "migrated"
  <2>1. /\ cache' \in [App -> CacheForm] /\ \A q \in App \ {p} : cache'[q] = cache[q]
        /\ cache'[p].state = cache[p].state /\ cache'[p].vault = cache[p].vault
        /\ cache'[p].persisted = cache[p].persisted /\ cache'[p].needsRead
    BY <1>1, <1>6, UncertainForm
  <2>2. s \in StepNames
    BY DEF StepNames
  <2>3. Turns(p, s)
    BY <1>6
  <2> HIDE DEF s
  <2>4. /\ doing' \in [App -> CallForm] /\ \A q \in App \ {p} : doing'[q] = doing[q]
        /\ doing'[p].step = s /\ doing'[p].kind = doing[p].kind
        /\ doing'[p].value = doing[p].value /\ doing'[p].vault = w
    BY <1>1, <2>2, <2>3, TurnsForm
  <2>5. Sole(p)
    BY <2>1, <2>4 DEF Sole
  <2>6. CASE doing[p].step = "write"
    <3>1. s = "written"
      BY <2>6 DEF s
    <3>2. Encoded(w).has = w.has
      BY <1>1, EncodedFacts
    <3>3. IsWritten(doing[p])'
      BY <1>3, <1>6, <2>4, <2>6, <3>2 DEF IsWritten
    <3>4. CallOk(p)'
      BY <1>1, <2>1, <2>4, <3>1, <3>3 DEF CallOk, VaultRest, IsWritten
    <3> QED BY <1>5, <2>1, <2>5, <2>6, <3>4
  <2>7. CASE doing[p].step = "migrate"
    <3>1. s = "migrated"
      BY <2>7 DEF s
    <3>2. CopyOk(p)'
      BY <1>3, <2>1, <2>4, <3>1 DEF CopyOk
    <3>3. w = Migrated
      BY <1>1, <2>7 DEF CallOk
    <3>4. CallOk(p)'
      BY <1>1, <1>4, <1>6, <2>1, <2>4, <3>1, <3>3 DEF CallOk, VaultRest
    <3> QED BY <2>5, <3>2, <3>4
  <2> QED BY <1>1, <2>6, <2>7
<1>7. CASE GivesUp(p)
  <2>1. /\ doing' \in [App -> CallForm] /\ \A q \in App \ {p} : doing'[q] = doing[q]
        /\ doing'[p].step = "none" /\ doing'[p].kind = "none"
    BY <1>1, <1>7, EndForm DEF GivesUp
  <2>2. CallOk(p)'
    BY <2>1 DEF CallOk, VaultRest
  <2>3. CASE doing[p].step = "write"
    <3>1. Uncertain(p)
      BY <1>7, <2>3 DEF GivesUp
    <3>2. /\ cache' \in [App -> CacheForm] /\ \A q \in App \ {p} : cache'[q] = cache[q]
          /\ cache'[p].state = cache[p].state /\ cache'[p].vault = cache[p].vault
          /\ cache'[p].persisted = cache[p].persisted /\ cache'[p].needsRead
      BY <1>1, <3>1, UncertainForm
    <3> QED BY <1>5, <2>1, <2>2, <2>3, <3>2 DEF Sole
  <2>4. CASE doing[p].step = "migrate"
    <3>1. Cached(p, [Unloaded EXCEPT !.state = "failed"])
      BY <1>7, <2>4 DEF GivesUp
    <3>2. /\ cache' \in [App -> CacheForm] /\ \A q \in App \ {p} : cache'[q] = cache[q]
          /\ cache'[p].state = "failed"
      BY <1>1, <3>1, CachedForm, UnloadedForm
    <3> QED BY <2>1, <2>2, <3>2 DEF Sole, CopyOk
  <2> QED BY <1>1, <2>3, <2>4
<1> QED BY <1>6, <1>7 DEF WriteItem

LEMMA ReadBackKept ==
  ASSUME VaultInv, NEW p \in App, ReadBack(p)
  PROVE  VaultInv'
<1> DEFINE w == doing[p].vault
           kind == doing[p].kind
<1>1. /\ VaultTypeOK /\ CallOk(p) /\ CopyOk(p) /\ KeychainOk
      /\ doing[p].step \in {"written", "migrated"} /\ doing[p].step \notin VaultRest
      /\ cache[p].state = "ready" /\ w \in VaultForm
  BY DEF VaultInv, ReadBack, CallOk, VaultRest, VaultTypeOK, CallForm
<1>2. UNCHANGED <<item, legacy, settings, lease, minted, launches, newest>>
  BY DEF ReadBack
<1>3. CASE GivesUp(p) /\ UNCHANGED <<handed, told>>
  <2>1. /\ doing' \in [App -> CallForm] /\ \A q \in App \ {p} : doing'[q] = doing[q]
        /\ doing'[p].step = "none" /\ doing'[p].kind = "none"
    BY <1>1, <1>3, EndForm DEF GivesUp
  <2>2. CallOk(p)'
    BY <2>1 DEF CallOk, VaultRest
  <2>3. Sole(p) /\ CopyOk(p)'
    <3>1. CASE doing[p].step = "written"
      <4>1. Uncertain(p)
        BY <1>3, <3>1 DEF GivesUp
      <4>2. /\ cache' \in [App -> CacheForm] /\ \A q \in App \ {p} : cache'[q] = cache[q]
            /\ cache'[p].state = cache[p].state /\ cache'[p].vault = cache[p].vault
            /\ cache'[p].persisted = cache[p].persisted /\ cache'[p].needsRead
        BY <1>1, <4>1, UncertainForm
      <4>3. cache[p].needsRead
        BY <1>1, <3>1 DEF CallOk
      <4>4. CopyOk(p)'
        BY <1>1, <1>2, <3>1, <4>2, <4>3 DEF CopyOk, Follows, Vault, NoLegacy
      <4> QED BY <2>1, <4>2, <4>4 DEF Sole
    <3>2. CASE doing[p].step = "migrated"
      <4>1. Cached(p, [Unloaded EXCEPT !.state = "failed"])
        BY <1>3, <3>2 DEF GivesUp
      <4>2. /\ cache' \in [App -> CacheForm] /\ \A q \in App \ {p} : cache'[q] = cache[q]
            /\ cache'[p].state = "failed"
        BY <1>1, <4>1, CachedForm, UnloadedForm
      <4> QED BY <2>1, <4>2 DEF Sole, CopyOk
    <3> QED BY <1>1, <3>1, <3>2
  <2>4. VaultTypeOK' /\ HolderAlone' /\ KeychainOk'
    BY <1>1, <1>2, <1>3, <2>3, HolderKept DEF VaultTypeOK, Sole, KeychainOk
  <2> QED BY <1>1, <1>2, <2>2, <2>3, <2>4, OthersKept DEF VaultInv
<1>4. CASE item = Encoded(w) /\ Cached(p, Ready(w, TRUE))
  <2>1. /\ cache' \in [App -> CacheForm] /\ \A q \in App \ {p} : cache'[q] = cache[q]
        /\ cache'[p].state = "ready" /\ cache'[p].vault = w /\ cache'[p].persisted
        /\ ~cache'[p].needsRead
    BY <1>1, <1>4, CachedReady
  <2>2. item.has = w.has /\ item.edition \in 1..3 /\ Known(item)
    BY <1>1, <1>4, EncodedFacts DEF Known
  <2>3. CopyOk(p)'
    BY <1>2, <1>4, <2>1, <2>2 DEF CopyOk, InSync, Vault
  <2>4. CASE doing[p].step = "migrated" /\ Turns(p, "act") /\ UNCHANGED <<handed, told>>
    <3>1. /\ doing' \in [App -> CallForm] /\ \A q \in App \ {p} : doing'[q] = doing[q]
          /\ doing'[p].step = "act" /\ doing'[p].kind = doing[p].kind
          /\ doing'[p].value = doing[p].value
      BY <1>1, <2>4, TurnsForm DEF StepNames
    <3>2. Sole(p) /\ CallOk(p)'
      BY <1>1, <2>1, <3>1 DEF Sole, CallOk, VaultRest
    <3>3. VaultTypeOK' /\ HolderAlone' /\ KeychainOk'
      BY <1>1, <1>2, <2>4, <3>2, HolderKept DEF VaultTypeOK, Sole, KeychainOk
    <3> QED BY <1>1, <1>2, <2>3, <3>2, <3>3, OthersKept DEF VaultInv
  <2>5. CASE /\ doing[p].step = "written"
             /\ IF kind = "hash" THEN Turns(p, "file") ELSE EndCall(p)
             /\ IF kind \in KeyNames THEN Hands(kind, w.has[kind]) ELSE UNCHANGED handed
             /\ told' = CASE kind = "hash" -> [told EXCEPT !["hash"] = doing[p].value]
                          [] kind \in {"discord", "forget"} ->
                               [told EXCEPT !["discord"] = doing[p].value]
                          [] OTHER -> told
    <3>1. IsWritten(doing[p]) /\ doing[p].value \in Int /\ (kind = "hash" => doing[p].value # 0)
      BY <1>1, <2>5 DEF CallOk, VaultTypeOK, CallForm
    <3>2. /\ doing' \in [App -> CallForm] /\ \A q \in App \ {p} : doing'[q] = doing[q]
          /\ \/ /\ doing'[p].step = "none" /\ doing'[p].kind = "none"
             \/ /\ doing'[p].step = "file" /\ doing'[p].kind = "hash" /\ kind = "hash"
                /\ doing'[p].value = doing[p].value
      <4>1. CASE kind = "hash"
        BY <1>1, <2>5, <4>1, TurnsForm DEF StepNames
      <4>2. CASE kind # "hash"
        BY <1>1, <2>5, <4>2, EndForm
      <4> QED BY <4>1, <4>2
    <3>3. Sole(p)
      BY <2>1, <3>2 DEF Sole
    <3>4. CallOk(p)'
      BY <1>2, <2>1, <3>1, <3>2 DEF CallOk, VaultRest, IsWritten
    <3>5. /\ told' \in [{"hash", "discord"} -> Int]
          /\ told'["hash"] # 0
          /\ \A n \in {"hash", "discord"} : told'[n] # Unsure => item.has[n] = told'[n]
      <4>1. /\ told \in [{"hash", "discord"} -> Int]
            /\ \A n \in {"hash", "discord"} : told[n] # Unsure => item.has[n] = told[n]
            /\ told["hash"] # 0
        BY <1>1 DEF VaultTypeOK, KeychainOk
      <4>2. CASE kind = "hash"
        <5>1. told' = [told EXCEPT !["hash"] = doing[p].value]
          BY <2>5, <4>2
        <5> QED BY <3>1, <4>1, <4>2, <5>1 DEF IsWritten
      <4>3. CASE kind \in {"discord", "forget"}
        <5>1. told' = [told EXCEPT !["discord"] = doing[p].value]
          BY <2>5, <4>3
        <5> QED BY <3>1, <4>1, <4>3, <5>1 DEF IsWritten
      <4>4. CASE kind \notin {"hash", "discord", "forget"}
        <5>1. told' = told
          BY <2>5, <4>4
        <5> QED BY <4>1, <5>1
      <4> QED BY <4>2, <4>3, <4>4
    <3>6. /\ handed' \in [KeyNames -> SUBSET Int]
          /\ \A n \in KeyNames : \A key \in handed'[n] : key # 0 /\ item.has[n] = key
      <4>1. /\ handed \in [KeyNames -> SUBSET Int]
            /\ \A n \in KeyNames : \A key \in handed[n] : key # 0 /\ item.has[n] = key
        BY <1>1 DEF VaultTypeOK, KeychainOk
      <4>2. CASE kind \in KeyNames
        <5>1. item.has[kind] # 0 /\ item.has[kind] \in Int
          BY <1>1, <3>1, <4>2 DEF IsWritten, VaultTypeOK, ItemForm, Names
        <5>2. handed' = [handed EXCEPT ![kind] = @ \cup {item.has[kind]}]
          BY <2>2, <2>5, <4>2 DEF Hands
        <5> QED BY <4>1, <4>2, <5>1, <5>2
      <4>3. CASE kind \notin KeyNames
        BY <2>5, <4>1, <4>3
      <4> QED BY <4>2, <4>3
    <3>7. KeychainOk'
      BY <1>1, <1>2, <2>2, <3>5, <3>6 DEF KeychainOk
    <3>8. VaultTypeOK' /\ HolderAlone'
      BY <1>1, <1>2, <3>3, <3>5, <3>6, HolderKept DEF VaultTypeOK, Sole
    <3> QED BY <1>1, <1>2, <2>3, <3>3, <3>4, <3>7, <3>8, OthersKept DEF VaultInv
  <2> QED BY <1>1, <1>4, <2>4, <2>5, <1>3 DEF ReadBack
<1> QED BY <1>3, <1>4 DEF ReadBack

LEMMA WriteSettingsKept ==
  ASSUME VaultInv, NEW p \in App, WriteSettings(p)
  PROVE  VaultInv'
<1>1. /\ VaultTypeOK /\ CallOk(p) /\ CopyOk(p) /\ KeychainOk
      /\ doing[p].step = "file" /\ doing[p].step \notin VaultRest
      /\ item.has["hash"] # 0
  BY DEF VaultInv, WriteSettings, CallOk, VaultRest
<1>2. UNCHANGED <<item, legacy, lease, cache, minted, launches, handed, told, newest>>
      /\ settings' \in {settings, TRUE}
  BY DEF WriteSettings
<1>3. /\ doing' \in [App -> CallForm] /\ \A q \in App \ {p} : doing'[q] = doing[q]
      /\ doing'[p].step = "none" /\ doing'[p].kind = "none"
  BY <1>1, EndForm DEF WriteSettings
<1>4. Sole(p)
  BY <1>1, <1>2, <1>3 DEF Sole, VaultTypeOK
<1>5. CopyOk(p)' /\ CallOk(p)'
  BY <1>1, <1>2, <1>3 DEF CopyOk, CallOk, VaultRest, InSync, Vault, NoLegacy, Follows
<1>6. VaultTypeOK' /\ HolderAlone' /\ KeychainOk'
  BY <1>1, <1>2, <1>4, HolderKept DEF VaultTypeOK, Sole, KeychainOk
<1> QED BY <1>1, <1>2, <1>4, <1>5, <1>6, OthersKept DEF VaultInv

(* A process that is closed, or dead, has no copy and no call.              *)
LEMMA LeaveKept ==
  ASSUME VaultInv, NEW p \in App, NEW c \in {Gone, Closed}, Leave(p),
         doing' = [doing EXCEPT ![p] = c]
  PROVE  VaultInv'
<1>1. VaultTypeOK /\ HolderAlone
  BY DEF VaultInv
<1>2. /\ cache' \in [App -> CacheForm] /\ \A q \in App \ {p} : cache'[q] = cache[q]
      /\ cache'[p].state = "unloaded"
  BY <1>1, UnloadedForm DEF Leave, VaultTypeOK
<1>3. /\ doing' \in [App -> CallForm] /\ \A q \in App \ {p} : doing'[q] = doing[q]
      /\ doing'[p].step \in VaultRest /\ doing'[p].kind = "none"
  BY <1>1, RestForm DEF VaultTypeOK, VaultRest
<1>4. Sole(p)
  BY <1>2, <1>3 DEF Sole
<1>5. VaultTypeOK' /\ KeychainOk'
  BY <1>1, <1>4 DEF VaultInv, VaultTypeOK, KeychainOk, Leave, Sole
<1>6. HolderAlone'
  BY <1>1, <1>2, <1>3 DEF HolderAlone, Leave
<1>7. CopyOk(p)' /\ CallOk(p)'
  BY <1>2, <1>3 DEF CopyOk, CallOk, VaultRest
<1> QED BY <1>4, <1>5, <1>6, <1>7, OthersStay DEF VaultInv, Leave

(* The invariant that the steps of the vault keep.                          *)
THEOREM VaultInductive == VaultSpec => []VaultInv
<1>1. ASSUME VaultInv, VaultNext
      PROVE  VaultInv'
  <2>1. PICK p \in App :
          \/ Launch(p) \/ CallVault(p) \/ Load(p) \/ AnswerByCopy(p) \/ Reconcile(p) \/ Decide(p)
          \/ WriteItem(p) \/ ReadBack(p) \/ WriteSettings(p) \/ Clear(p) \/ Die(p)
    BY <1>1 DEF VaultNext
  <2>2. CASE Launch(p)         BY <1>1, <2>2, LaunchKept
  <2>3. CASE CallVault(p)      BY <1>1, <2>3, CallVaultKept
  <2>4. CASE Load(p)           BY <1>1, <2>4, LoadKept
  <2>5. CASE AnswerByCopy(p)   BY <1>1, <2>5, AnswerByCopyKept
  <2>6. CASE Reconcile(p)      BY <1>1, <2>6, ReconcileKept
  <2>7. CASE Decide(p)         BY <1>1, <2>7, DecideKept
  <2>8. CASE WriteItem(p)      BY <1>1, <2>8, WriteItemKept
  <2>9. CASE ReadBack(p)       BY <1>1, <2>9, ReadBackKept
  <2>10. CASE WriteSettings(p) BY <1>1, <2>10, WriteSettingsKept
  <2>11. CASE Clear(p)         BY <1>1, <2>11, LeaveKept DEF Clear
  <2>12. CASE Die(p)           BY <1>1, <2>12, LeaveKept DEF Die
  <2> QED BY <2>1, <2>2, <2>3, <2>4, <2>5, <2>6, <2>7, <2>8, <2>9, <2>10, <2>11, <2>12
<1>2. ASSUME VaultInv, UNCHANGED vaultVars
      PROVE  VaultInv'
  <2>1. VaultTypeOK' /\ HolderAlone' /\ KeychainOk'
    BY <1>2 DEF vaultVars, VaultInv, VaultTypeOK, HolderAlone, KeychainOk
  <2>2. /\ UNCHANGED <<NoLegacy, Migrated, item, cache, doing>>
        /\ \A p \in App : UNCHANGED Vault(p)
    BY <1>2 DEF vaultVars, NoLegacy, Migrated, Vault
  <2>3. \A p \in App : CopyOk(p)' /\ CallOk(p)'
    BY <1>2, <2>2 DEF VaultInv, CopyOk, CallOk, InSync, Follows, Adds, IsWritten
  <2> QED BY <2>1, <2>3 DEF VaultInv
<1> QED BY <1>1, <1>2, VaultBegins, PTL DEF VaultSpec

(* A secret that was given out is kept: any process, any launch, any write  *)
(* that fails half way (vault.rs, load_vault, reconcile and commit).        *)
THEOREM SecretsKept == VaultSpec => []SecretsAreKept
<1>1. ASSUME VaultInv
      PROVE  SecretsAreKept
  <2>1. VaultTypeOK /\ KeychainOk
    BY <1>1 DEF VaultInv
  <2>2. Held = item.has
    BY <2>1 DEF Held, VaultTypeOK, WellFormed
  <2>3. DOMAIN legacy = {"hash", "tdlib", "jobs"} /\ DOMAIN told = {"hash", "discord"}
    BY <2>1 DEF VaultTypeOK
  <2>4. \A n \in KeyNames : n \in DOMAIN legacy => n \in DatabaseKeys
    BY <2>3 DEF KeyNames, DatabaseKeys
  <2> QED BY <2>1, <2>2, <2>3, <2>4 DEF KeychainOk, SecretsAreKept
<1> QED BY <1>1, VaultInductive, PTL

-----------------------------------------------------------------------------
(* The catalog: marks, updates that are to come, and readers.               *)

Reading == {"load", "refresh", "again", "direct"}
Refreshing == {"refresh", "again"}
Holding == {"load", "again", "reload"}
ReaderForm == [at : {"idle", "wait", "reload", "unmark", "mutated"} \cup Reading, ids : SUBSET Chats,
               left : SUBSET Chats, read : [Chats -> Nat]]

CatalogTypeOK ==
  /\ shown \subseteq Chats /\ version \in [Chats -> Nat]
  /\ updates \in Seq(Chats) /\ resolving \subseteq Chats /\ \A c, d \in resolving : c = d
  /\ loaded \in BOOLEAN /\ summary \in [Chats -> Nat]
  /\ dirty \subseteq Chats /\ overtaken \subseteq Chats
  /\ reading \in [Callers -> ReaderForm]
  /\ clearing \in BOOLEAN /\ changes \in Nat

(* What a caller still has to read it will write; one that loads has no     *)
(* chats but those of the lists.                                            *)
ReadersOk ==
  \A a \in Callers :
    /\ reading[a].left \subseteq reading[a].ids
    /\ reading[a].left # {} => reading[a].at \in Reading
    /\ reading[a].at = "load" => \A c \in Chats \ reading[a].ids : reading[a].read[c] = Absent

(* One caller has the lock at a time, and nobody has what it loads.         *)
LoadsAlone ==
  \A a \in Callers :
    /\ reading[a].at = "load" => ~loaded
    /\ reading[a].at \in Holding => \A b \in Callers \ {a} : reading[b].at \notin Holding

(* The loop that is about to drop the marks has no update in hand.          *)
ClearsAlone == clearing => resolving = {}

(* The update of c is still to be processed.                                *)
Announced(c) == c \in resolving \/ \E n \in DOMAIN updates : updates[n] = c

(* A refresh has taken the mark of c and will write what c is.              *)
Refreshes(a, c) ==
  /\ reading[a].at \in Refreshing /\ c \in reading[a].ids
  /\ c \in reading[a].left \/ reading[a].read[c] = Current(c)

(* A difference does not rest on a reader of one chat: it may fail; nor on  *)
(* a mark while the marks are about to be dropped.                          *)
Owed(c) ==
  \/ Announced(c)
  \/ ~clearing /\ (c \in dirty \/ \E a \in Callers : Refreshes(a, c))

StaleIsOwed == loaded => \A c \in Chats : summary[c] # Current(c) => Owed(c) \/ c \in overtaken

(* A reader that was overtaken is known, or what overtook it is announced.  *)
OvertakenIsKnown ==
  \A a \in Callers, c \in Chats : Outdated(a, c) =>
    \/ c \in overtaken
    \/ Announced(c)
    \/ reading[a].at # "load" /\ (loaded => Owed(c))

CatalogInv ==
  CatalogTypeOK /\ ReadersOk /\ LoadsAlone /\ ClearsAlone /\ StaleIsOwed /\ OvertakenIsKnown

LEMMA CallersOf == ASSUME CatalogTypeOK PROVE DOMAIN reading = Callers
BY DEF CatalogTypeOK

LEMMA IdleForm == Idle \in ReaderForm /\ Idle.at = "idle" /\ Idle.ids = {} /\ Idle.left = {}
BY DEF Idle, Unread, ReaderForm, Reading, Absent

LEMMA CurrentForm == ASSUME CatalogTypeOK, NEW c \in Chats PROVE Current(c) \in Nat
BY DEF CatalogTypeOK, Current, Absent

LEMMA QueueTailed ==
  ASSUME NEW q \in Seq(Chats), q # <<>>, NEW e, \E n \in DOMAIN q : q[n] = e
  PROVE  e = Head(q) \/ \E n \in DOMAIN Tail(q) : Tail(q)[n] = e
<1>1. PICK n \in 1..Len(q) : q[n] = e
  OBVIOUS
<1>2. CASE n = 1
  BY <1>1, <1>2
<1>3. CASE n # 1
  <2>1. PICK m \in 1..(Len(q) - 1) : n = m + 1
    BY <1>1, <1>3
  <2>2. Tail(q) \in Seq(Chats) /\ Len(Tail(q)) = Len(q) - 1 /\ Tail(q)[m] = q[m + 1]
    BY <2>1
  <2>3. m \in DOMAIN Tail(q) /\ Tail(q)[m] = e
    BY <1>1, <2>1, <2>2
  <2> QED BY <2>3
<1> QED BY <1>2, <1>3

LEMMA CatalogBegins == CatalogInit => CatalogInv
<1> SUFFICES ASSUME CatalogInit PROVE CatalogInv
  OBVIOUS
<1>1. PICK chats \in SUBSET Chats : CatalogStart(Callers, chats)
  BY DEF CatalogInit
<1>2. CatalogTypeOK
  <2>1. reading \in [Callers -> ReaderForm]
    BY <1>1, IdleForm DEF CatalogStart
  <2>2. updates = <<>> /\ <<>> \in Seq(Chats)
    BY <1>1 DEF CatalogStart
  <2>3. version \in [Chats -> Nat] /\ summary \in [Chats -> Nat] /\ changes \in Nat
    BY <1>1 DEF CatalogStart, Unread, Absent
  <2> QED BY <1>1, <2>1, <2>2, <2>3 DEF CatalogStart, CatalogTypeOK
<1>3. \A a \in Callers : reading[a] = Idle
  BY <1>1 DEF CatalogStart
<1> QED BY <1>1, <1>2, <1>3, IdleForm DEF CatalogInv, CatalogStart, ReadersOk, LoadsAlone, ClearsAlone,
     StaleIsOwed, OvertakenIsKnown, Outdated, Reading, Holding

-----------------------------------------------------------------------------
(* Marks.                                                                   *)

(* A mark is a debt while there is a cache, and tells the readers that leave*)
(* none: what was announced need not be any more.                           *)
LEMMA MarkKept ==
  ASSUME CatalogInv, NEW c \in Chats, Mark(c), ~clearing,
         UNCHANGED <<shown, version, loaded, reading, clearing, changes>>,
         summary' \in [Chats -> Nat], loaded => summary' = summary,
         updates' \in Seq(Chats), resolving' \subseteq Chats, \A d, e \in resolving' : d = e,
         \A e \in Chats : Announced(e) => e = c \/ Announced(e)'
  PROVE  CatalogInv'
<1>1. CatalogTypeOK /\ DOMAIN reading = Callers
  BY CallersOf DEF CatalogInv
<1>2. /\ dirty' \subseteq Chats /\ dirty \subseteq dirty' /\ (loaded => c \in dirty')
      /\ overtaken' \subseteq Chats /\ overtaken \subseteq overtaken'
  BY <1>1 DEF Mark, Marked, CatalogTypeOK
<1>3. CatalogTypeOK' /\ ReadersOk' /\ LoadsAlone' /\ ClearsAlone'
  BY <1>1, <1>2 DEF CatalogInv, CatalogTypeOK, ReadersOk, LoadsAlone, ClearsAlone
<1>4. \A e \in Chats : /\ Current(e)' = Current(e)
                       /\ \A a \in Callers : /\ Refreshes(a, e)' = Refreshes(a, e)
                                             /\ Outdated(a, e)' = Outdated(a, e)
  BY DEF Refreshes, Outdated, Current
<1>5. \A e \in Chats : loaded /\ Owed(e) => Owed(e)'
  BY <1>2, <1>4 DEF Owed
<1>6. StaleIsOwed'
  BY <1>2, <1>4, <1>5 DEF CatalogInv, StaleIsOwed
<1>7. OvertakenIsKnown'
  <2> SUFFICES ASSUME NEW a \in Callers, NEW e \in Chats, Outdated(a, e)
               PROVE  \/ e \in overtaken'
                      \/ Announced(e)'
                      \/ reading[a].at # "load" /\ (loaded => Owed(e)')
    BY <1>4 DEF OvertakenIsKnown
  <2>1. \/ e \in overtaken
        \/ Announced(e)
        \/ reading[a].at # "load" /\ (loaded => Owed(e))
    BY DEF CatalogInv, OvertakenIsKnown
  <2>2. reading[a].at \in Reading
    BY DEF Outdated, Reading
  <2>3. CASE Announced(e) /\ ~Announced(e)'
    <3>1. e = c
      BY <2>3
    <3>2. reading[a].at = "load" => c \in overtaken'
      BY <1>1, <3>1 DEF Mark
    <3>3. loaded => Owed(e)'
      BY <1>2, <3>1 DEF Owed
    <3> QED BY <3>1, <3>2, <3>3
  <2> QED BY <1>2, <1>5, <2>1, <2>3
<1> QED BY <1>3, <1>6, <1>7 DEF CatalogInv

LEMMA ProcessKept ==
  ASSUME CatalogInv, Process
  PROVE  CatalogInv'
<1> DEFINE c == Head(updates)
<1>1. /\ CatalogTypeOK /\ updates \in Seq(Chats) /\ updates # <<>>
      /\ c \in Chats /\ updates' \in Seq(Chats)
  BY DEF CatalogInv, CatalogTypeOK, Process
<1>2. UNCHANGED <<shown, version, loaded, summary, reading, clearing, changes>> /\ ~clearing
  BY DEF Process
<1>3. \A e \in Chats : (\E n \in DOMAIN updates : updates[n] = e) =>
                         e = c \/ \E n \in DOMAIN updates' : updates'[n] = e
  BY <1>1, QueueTailed DEF Process
<1>4. CASE Mark(c) /\ UNCHANGED resolving
  <2>1. \A e \in Chats : Announced(e) => e = c \/ Announced(e)'
    BY <1>3, <1>4 DEF Announced
  <2> QED BY <1>1, <1>2, <1>4, <2>1, MarkKept DEF CatalogTypeOK
<1>5. CASE resolving' = {c} /\ UNCHANGED <<dirty, overtaken>>
  <2>1. \A e \in Chats : Announced(e) => Announced(e)'
    BY <1>3, <1>5 DEF Announced, Process
  <2>2. \A e \in Chats : /\ Current(e)' = Current(e)
                         /\ \A a \in Callers : /\ Refreshes(a, e)' = Refreshes(a, e)
                                               /\ Outdated(a, e)' = Outdated(a, e)
    BY <1>2 DEF Refreshes, Outdated, Current
  <2>3. \A e \in Chats : Owed(e) => Owed(e)'
    BY <1>2, <1>5, <2>1, <2>2 DEF Owed
  <2>4. CatalogTypeOK' /\ ReadersOk' /\ LoadsAlone' /\ ClearsAlone'
    BY <1>1, <1>2, <1>5 DEF CatalogInv, CatalogTypeOK, ReadersOk, LoadsAlone, ClearsAlone
  <2>5. StaleIsOwed' /\ OvertakenIsKnown'
    BY <1>2, <1>5, <2>1, <2>2, <2>3 DEF CatalogInv, StaleIsOwed, OvertakenIsKnown
  <2> QED BY <2>4, <2>5 DEF CatalogInv
<1> QED BY <1>4, <1>5 DEF Process

(* What the buffer drops is a debt no more.                                 *)
LEMMA LagKept ==
  ASSUME CatalogInv, Lag
  PROVE  CatalogInv'
<1> DEFINE c == Head(updates)
<1>1. /\ CatalogTypeOK /\ updates \in Seq(Chats) /\ updates # <<>> /\ DOMAIN reading = Callers
      /\ c \in Chats /\ updates' \in Seq(Chats)
  BY CallersOf DEF CatalogInv, CatalogTypeOK, Lag
<1>2. /\ UNCHANGED <<shown, version, resolving, loaded, summary, dirty, reading, clearing, changes>>
      /\ updates' = Tail(updates) /\ overtaken' = overtaken \cup {e \in {c} : Needed(e)}
  BY DEF Lag
<1>3. \A e \in Chats : (\E n \in DOMAIN updates : updates[n] = e) =>
                         e = c \/ \E n \in DOMAIN updates' : updates'[n] = e
  BY <1>1, <1>2, QueueTailed
<1>4. \A e \in Chats : Announced(e) => e = c \/ Announced(e)'
  BY <1>2, <1>3 DEF Announced
<1>5. \A e \in Chats : /\ Current(e)' = Current(e)
                       /\ \A a \in Callers : /\ Refreshes(a, e)' = Refreshes(a, e)
                                             /\ Outdated(a, e)' = Outdated(a, e)
  BY <1>2 DEF Refreshes, Outdated, Current
<1>6. \A e \in Chats : Owed(e) => e = c \/ Owed(e)'
  BY <1>2, <1>4, <1>5 DEF Owed
<1>7. Needed(c) => c \in overtaken'
  BY <1>2
<1>8. CatalogTypeOK'
  <2>1. overtaken' \subseteq Chats
    BY <1>1, <1>2 DEF CatalogTypeOK
  <2> QED BY <1>1, <1>2, <2>1 DEF CatalogTypeOK
<1>9. ReadersOk' /\ LoadsAlone' /\ ClearsAlone'
  BY <1>2 DEF CatalogInv, ReadersOk, LoadsAlone, ClearsAlone
<1> HIDE DEF c
<1>10. StaleIsOwed'
  <2> SUFFICES ASSUME loaded, NEW e \in Chats, summary[e] # Current(e), e \notin overtaken'
               PROVE  Owed(e)'
    BY <1>2, <1>5 DEF StaleIsOwed
  <2>1. e # c
    BY <1>7 DEF Needed
  <2>2. e \notin overtaken
    BY <1>2
  <2> QED BY <1>6, <2>1, <2>2 DEF CatalogInv, StaleIsOwed
<1>11. OvertakenIsKnown'
  <2> SUFFICES ASSUME NEW a \in Callers, NEW e \in Chats, Outdated(a, e), e \notin overtaken'
               PROVE  \/ Announced(e)'
                      \/ reading[a].at # "load" /\ (loaded => Owed(e)')
    BY <1>2, <1>5 DEF OvertakenIsKnown
  <2>1. e # c
    BY <1>1, <1>7 DEF Needed
  <2>2. e \notin overtaken
    BY <1>2
  <2> QED BY <1>4, <1>6, <2>1, <2>2 DEF CatalogInv, OvertakenIsKnown
<1> QED BY <1>8, <1>9, <1>10, <1>11 DEF CatalogInv

LEMMA ResolveKept ==
  ASSUME CatalogInv, Resolve
  PROVE  CatalogInv'
<1>1. CatalogTypeOK
  BY DEF CatalogInv
<1>2. PICK c \in resolving :
        \/ Mark(c) /\ UNCHANGED <<loaded, summary, clearing>>
        \/ /\ loaded' = FALSE /\ summary' = Unread /\ clearing' = loaded
           /\ IF loaded THEN UNCHANGED <<dirty, overtaken>> ELSE Mark(c)
  BY DEF Resolve
<1>3. /\ UNCHANGED <<shown, version, updates, reading, changes>> /\ resolving' = {} /\ c \in Chats
      /\ resolving = {c} /\ updates' \in Seq(Chats) /\ clearing = FALSE
  BY <1>1 DEF Resolve, CatalogTypeOK, CatalogInv, ClearsAlone
<1>4. \A e \in Chats : Announced(e) => e = c \/ Announced(e)'
  BY <1>3 DEF Announced
<1>5. Unread \in [Chats -> Nat]
  BY DEF Unread, Absent
<1>6. CASE Mark(c) /\ UNCHANGED <<loaded, clearing>> /\ (loaded => summary' = summary)
           /\ summary' \in {summary, Unread}
  <2>1. summary' \in [Chats -> Nat] /\ resolving' \subseteq Chats /\ \A d, e \in resolving' : d = e
    BY <1>1, <1>3, <1>5, <1>6 DEF CatalogTypeOK
  <2>2. UNCHANGED <<shown, version, loaded, reading, clearing, changes>>
    BY <1>3, <1>6
  <2> QED BY <1>3, <1>4, <1>6, <2>1, <2>2, MarkKept
<1>7. CASE loaded /\ loaded' = FALSE /\ summary' = Unread /\ clearing' = TRUE
           /\ UNCHANGED <<dirty, overtaken>>
  <2>1. CatalogTypeOK' /\ ReadersOk' /\ ClearsAlone'
    BY <1>1, <1>3, <1>5, <1>7 DEF CatalogInv, CatalogTypeOK, ReadersOk, ClearsAlone
  <2>2. \A a \in Callers : reading[a].at # "load"
    BY <1>7 DEF CatalogInv, LoadsAlone
  <2>3. LoadsAlone' /\ StaleIsOwed'
    BY <1>3, <1>7, <2>2 DEF CatalogInv, LoadsAlone, StaleIsOwed
  <2>4. OvertakenIsKnown'
    BY <1>3, <1>7, <2>2 DEF OvertakenIsKnown
  <2> QED BY <2>1, <2>3, <2>4 DEF CatalogInv
<1>8. loaded \in BOOLEAN
  BY <1>1 DEF CatalogTypeOK
<1> QED BY <1>2, <1>3, <1>6, <1>7, <1>8

(* Nothing rests on the marks that the loss of the cache takes away.        *)
LEMMA ClearMarksKept ==
  ASSUME CatalogInv, ClearMarks
  PROVE  CatalogInv'
<1>1. /\ UNCHANGED <<shown, version, updates, resolving, loaded, summary, reading, changes, overtaken>>
      /\ clearing /\ clearing' = FALSE /\ dirty' = {}
  BY DEF ClearMarks
<1>2. CatalogTypeOK' /\ ReadersOk' /\ LoadsAlone' /\ ClearsAlone'
  <2>1. CatalogTypeOK
    BY DEF CatalogInv
  <2>2. CatalogTypeOK'
    BY <1>1, <2>1 DEF CatalogTypeOK
  <2> QED BY <1>1, <2>2 DEF CatalogInv, ReadersOk, LoadsAlone, ClearsAlone
<1>3. \A e \in Chats : /\ Current(e)' = Current(e) /\ Announced(e)' = Announced(e)
                       /\ \A a \in Callers : Outdated(a, e)' = Outdated(a, e)
  BY <1>1 DEF Announced, Outdated, Current
<1>4. \A e \in Chats : Owed(e) => Owed(e)'
  BY <1>1, <1>3 DEF Owed
<1>5. StaleIsOwed' /\ OvertakenIsKnown'
  BY <1>1, <1>3, <1>4 DEF CatalogInv, StaleIsOwed, OvertakenIsKnown
<1> QED BY <1>2, <1>5 DEF CatalogInv

-----------------------------------------------------------------------------
(* Calls.                                                                   *)

(* StepOf(a): a step of caller a, which leaves the other callers alone.     *)
StepOf(a) == reading' \in [Callers -> ReaderForm] /\ \A b \in Callers \ {a} : reading'[b] = reading[b]

(* What the other callers owe and were overtaken by does not change with    *)
(* the step of one, unless a chat does.                                     *)
LEMMA OthersAlike ==
  ASSUME NEW a \in Callers, StepOf(a), UNCHANGED <<shown, version>>
  PROVE  \A e \in Chats : /\ Current(e)' = Current(e)
                          /\ \A b \in Callers \ {a} : /\ Refreshes(b, e)' = Refreshes(b, e)
                                                      /\ Outdated(b, e)' = Outdated(b, e)
BY DEF StepOf, Refreshes, Outdated, Current

(* A caller that becomes a reader who has not read anything yet, or none.   *)
LEMMA FreshReader ==
  ASSUME NEW r \in ReaderForm, r.left = r.ids,
         r.at \notin Reading => r.left = {},
         r.at = "load" => r.read = Unread
  PROVE  /\ r.left \subseteq r.ids
         /\ r.left # {} => r.at \in Reading
         /\ r.at = "load" => \A c \in Chats \ r.ids : r.read[c] = Absent
BY DEF Unread

(* What a step of caller a has to show: it leaves no mark behind it.        *)
LEMMA ReaderKept ==
  ASSUME CatalogInv, NEW a \in Callers, StepOf(a),
         UNCHANGED <<shown, version, updates, resolving, loaded, summary, clearing, changes, overtaken>>,
         dirty' \subseteq Chats,
         loaded => \A c \in Chats : c \in dirty \/ Refreshes(a, c) => c \in dirty' \/ Refreshes(a, c)',
         \A c \in Chats : Outdated(a, c)' => Outdated(a, c) /\ reading'[a].at = reading[a].at,
         reading'[a].left \subseteq reading'[a].ids,
         reading'[a].left # {} => reading'[a].at \in Reading,
         reading'[a].at = "load" =>
           ~loaded /\ \A c \in Chats \ reading'[a].ids : reading'[a].read[c] = Absent,
         reading'[a].at \in Holding => \A b \in Callers \ {a} : reading[b].at \notin Holding
  PROVE  CatalogInv'
<1>1. \A e \in Chats : /\ Current(e)' = Current(e) /\ Announced(e)' = Announced(e)
                       /\ \A b \in Callers \ {a} : /\ Refreshes(b, e)' = Refreshes(b, e)
                                                   /\ Outdated(b, e)' = Outdated(b, e)
  BY OthersAlike DEF Announced
<1>2. loaded => \A e \in Chats : Owed(e) => Owed(e)'
  <2> SUFFICES ASSUME loaded, NEW e \in Chats, Owed(e) PROVE Owed(e)'
    OBVIOUS
  <2>1. CASE ~clearing /\ (e \in dirty \/ Refreshes(a, e))
    BY <2>1 DEF Owed
  <2>2. CASE Announced(e)
    BY <1>1, <2>2 DEF Owed
  <2>3. CASE ~clearing /\ \E b \in Callers \ {a} : Refreshes(b, e)
    BY <1>1, <2>3 DEF Owed
  <2> QED BY <2>1, <2>2, <2>3 DEF Owed
<1>3. CatalogTypeOK'
  BY DEF CatalogInv, CatalogTypeOK, StepOf
<1>4. ReadersOk'
  BY DEF CatalogInv, ReadersOk, StepOf
<1>5. LoadsAlone' /\ ClearsAlone'
  BY DEF CatalogInv, LoadsAlone, ClearsAlone, StepOf
<1>6. StaleIsOwed'
  BY <1>1, <1>2 DEF CatalogInv, StaleIsOwed
<1>7. OvertakenIsKnown'
  <2> SUFFICES ASSUME NEW b \in Callers, NEW e \in Chats, Outdated(b, e)'
               PROVE  \/ e \in overtaken
                      \/ Announced(e)'
                      \/ reading'[b].at # "load" /\ (loaded => Owed(e)')
    BY DEF OvertakenIsKnown
  <2>1. Outdated(b, e) /\ reading'[b].at = reading[b].at
    BY <1>1 DEF StepOf
  <2>2. \/ e \in overtaken
        \/ Announced(e)
        \/ reading[b].at # "load" /\ (loaded => Owed(e))
    BY <2>1 DEF CatalogInv, OvertakenIsKnown
  <2> QED BY <1>1, <1>2, <2>1, <2>2
<1> QED BY <1>3, <1>4, <1>5, <1>6, <1>7 DEF CatalogInv

LEMMA Reader ==
  ASSUME CatalogTypeOK, NEW a \in Callers, NEW r \in ReaderForm, reading' = [reading EXCEPT ![a] = r]
  PROVE  StepOf(a) /\ reading'[a] = r
BY DEF CatalogTypeOK, StepOf

LEMMA DrainedForm ==
  ASSUME CatalogTypeOK, NEW s \in Refreshing
  PROVE  /\ Drained(s) \in ReaderForm /\ Drained(s).at = s
         /\ Drained(s).ids = dirty /\ Drained(s).left = dirty
BY DEF CatalogTypeOK, Drained, ReaderForm, Refreshing, Reading, Unread, Absent

LEMMA StartKept ==
  ASSUME CatalogInv, NEW a \in Callers, AskSummaries(a)
  PROVE  CatalogInv'
<1>1. CatalogTypeOK /\ reading[a].at = "idle" /\ reading[a] \in ReaderForm /\ reading[a].left = {}
  BY DEF CatalogInv, CatalogTypeOK, AskSummaries, ReadersOk, Reading
<1>2. UNCHANGED <<shown, version, updates, resolving, loaded, summary, clearing, changes, overtaken>>
  BY DEF AskSummaries
<1>3. \A c \in Chats : ~Refreshes(a, c)
  BY <1>1 DEF Refreshes, Refreshing
<1>4. CASE ~loaded
  <2>1. reading' = [reading EXCEPT ![a] = [reading[a] EXCEPT !.at = "wait"]] /\ dirty' = dirty
    BY <1>4 DEF AskSummaries
  <2> DEFINE r == [reading[a] EXCEPT !.at = "wait"]
  <2>2. r \in ReaderForm /\ r.at = "wait" /\ r.left = {}
    BY <1>1 DEF ReaderForm
  <2> HIDE DEF r
  <2>3. StepOf(a) /\ reading'[a] = r
    BY <1>1, <2>1, <2>2, Reader DEF r
  <2>4. \A c \in Chats : ~Outdated(a, c)'
    BY <2>2, <2>3 DEF Outdated
  <2>5. dirty' \subseteq Chats
    BY <1>1, <2>1 DEF CatalogTypeOK
  <2> QED BY <1>2, <1>4, <2>2, <2>3, <2>4, <2>5, ReaderKept DEF Holding
<1>5. CASE loaded /\ dirty = {}
  <2>1. reading' = reading /\ dirty' = dirty
    BY <1>5 DEF AskSummaries
  <2>2. StepOf(a) /\ dirty' \subseteq Chats
    BY <1>1, <2>1 DEF StepOf, CatalogTypeOK
  <2>3. \A c \in Chats : ~Outdated(a, c)'
    BY <1>1, <2>1 DEF Outdated
  <2> QED BY <1>1, <1>2, <1>3, <1>5, <2>1, <2>2, <2>3, ReaderKept DEF Holding
<1>6. CASE loaded /\ dirty # {}
  <2> DEFINE r == Drained("refresh")
  <2>1. r \in ReaderForm /\ r.at = "refresh" /\ r.ids = dirty /\ r.left = dirty
    BY <1>1, DrainedForm DEF Refreshing
  <2>2. reading' = [reading EXCEPT ![a] = r] /\ dirty' = {}
    BY <1>6 DEF AskSummaries
  <2> HIDE DEF r
  <2>3. StepOf(a) /\ reading'[a] = r
    BY <1>1, <2>1, <2>2, Reader
  <2>4. \A c \in Chats : ~Outdated(a, c)'
    BY <2>1, <2>3 DEF Outdated
  <2>5. \A c \in Chats : c \in dirty => Refreshes(a, c)'
    BY <2>1, <2>3 DEF Refreshes, Refreshing
  <2> QED BY <1>2, <1>3, <2>1, <2>2, <2>3, <2>4, <2>5, ReaderKept DEF Reading, Holding
<1> QED BY <1>4, <1>5, <1>6

LEMMA LockKept ==
  ASSUME CatalogInv, NEW a \in Callers, Lock(a)
  PROVE  CatalogInv'
<1>1. /\ CatalogTypeOK /\ reading[a].at \in {"wait", "reload"} /\ DOMAIN reading = Callers
      /\ \A b \in Callers \ {a} : reading[b].at \notin Holding
  BY CallersOf DEF CatalogInv, Lock, LoadsAlone, Holding
<1>2. /\ UNCHANGED <<shown, version, updates, resolving, loaded, summary, clearing, changes, overtaken>>
      /\ dirty' = {}
  BY DEF Lock
<1>3. \A c \in Chats : ~Refreshes(a, c)
  BY <1>1 DEF Refreshes, Refreshing
<1>4. CASE ~loaded
  <2> DEFINE r == [at |-> "load", ids |-> shown, left |-> shown, read |-> Unread]
  <2>1. r \in ReaderForm /\ r.at = "load" /\ r.ids = shown /\ r.left = shown /\ r.read = Unread
    BY <1>1 DEF CatalogTypeOK, ReaderForm, Reading, Unread, Absent
  <2>2. reading' = [reading EXCEPT ![a] = r]
    BY <1>4 DEF Lock
  <2> HIDE DEF r
  <2>3. StepOf(a) /\ reading'[a] = r
    BY <1>1, <2>1, <2>2, Reader
  <2>4. \A c \in Chats : ~Outdated(a, c)'
    BY <1>2, <2>1, <2>3 DEF Outdated
  <2>5. \A c \in Chats : r.read[c] = Absent
    BY <2>1 DEF Unread
  <2> QED BY <1>1, <1>2, <1>4, <2>1, <2>3, <2>4, <2>5, ReaderKept DEF Reading, Holding
<1>5. CASE loaded /\ dirty = {}
  <2>1. reading' = [reading EXCEPT ![a] = Idle]
    BY <1>5 DEF Lock
  <2>2. StepOf(a) /\ reading'[a] = Idle
    BY <1>1, <2>1, IdleForm, Reader
  <2>3. \A c \in Chats : ~Outdated(a, c)'
    BY <2>2, IdleForm DEF Outdated
  <2> QED BY <1>2, <1>3, <1>5, <2>2, <2>3, IdleForm, ReaderKept DEF Holding
<1>6. CASE loaded /\ dirty # {}
  <2> DEFINE r == Drained("again")
  <2>1. r \in ReaderForm /\ r.at = "again" /\ r.ids = dirty /\ r.left = dirty
    BY <1>1, DrainedForm DEF Refreshing
  <2>2. reading' = [reading EXCEPT ![a] = r]
    BY <1>6 DEF Lock
  <2> HIDE DEF r
  <2>3. StepOf(a) /\ reading'[a] = r
    BY <1>1, <2>1, <2>2, Reader
  <2>4. \A c \in Chats : ~Outdated(a, c)'
    BY <2>1, <2>3 DEF Outdated
  <2>5. \A c \in Chats : c \in dirty => Refreshes(a, c)'
    BY <2>1, <2>3 DEF Refreshes, Refreshing
  <2> QED BY <1>1, <1>2, <1>3, <2>1, <2>3, <2>4, <2>5, ReaderKept DEF Reading, Holding
<1> QED BY <1>4, <1>5, <1>6

LEMMA StartDirectKept ==
  ASSUME CatalogInv, NEW a \in Callers, NEW c \in Chats, StartDirect(a, c)
  PROVE  CatalogInv'
<1> DEFINE r == [at |-> "direct", ids |-> {c}, left |-> {c}, read |-> Unread]
<1>1. CatalogTypeOK /\ reading[a].at = "idle"
  BY DEF CatalogInv, StartDirect
<1>2. UNCHANGED <<shown, version, updates, resolving, loaded, summary, dirty, clearing, changes, overtaken>>
  BY DEF StartDirect
<1>3. r \in ReaderForm /\ r.at = "direct" /\ r.ids = {c} /\ r.left = {c}
  BY DEF ReaderForm, Reading, Unread, Absent
<1>4. reading' = [reading EXCEPT ![a] = r]
  BY DEF StartDirect
<1> HIDE DEF r
<1>5. StepOf(a) /\ reading'[a] = r
  BY <1>1, <1>3, <1>4, Reader
<1>6. \A e \in Chats : ~Outdated(a, e)' /\ ~Refreshes(a, e)
  BY <1>1, <1>3, <1>5 DEF Outdated, Refreshes, Refreshing
<1>7. dirty' \subseteq Chats
  BY <1>1, <1>2 DEF CatalogTypeOK
<1> QED BY <1>2, <1>3, <1>5, <1>6, <1>7, ReaderKept DEF Reading, Holding

LEMMA ReadKept ==
  ASSUME CatalogInv, NEW a \in Callers, NEW c \in Chats, Read(a, c)
  PROVE  CatalogInv'
<1> DEFINE v == IF reading[a].at = "load" THEN version[c] ELSE Current(c)
           r == [reading[a] EXCEPT !.left = @ \ {c}, !.read[c] = v]
<1>1. /\ CatalogTypeOK /\ reading[a] \in ReaderForm /\ c \in reading[a].left
      /\ reading[a].left \subseteq reading[a].ids /\ reading[a].at \in Reading
  BY DEF CatalogInv, CatalogTypeOK, ReadersOk, Read
<1>2. /\ UNCHANGED <<shown, version, updates, resolving, loaded, summary, dirty, clearing, changes, overtaken>>
      /\ reading' = [reading EXCEPT ![a] = r]
  BY DEF Read
<1>3. v \in Nat
  BY <1>1, CurrentForm DEF CatalogTypeOK
<1>4. /\ r \in ReaderForm /\ r.at = reading[a].at /\ r.ids = reading[a].ids /\ r.left = reading[a].left \ {c}
      /\ \A e \in Chats : r.read[e] = IF e = c THEN v ELSE reading[a].read[e]
  <2> HIDE DEF v
  <2> QED BY <1>1, <1>3 DEF ReaderForm
<1> HIDE DEF r
<1>5. StepOf(a) /\ reading'[a] = r
  BY <1>1, <1>2, <1>4, Reader
<1>6. \A e \in Chats : Refreshes(a, e) => Refreshes(a, e)'
  BY <1>2, <1>4, <1>5 DEF Refreshes, Refreshing, Current
<1>7. \A e \in Chats : Outdated(a, e)' => Outdated(a, e)
  <2> SUFFICES ASSUME NEW e \in Chats, Outdated(a, e)' PROVE Outdated(a, e)
    OBVIOUS
  <2>1. Current(e)' = Current(e)
    BY <1>2 DEF Current
  <2>2. CASE e = c
    BY <1>1, <1>2, <1>4, <1>5, <2>1, <2>2 DEF Outdated, Current
  <2>3. CASE e # c
    BY <1>2, <1>4, <1>5, <2>1, <2>3 DEF Outdated
  <2> QED BY <2>2, <2>3
<1>8. /\ reading'[a].at = "load" =>
           ~loaded /\ \A e \in Chats \ reading'[a].ids : reading'[a].read[e] = Absent
      /\ reading'[a].at \in Holding => \A b \in Callers \ {a} : reading[b].at \notin Holding
  BY <1>1, <1>4, <1>5 DEF CatalogInv, ReadersOk, LoadsAlone
<1>9. dirty' \subseteq Chats
  BY <1>1, <1>2 DEF CatalogTypeOK
<1> QED BY <1>1, <1>2, <1>4, <1>5, <1>6, <1>7, <1>8, <1>9, ReaderKept DEF Holding

LEMMA ReadFailsKept ==
  ASSUME CatalogInv, NEW a \in Callers, ReadFails(a)
  PROVE  CatalogInv'
<1>1. CatalogTypeOK /\ reading[a] \in ReaderForm
  BY DEF CatalogInv, CatalogTypeOK
<1>2. /\ UNCHANGED <<shown, version, updates, resolving, loaded, summary, clearing, changes, overtaken>>
      /\ reading' = [reading EXCEPT ![a] = Idle] /\ dirty' = PutBack(a)
  BY DEF ReadFails
<1>3. StepOf(a) /\ reading'[a] = Idle
  BY <1>1, <1>2, IdleForm, Reader
<1>4. \A c \in Chats : ~Outdated(a, c)'
  BY <1>3, IdleForm DEF Outdated
<1>5. dirty' \subseteq Chats /\ \A c \in Chats : c \in dirty \/ Refreshes(a, c) => c \in dirty'
  BY <1>1, <1>2 DEF PutBack, CatalogTypeOK, ReaderForm, Refreshes, Refreshing
<1> QED BY <1>2, <1>3, <1>4, <1>5, IdleForm, ReaderKept DEF Holding

(* A chat that changes is announced.                                        *)
LEMMA ChangeKept ==
  ASSUME CatalogInv, NEW c \in Chats, Change(c),
         UNCHANGED <<resolving, loaded, summary, dirty, clearing, overtaken>>,
         reading' \in [Callers -> ReaderForm],
         \A a \in Callers :
            \/ reading'[a] = reading[a]
            \/ (reading[a].at = "idle" /\ reading'[a].at = "mutated" /\ reading'[a].left = {})
  PROVE  CatalogInv'
<1>1. CatalogTypeOK
  BY DEF CatalogInv
<1>2. /\ version' = [version EXCEPT ![c] = changes + 2] /\ shown' \in {shown, shown \cup {c}, shown \ {c}}
      /\ updates' = Append(updates, c) /\ changes' = changes + 1
  BY DEF Change
<1>3. \A e \in Chats : (\E n \in DOMAIN updates' : updates'[n] = e) <=>
                         (e = c \/ \E n \in DOMAIN updates : updates[n] = e)
  <2>1. updates \in Seq(Chats)
    BY <1>1 DEF CatalogTypeOK
  <2> SUFFICES ASSUME NEW e \in Chats
               PROVE  (\E n \in DOMAIN Append(updates, c) : Append(updates, c)[n] = e) <=>
                        (e = c \/ \E n \in DOMAIN updates : updates[n] = e)
    BY <1>2
  <2>2. DOMAIN updates = 1..Len(updates) /\ Len(updates) \in Nat
    BY <2>1
  <2>3. /\ DOMAIN Append(updates, c) = 1..(Len(updates) + 1)
        /\ Append(updates, c)[Len(updates) + 1] = c
        /\ \A n \in 1..Len(updates) : Append(updates, c)[n] = updates[n]
    BY <2>1
  <2> HIDE <2>1
  <2> QED BY <2>2, <2>3
<1>4. Announced(c)' /\ \A e \in Chats : Announced(e) => Announced(e)'
  BY <1>3 DEF Announced
<1>5. \A e \in Chats \ {c} : Current(e)' = Current(e) /\ (e \in shown' <=> e \in shown)
  BY <1>1, <1>2 DEF Current, CatalogTypeOK
<1>6. ASSUME NEW e \in Chats \ {c}, NEW a \in Callers, Refreshes(a, e)
      PROVE  Refreshes(a, e)'
  BY <1>5, <1>6 DEF Refreshes, Refreshing
<1>6a. ASSUME NEW e \in Chats \ {c}, NEW a \in Callers, Outdated(a, e)'
       PROVE  Outdated(a, e) /\ reading'[a] = reading[a]
  BY <1>5, <1>6a DEF Outdated
<1>7. ASSUME NEW e \in Chats \ {c}, Owed(e)
      PROVE  Owed(e)'
  <2>1. CASE Announced(e) \/ (~clearing /\ e \in dirty)
    BY <1>4, <2>1 DEF Owed
  <2>2. CASE ~clearing /\ \E a \in Callers : Refreshes(a, e)
    BY <1>6, <2>2 DEF Owed
  <2> QED BY <1>7, <2>1, <2>2 DEF Owed
<1>8. Owed(c)'
  BY <1>4 DEF Owed
<1>9. CatalogTypeOK'
  <2>1. version' \in [Chats -> Nat] /\ changes' \in Nat /\ shown' \subseteq Chats
    BY <1>1, <1>2 DEF CatalogTypeOK
  <2>2. updates' \in Seq(Chats)
    BY <1>1, <1>2 DEF CatalogTypeOK
  <2> QED BY <1>1, <2>1, <2>2 DEF CatalogTypeOK
<1>10. ReadersOk' /\ LoadsAlone' /\ ClearsAlone'
  BY DEF CatalogInv, ReadersOk, LoadsAlone, ClearsAlone, Holding
<1>11. StaleIsOwed'
  BY <1>5, <1>7, <1>8 DEF CatalogInv, StaleIsOwed
<1>12. OvertakenIsKnown'
  <2> SUFFICES ASSUME NEW a \in Callers, NEW e \in Chats \ {c}, Outdated(a, e)'
               PROVE  \/ e \in overtaken
                      \/ Announced(e)'
                      \/ reading'[a].at # "load" /\ (loaded => Owed(e)')
    BY <1>4 DEF OvertakenIsKnown
  <2>1. Outdated(a, e) /\ reading'[a] = reading[a]
    BY <1>6a
  <2>2. \/ e \in overtaken
        \/ Announced(e)
        \/ reading[a].at # "load" /\ (loaded => Owed(e))
    BY <2>1 DEF CatalogInv, OvertakenIsKnown
  <2> QED BY <1>4, <1>7, <2>1, <2>2
<1> QED BY <1>9, <1>10, <1>11, <1>12 DEF CatalogInv

LEMMA MutateKept ==
  ASSUME CatalogInv, NEW a \in Callers, NEW c \in Chats, Mutate(a, c)
  PROVE  CatalogInv'
<1> DEFINE r == [Idle EXCEPT !.at = "mutated", !.ids = {c}]
<1>1. CatalogTypeOK /\ reading[a].at = "idle"
  BY DEF CatalogInv, Mutate
<1>2. r \in ReaderForm /\ r.at = "mutated" /\ r.left = {}
  BY IdleForm DEF ReaderForm
<1>3. reading' = [reading EXCEPT ![a] = r]
  BY DEF Mutate
<1> HIDE DEF r
<1>4. StepOf(a) /\ reading'[a] = r
  BY <1>1, <1>2, <1>3, Reader
<1>5. \A b \in Callers :
        \/ reading'[b] = reading[b]
        \/ (reading[b].at = "idle" /\ reading'[b].at = "mutated" /\ reading'[b].left = {})
  BY <1>1, <1>2, <1>4 DEF StepOf
<1>6. /\ Change(c) /\ UNCHANGED <<resolving, loaded, summary, dirty, clearing, overtaken>>
      /\ reading' \in [Callers -> ReaderForm]
  BY <1>4 DEF Mutate, StepOf
<1> QED BY <1>5, <1>6, ChangeKept

LEMMA ChangeElsewhereKept ==
  ASSUME CatalogInv, NEW c \in Chats, ChangeElsewhere(c)
  PROVE  CatalogInv'
<1>1. /\ Change(c) /\ UNCHANGED <<resolving, loaded, summary, dirty, clearing, overtaken>>
      /\ reading' \in [Callers -> ReaderForm] /\ \A b \in Callers : reading'[b] = reading[b]
  BY DEF ChangeElsewhere, CatalogInv, CatalogTypeOK
<1> QED BY <1>1, ChangeKept

LEMMA MarkMutatedKept ==
  ASSUME CatalogInv, NEW a \in Callers, MarkMutated(a)
  PROVE  CatalogInv'
<1>1. CatalogTypeOK /\ DOMAIN reading = Callers /\ reading[a].at = "mutated" /\ reading[a] \in ReaderForm
  BY CallersOf DEF CatalogInv, CatalogTypeOK, MarkMutated
<1>2. PICK c \in Chats : Mark(c)
  BY <1>1 DEF MarkMutated, ReaderForm
<1>3. /\ UNCHANGED <<shown, version, updates, resolving, loaded, summary, clearing, changes>>
      /\ reading' = [reading EXCEPT ![a] = Idle]
  BY DEF MarkMutated
<1>4. StepOf(a) /\ reading'[a] = Idle
  BY <1>1, <1>3, IdleForm, Reader
<1>5. /\ dirty' \subseteq Chats /\ dirty \subseteq dirty'
      /\ overtaken' \subseteq Chats /\ overtaken \subseteq overtaken'
  BY <1>1, <1>2 DEF Mark, Marked, CatalogTypeOK
<1>6. \A e \in Chats : /\ Current(e)' = Current(e) /\ Announced(e)' = Announced(e)
                       /\ \A b \in Callers \ {a} : /\ Refreshes(b, e)' = Refreshes(b, e)
                                                   /\ Outdated(b, e)' = Outdated(b, e)
  BY <1>3, <1>4, OthersAlike DEF Announced
<1>7. \A e \in Chats : ~Refreshes(a, e) /\ ~Outdated(a, e)'
  BY <1>1, <1>4, IdleForm DEF Refreshes, Refreshing, Outdated
<1>8. \A e \in Chats : Owed(e) => Owed(e)'
  BY <1>3, <1>5, <1>6, <1>7 DEF Owed
<1>9. CatalogTypeOK' /\ ReadersOk' /\ LoadsAlone' /\ ClearsAlone'
  <2>1. CatalogTypeOK'
    BY <1>1, <1>3, <1>4, <1>5 DEF CatalogTypeOK, StepOf
  <2>2. ReadersOk' /\ LoadsAlone' /\ ClearsAlone'
    BY <1>3, <1>4, IdleForm DEF CatalogInv, ReadersOk, LoadsAlone, ClearsAlone, StepOf, Holding
  <2> QED BY <2>1, <2>2
<1>10. StaleIsOwed'
  BY <1>3, <1>5, <1>6, <1>8 DEF CatalogInv, StaleIsOwed
<1>11. OvertakenIsKnown'
  <2> SUFFICES ASSUME NEW b \in Callers, NEW e \in Chats, Outdated(b, e)'
               PROVE  \/ e \in overtaken'
                      \/ Announced(e)'
                      \/ reading'[b].at # "load" /\ (loaded' => Owed(e)')
    BY DEF OvertakenIsKnown
  <2>1. b # a /\ Outdated(b, e) /\ reading'[b] = reading[b]
    BY <1>4, <1>6, <1>7 DEF StepOf
  <2>2. \/ e \in overtaken
        \/ Announced(e)
        \/ reading[b].at # "load" /\ (loaded => Owed(e))
    BY <2>1 DEF CatalogInv, OvertakenIsKnown
  <2> QED BY <1>3, <1>5, <1>6, <1>8, <2>1, <2>2
<1> QED BY <1>9, <1>10, <1>11 DEF CatalogInv

(* What is written is the server's, or it is owed, or the reader was        *)
(* overtaken; and whoever had read a chat before is overtaken by the write. *)
LEMMA ApplyKept ==
  ASSUME CatalogInv, NEW a \in Callers, Apply(a)
  PROVE  CatalogInv'
<1> DEFINE load == reading[a].at = "load"
           written == IF load THEN Chats ELSE IF loaded THEN reading[a].ids ELSE {}
<1>1. /\ CatalogTypeOK /\ DOMAIN reading = Callers /\ reading[a] \in ReaderForm /\ reading[a].left = {}
      /\ reading[a].at \in Reading
  BY CallersOf DEF CatalogInv, CatalogTypeOK, Apply, Reading
<1>2. /\ UNCHANGED <<shown, version, updates, resolving, dirty, clearing, changes>>
      /\ summary' = [c \in Chats |-> IF c \in written THEN reading[a].read[c] ELSE summary[c]]
      /\ loaded' = (loaded \/ load)
      /\ overtaken' = {c \in overtaken \cup written :
                          \/ \E b \in DOMAIN reading \ {a} : Outdated(b, c)
                          \/ c \in overtaken /\ summary'[c] # Current(c)}
      /\ reading' = [reading EXCEPT ![a] = AfterWrite(a)]
  BY DEF Apply
<1>3. /\ StepOf(a) /\ reading'[a].at \in {"idle", "wait", "reload", "unmark"} /\ reading'[a].left = {}
      /\ reading'[a].at = "reload" => reading[a].at = "again"
  <2> DEFINE r == AfterWrite(a)
  <2> DEFINE of(at, ids) == [Idle EXCEPT !.at = at, !.ids = ids]
  <2>0. /\ of("unmark", reading[a].ids) \in ReaderForm
        /\ of("unmark", reading[a].ids).at = "unmark" /\ of("unmark", reading[a].ids).left = {}
        /\ \A at \in {"wait", "reload"} :
              /\ [Idle EXCEPT !.at = at] \in ReaderForm
              /\ [Idle EXCEPT !.at = at].at = at /\ [Idle EXCEPT !.at = at].left = {}
    BY <1>1, IdleForm DEF ReaderForm
  <2>1. /\ r \in ReaderForm /\ r.at \in {"idle", "wait", "reload", "unmark"} /\ r.left = {}
        /\ r.at = "reload" => reading[a].at = "again"
    BY <1>1, <2>0, IdleForm DEF AfterWrite
  <2>2. reading' = [reading EXCEPT ![a] = r]
    BY <1>2
  <2> HIDE DEF r
  <2> QED BY <1>1, <2>1, <2>2, Reader
<1>4. written \subseteq Chats
  BY <1>1 DEF ReaderForm
<1>5. \A e \in Chats : summary'[e] = IF e \in written THEN reading[a].read[e] ELSE summary[e]
  BY <1>2
<1>6. \A e \in Chats : /\ Current(e)' = Current(e) /\ Announced(e)' = Announced(e)
                       /\ \A b \in Callers \ {a} : /\ Refreshes(b, e)' = Refreshes(b, e)
                                                   /\ Outdated(b, e)' = Outdated(b, e)
  BY <1>2, <1>3, OthersAlike DEF Announced
<1>7. \A e \in Chats : ~Outdated(a, e)'
  BY <1>3 DEF Outdated
<1>8. CatalogTypeOK'
  <2>1. summary' \in [Chats -> Nat]
    BY <1>1, <1>2 DEF CatalogTypeOK, ReaderForm
  <2>2. overtaken' \subseteq Chats /\ dirty' \subseteq Chats
    BY <1>1, <1>2, <1>4 DEF CatalogTypeOK
  <2> QED BY <1>1, <1>2, <1>3, <2>1, <2>2 DEF CatalogTypeOK, StepOf
<1>9. ReadersOk'
  BY <1>3 DEF CatalogInv, ReadersOk, StepOf
<1>10. LoadsAlone' /\ ClearsAlone'
  BY <1>2, <1>3 DEF CatalogInv, LoadsAlone, ClearsAlone, StepOf, Holding
<1> HIDE DEF written
(* A written summary that is not so was read before the chat changed.       *)
<1>11. \A e \in written : reading[a].read[e] # Current(e) => Outdated(a, e)
  <2> SUFFICES ASSUME NEW e \in written, reading[a].read[e] # Current(e) PROVE Outdated(a, e)
    OBVIOUS
  <2>1. CASE e \in reading[a].ids
    BY <1>1, <2>1 DEF Outdated, Reading
  <2>2. CASE e \notin reading[a].ids
    <3>1. load /\ e \in Chats /\ reading[a].read[e] = Absent
      BY <1>4, <2>2 DEF written, CatalogInv, ReadersOk
    <3> QED BY <2>2, <3>1 DEF Outdated, Current
  <2> QED BY <2>1, <2>2
<1>12. \A e \in written : e \notin overtaken' => \A b \in Callers \ {a} : ~Outdated(b, e)
  BY <1>1, <1>2
<1>13. \A e \in Chats : e \in overtaken =>
          \/ e \in overtaken'
          \/ summary'[e] = Current(e) /\ \A b \in Callers \ {a} : ~Outdated(b, e)
  BY <1>1, <1>2
(* Debts that stay, but for one that is paid.                               *)
<1>14. \A e \in Chats : Owed(e) =>
          \/ Owed(e)'
          \/ reading[a].at \in Refreshing /\ e \in reading[a].ids /\ reading[a].read[e] = Current(e)
  <2> SUFFICES ASSUME NEW e \in Chats, Owed(e)
               PROVE  \/ Owed(e)'
                      \/ reading[a].at \in Refreshing /\ e \in reading[a].ids
                         /\ reading[a].read[e] = Current(e)
    OBVIOUS
  <2>1. CASE Announced(e)
    BY <1>6, <2>1 DEF Owed
  <2>2. CASE ~clearing /\ e \in dirty
    BY <1>2, <2>2 DEF Owed
  <2>3. CASE ~clearing /\ \E b \in Callers \ {a} : Refreshes(b, e)
    BY <1>2, <1>6, <2>3 DEF Owed
  <2>4. CASE Refreshes(a, e)
    BY <1>1, <2>4 DEF Refreshes
  <2> QED BY <2>1, <2>2, <2>3, <2>4 DEF Owed
<1>15. StaleIsOwed'
  <2> SUFFICES ASSUME loaded', NEW e \in Chats, summary'[e] # Current(e), e \notin overtaken'
               PROVE  Owed(e)'
    BY <1>6 DEF StaleIsOwed
  <2>1. e \notin overtaken
    BY <1>13
  <2>2. CASE e \in written
    <3>1. Outdated(a, e)
      BY <1>5, <1>11, <2>2
    <3>2. \/ Announced(e)
          \/ reading[a].at # "load" /\ (loaded => Owed(e))
      BY <2>1, <3>1 DEF CatalogInv, OvertakenIsKnown
    <3>3. CASE Announced(e)
      BY <1>6, <3>3 DEF Owed
    <3>4. CASE reading[a].at # "load" /\ (loaded => Owed(e))
      <4>1. loaded /\ Owed(e) /\ reading[a].read[e] # Current(e)
        BY <1>5, <2>2, <3>4 DEF written
      <4> QED BY <1>14, <4>1
    <3> QED BY <3>2, <3>3, <3>4
  <2>3. CASE e \notin written
    <3>1. loaded /\ ~load /\ e \notin reading[a].ids
      BY <1>2, <2>3 DEF written
    <3>2. Owed(e)
      BY <1>5, <2>1, <2>3, <3>1 DEF CatalogInv, StaleIsOwed
    <3> QED BY <1>14, <3>1, <3>2
  <2> QED BY <2>2, <2>3
<1>16. OvertakenIsKnown'
  <2> SUFFICES ASSUME NEW b \in Callers, NEW e \in Chats, Outdated(b, e)', e \notin overtaken'
               PROVE  \/ Announced(e)'
                      \/ reading'[b].at # "load" /\ (loaded' => Owed(e)')
    BY DEF OvertakenIsKnown
  <2>1. b # a /\ Outdated(b, e) /\ reading'[b] = reading[b]
    BY <1>3, <1>6, <1>7 DEF StepOf
  <2>2. e \notin written /\ e \notin overtaken
    BY <1>12, <1>13, <2>1
  <2>3. ~load /\ loaded' = loaded /\ (loaded => e \notin reading[a].ids)
    BY <1>1, <1>2, <2>2 DEF written, CatalogTypeOK
  <2>4. \/ Announced(e)
        \/ reading[b].at # "load" /\ (loaded => Owed(e))
    BY <2>1, <2>2 DEF CatalogInv, OvertakenIsKnown
  <2> QED BY <1>6, <1>14, <2>1, <2>3, <2>4
<1> QED BY <1>8, <1>9, <1>10, <1>15, <1>16 DEF CatalogInv

(* A chat whose mark is taken away late is known when it needs the mark.    *)
LEMMA UnmarkKept ==
  ASSUME CatalogInv, NEW a \in Callers, Unmark(a)
  PROVE  CatalogInv'
<1>1. CatalogTypeOK /\ DOMAIN reading = Callers /\ reading[a].at = "unmark"
  BY CallersOf DEF CatalogInv, Unmark
<1>2. /\ UNCHANGED <<shown, version, updates, resolving, loaded, summary, clearing, changes>>
      /\ reading' = [reading EXCEPT ![a] = Idle] /\ dirty' = dirty \ reading[a].ids
      /\ overtaken' = overtaken \cup {c \in dirty \cap reading[a].ids : loaded /\ Needed(c)}
  BY DEF Unmark
<1>3. StepOf(a) /\ reading'[a] = Idle
  BY <1>1, <1>2, IdleForm, Reader
<1>4. /\ dirty' \subseteq Chats /\ overtaken' \subseteq Chats /\ overtaken \subseteq overtaken'
      /\ \A e \in Chats : e \in dirty => e \in dirty' \/ (loaded /\ Needed(e) => e \in overtaken')
  BY <1>1, <1>2 DEF CatalogTypeOK
<1>5. \A e \in Chats : /\ Current(e)' = Current(e) /\ Announced(e)' = Announced(e)
                       /\ \A b \in Callers \ {a} : /\ Refreshes(b, e)' = Refreshes(b, e)
                                                   /\ Outdated(b, e)' = Outdated(b, e)
  BY <1>2, <1>3, OthersAlike DEF Announced
<1>6. \A e \in Chats : ~Refreshes(a, e) /\ ~Outdated(a, e)'
  BY <1>1, <1>3, IdleForm DEF Refreshes, Refreshing, Outdated
<1>7. \A e \in Chats : loaded /\ Owed(e) => Owed(e)' \/ (Needed(e) => e \in overtaken')
  BY <1>2, <1>4, <1>5, <1>6 DEF Owed
<1>8. CatalogTypeOK'
  BY <1>1, <1>2, <1>3, <1>4 DEF CatalogTypeOK, StepOf
<1>9. ReadersOk' /\ LoadsAlone' /\ ClearsAlone'
  BY <1>2, <1>3, IdleForm DEF CatalogInv, ReadersOk, LoadsAlone, ClearsAlone, StepOf, Holding
<1>10. StaleIsOwed'
  <2> SUFFICES ASSUME loaded, NEW e \in Chats, summary[e] # Current(e), e \notin overtaken'
               PROVE  Owed(e)'
    BY <1>2, <1>5 DEF StaleIsOwed
  <2>1. Needed(e)
    BY DEF Needed
  <2>2. Owed(e)
    BY <1>4 DEF CatalogInv, StaleIsOwed
  <2> QED BY <1>7, <2>1, <2>2
<1>11. OvertakenIsKnown'
  <2> SUFFICES ASSUME NEW b \in Callers, NEW e \in Chats, Outdated(b, e)', e \notin overtaken'
               PROVE  \/ Announced(e)'
                      \/ reading'[b].at # "load" /\ (loaded' => Owed(e)')
    BY DEF OvertakenIsKnown
  <2>1. b # a /\ Outdated(b, e) /\ reading'[b] = reading[b]
    BY <1>3, <1>5, <1>6 DEF StepOf
  <2>2. Needed(e)
    BY <1>1, <2>1 DEF Needed
  <2>3. \/ Announced(e)
        \/ reading[b].at # "load" /\ (loaded => Owed(e))
    BY <1>4, <2>1 DEF CatalogInv, OvertakenIsKnown
  <2> QED BY <1>2, <1>5, <1>7, <2>1, <2>2, <2>3
<1> QED BY <1>8, <1>9, <1>10, <1>11 DEF CatalogInv

(* The invariant that every step of the catalog keeps.                      *)
THEOREM CatalogInductive == CatalogSpec => []CatalogInv
<1>1. ASSUME CatalogInv, CatalogNext
      PROVE  CatalogInv'
  <2>1. DOMAIN reading = Callers
    BY <1>1, CallersOf DEF CatalogInv
  <2>2. CASE Process
    BY <1>1, <2>2, ProcessKept
  <2>3. CASE Lag \/ Resolve \/ ClearMarks
    BY <1>1, <2>3, LagKept, ResolveKept, ClearMarksKept
  <2>4. ASSUME NEW a \in Callers,
               \/ AskSummaries(a) \/ Lock(a) \/ ReadFails(a)
               \/ Apply(a) \/ Unmark(a) \/ MarkMutated(a)
        PROVE  CatalogInv'
    BY <1>1, <2>4, StartKept, LockKept, ReadFailsKept, ApplyKept, UnmarkKept, MarkMutatedKept
  <2>5. ASSUME NEW a \in Callers, NEW c \in Chats, StartDirect(a, c) \/ Read(a, c) \/ Mutate(a, c)
        PROVE  CatalogInv'
    BY <1>1, <2>5, StartDirectKept, ReadKept, MutateKept
  <2>6. ASSUME NEW c \in Chats, ChangeElsewhere(c)
        PROVE  CatalogInv'
    BY <1>1, <2>6, ChangeElsewhereKept
  <2> QED BY <1>1, <2>1, <2>2, <2>3, <2>4, <2>5, <2>6 DEF CatalogNext
<1>2. ASSUME CatalogInv, UNCHANGED catalogVars
      PROVE  CatalogInv'
  <2>1. \A e \in Chats : /\ Current(e)' = Current(e) /\ Announced(e)' = Announced(e)
                         /\ \A b \in Callers : /\ Refreshes(b, e)' = Refreshes(b, e)
                                               /\ Outdated(b, e)' = Outdated(b, e)
    BY <1>2 DEF catalogVars, Current, Announced, Refreshes, Outdated
  <2>2. \A e \in Chats : Owed(e) => Owed(e)'
    BY <1>2, <2>1 DEF catalogVars, Owed
  <2>3. CatalogTypeOK' /\ ReadersOk' /\ LoadsAlone' /\ ClearsAlone'
    BY <1>2 DEF catalogVars, CatalogInv, CatalogTypeOK, ReadersOk, LoadsAlone, ClearsAlone
  <2>4. StaleIsOwed' /\ OvertakenIsKnown'
    BY <1>2, <2>1, <2>2 DEF catalogVars, CatalogInv, StaleIsOwed, OvertakenIsKnown
  <2> QED BY <2>3, <2>4 DEF CatalogInv
<1> QED BY <1>1, <1>2, CatalogBegins, PTL DEF CatalogSpec

(* What the catalog shows is the server's, or somebody is going to look     *)
(* again, or a reader was overtaken (live_gateway.rs: the marks, the        *)
(* refresh that takes them away and gives them back, the lost cache).       *)
THEOREM StaleMarked == CatalogSpec => []StaleIsMarked
<1>1. ASSUME CatalogInv
      PROVE  StaleIsMarked
  <2>1. DOMAIN reading = Callers
    BY <1>1, CallersOf DEF CatalogInv
  <2>2. ASSUME NEW c \in Chats, Owed(c)
        PROVE  Pending(c)
    BY <2>1, <2>2 DEF Owed, Pending, Announced, Refreshes, Refreshing
  <2> QED BY <1>1, <2>2 DEF CatalogInv, StaleIsOwed, StaleIsMarked
<1> QED BY <1>1, CatalogInductive, PTL

-----------------------------------------------------------------------------
(* Any finite set of numbers can be enumerated upwards.                      *)

LEMMA LeastNatural ==
  ASSUME NEW T \in SUBSET Nat, T # {}
  PROVE  \E n \in T : \A m \in T : n <= m
<1> DEFINE R == OpToRel(<, Nat)
<1>1. \E n \in T : \A m \in T : ~(<<m, n>> \in R)
  <2> HIDE DEF R
  <2>1. IsWellFoundedOn(R, Nat)
    BY NatLessThanWellFounded DEF R
  <2> QED BY <2>1, WFMin
<1>2. \A m, n \in Nat : m < n => <<m, n>> \in R
  BY DEF OpToRel
<1>3. PICK n \in T : \A m \in T : ~(<<m, n>> \in R)
  BY <1>1
<1> HIDE DEF R
<1>4. ASSUME NEW m \in T PROVE n <= m
  <2>1. ~(m < n)
    BY <1>2, <1>3
  <2> QED BY <2>1
<1> QED BY <1>4

LEMMA Ordered ==
  \A n \in Nat : \A S \in SUBSET Int : IsFiniteSet(S) /\ Cardinality(S) = n =>
    \E s \in [1..n -> S] : Ascending(s) /\ ToSet(s) = S
<1> DEFINE P(n) == \A S \in SUBSET Int : IsFiniteSet(S) /\ Cardinality(S) = n =>
                     \E s \in [1..n -> S] : Ascending(s) /\ ToSet(s) = S
           Wrong == {n \in Nat : ~P(n)}
<1> SUFFICES ASSUME Wrong # {} PROVE FALSE
  OBVIOUS
<1>1. PICK n \in Wrong : \A m \in Wrong : n <= m
  BY LeastNatural
<1>2. P(0)
  <2> SUFFICES ASSUME NEW S \in SUBSET Int, IsFiniteSet(S), Cardinality(S) = 0
               PROVE  \E s \in [1..0 -> S] : Ascending(s) /\ ToSet(s) = S
    OBVIOUS
  <2>1. S = {}
    BY FS_EmptySet
  <2>2. <<>> \in [1..0 -> S] /\ Ascending(<<>>) /\ ToSet(<<>>) = {}
    BY <2>1 DEF Ascending, ToSet
  <2> QED BY <2>1, <2>2
<1>3. n \in Nat /\ n # 0 /\ n - 1 \in Nat /\ P(n - 1)
  BY <1>1, <1>2
<1>4. PICK S \in SUBSET Int : /\ IsFiniteSet(S) /\ Cardinality(S) = n
                              /\ ~\E s \in [1..n -> S] : Ascending(s) /\ ToSet(s) = S
  BY <1>1
<1> HIDE DEF P, Wrong
<1>5. ASSUME NEW x \in S
      PROVE  \E s \in [1..(n - 1) -> S \ {x}] : Ascending(s) /\ ToSet(s) = S \ {x}
  <2>1. IsFiniteSet(S \ {x}) /\ Cardinality(S \ {x}) = n - 1 /\ S \ {x} \in SUBSET Int
    BY <1>4, <1>5, FS_RemoveElement
  <2> QED BY <1>3, <2>1 DEF P
<1>6. PICK x \in S : \A y \in S : y <= x
  <2>1. PICK y \in S : TRUE
    BY <1>3, <1>4, FS_EmptySet
  <2>2. PICK s \in [1..(n - 1) -> S \ {y}] : Ascending(s) /\ ToSet(s) = S \ {y}
    BY <1>5
  <2>3. CASE n = 1
    <3>1. S \ {y} = {}
      BY <2>2, <2>3 DEF ToSet
    <3> QED BY <3>1
  <2>4. CASE n # 1
    <3>1. n - 1 \in 1..(n - 1) /\ \A z \in S \ {y} : z <= s[n - 1]
      <4>1. DOMAIN s = 1..(n - 1) /\ n - 1 \in 1..(n - 1) /\ \A i \in 1..(n - 1) : s[i] \in Int
        <5>1. n - 1 \in 1..(n - 1)
          BY <1>3, <2>4
        <5>2. \A i \in 1..(n - 1) : s[i] \in S /\ s[i] \in Int
          BY <1>4, <2>2
        <5> QED BY <2>2, <5>1, <5>2
      <4>2. \A i \in 1..(n - 1) : s[i] <= s[n - 1]
        <5> SUFFICES ASSUME NEW i \in 1..(n - 1), i # n - 1 PROVE s[i] <= s[n - 1]
          BY <4>1
        <5>1. i < n - 1
          BY <1>3
        <5> QED BY <2>2, <4>1, <5>1 DEF Ascending
      <4> QED BY <2>2, <4>1, <4>2 DEF ToSet
    <3>2. s[n - 1] \in S /\ s[n - 1] \in Int /\ y \in Int
      BY <1>4, <2>2, <3>1
    <3>3. CASE y <= s[n - 1]
      BY <3>1, <3>2, <3>3
    <3>4. CASE s[n - 1] <= y
      BY <1>4, <3>1, <3>2, <3>4
    <3> QED BY <3>2, <3>3, <3>4
  <2> QED BY <2>3, <2>4
<1>7. PICK s \in [1..(n - 1) -> S \ {x}] : Ascending(s) /\ ToSet(s) = S \ {x}
  BY <1>5
<1> DEFINE t == [i \in 1..n |-> IF i = n THEN x ELSE s[i]]
<1>8. n \in Nat /\ t \in [1..n -> S]
  BY <1>3, <1>7
<1>9. Ascending(t)
  <2>1. t[n] = x /\ \A i \in 1..(n - 1) : t[i] = s[i] /\ s[i] \in S /\ s[i] # x
    BY <1>3, <1>7
  <2> HIDE DEF t
  <2> SUFFICES ASSUME NEW i \in 1..n, NEW j \in 1..n, i < j PROVE t[i] < t[j]
    BY <1>8 DEF Ascending
  <2>0. i \in 1..(n - 1)
    BY <1>3
  <2>2. i \in 1..(n - 1) /\ t[i] = s[i] /\ s[i] \in S /\ s[i] # x /\ s[i] \in Int /\ x \in Int
    BY <1>4, <2>0, <2>1
  <2>3. CASE j = n
    BY <1>6, <2>1, <2>2, <2>3
  <2>4. CASE j # n
    <3>1. j \in 1..(n - 1) /\ t[j] = s[j] /\ i \in DOMAIN s /\ j \in DOMAIN s
      BY <1>3, <1>7, <2>1, <2>2, <2>4
    <3> QED BY <1>7, <2>2, <3>1 DEF Ascending
  <2> QED BY <2>3, <2>4
<1>10. ToSet(t) = S
  <2>1. n \in 1..n /\ t[n] = x /\ \A i \in 1..(n - 1) : i \in 1..n /\ t[i] = s[i]
    BY <1>3, <1>8
  <2>2. \A y \in S \ {x} : \E i \in 1..(n - 1) : y = s[i]
    BY <1>7 DEF ToSet
  <2> QED BY <1>8, <2>1, <2>2 DEF ToSet
<1> QED BY <1>4, <1>8, <1>9, <1>10

LEMMA ByIdentifierIs ==
  ASSUME NEW targets \in Seq(Int)
  PROVE  /\ ByIdentifier(targets) \in Seq(Int) /\ ToSet(ByIdentifier(targets)) = ToSet(targets)
         /\ Len(ByIdentifier(targets)) = Cardinality(ToSet(targets))
<1> DEFINE S == ToSet(targets)
<1>1. IsFiniteSet(S) /\ S \in SUBSET Int
  <2>1. IsFiniteSet(1..Len(targets)) /\ DOMAIN targets = 1..Len(targets)
    BY FS_Interval
  <2>2. targets \in Surjection(1..Len(targets), S)
    BY <2>1 DEF Surjection, ToSet
  <2> QED BY <2>1, <2>2, FS_Surjection DEF ToSet
<1>2. Cardinality(S) \in Nat
  BY <1>1, FS_CardinalityType
<1>3. \E s \in [1..Cardinality(S) -> S] : Ascending(s) /\ ToSet(s) = S
  BY <1>1, <1>2, Ordered
<1>4. ByIdentifier(targets) \in [1..Cardinality(S) -> S] /\ ToSet(ByIdentifier(targets)) = S
  BY <1>3 DEF ByIdentifier
<1> HIDE DEF S
<1>5. ASSUME NEW k \in Nat, NEW s \in [1..k -> Int]
      PROVE  s \in Seq(Int) /\ Len(s) = k
  OBVIOUS
<1>6. ByIdentifier(targets) \in [1..Cardinality(S) -> Int]
  BY <1>1, <1>4
<1> QED BY <1>2, <1>4, <1>5, <1>6 DEF S

-----------------------------------------------------------------------------
(* The calls of the remediation adapter.                                     *)

PlanForm == [targets : Seq(Int), steps : Seq(Seq(Int)), count : Nat, owner : {"owner"},
             policy : {"review"}, constant : {TRUE}]
WorkForm == [op : {"none", "intents", "describe", "preflight", "mutate"},
             pc : {"idle", "lookup", "look", "erase"}, asked : Seq(Int), plan : PlanForm,
             token : Nat, n : Nat, cancelled : BOOLEAN, seen : SUBSET Int, ended : {"never", "well", "refused"}]

OwnersOnly(ids) == \A m \in ids : WrittenAs(m).author = "owner"

(* A call that mutates has one of the plans that were made, and one target  *)
(* of it.                                                                   *)
ByAPlan(r) ==
  /\ Len(r.asked) = 1 /\ ToSet(r.asked) \subseteq ToSet(r.plan.targets)
  /\ \E p \in made : p.plan = r.plan

(* What a call has been through.                                            *)
RequestOk(r) ==
  /\ r \in WorkForm
  /\ r.pc # "idle" => /\ r.asked # <<>> /\ ToSet(r.asked) \subseteq Writing
                      /\ r.op = "mutate" => ByAPlan(r)
  /\ r.pc \in {"look", "erase"} =>
       /\ Len(r.asked) <= LookupLimit /\ OwnersOnly(ToSet(r.asked))
       /\ r.n \in 1..Len(r.asked) /\ \A k \in 1..(r.n - 1) : r.asked[k] \in r.seen
  /\ r.pc = "erase" => r.op = "mutate" /\ r.asked[r.n] \in r.seen

PlanSeen(p) ==
  /\ p.plan \in PlanForm
  /\ ToSet(p.plan.targets) \subseteq p.seen /\ p.user = "owner" /\ ExecutablePlan(p.plan)
  /\ Len(p.plan.targets) <= LookupLimit
  /\ OwnersOnly(ToSet(p.plan.targets))
  /\ AuthorizationReason(p.plan) = [count |-> Cardinality(ToSet(p.plan.targets)), owner |-> "owner",
                                     first |-> p.plan.targets[1],
                                     more |-> Cardinality(ToSet(p.plan.targets)) - 1]

ErasureSeen(e) ==
  /\ e.seen /\ e.plan.policy = "review" /\ e.id \in ToSet(e.plan.targets)
  /\ WrittenAs(e.id).author = "owner"
  /\ \E p \in made : p.plan = e.plan

RemediationInv ==
  /\ DOMAIN work = Workers /\ \A w \in Workers : RequestOk(work[w])
  /\ \A p \in made : PlanSeen(p)
  /\ \A e \in erased : ErasureSeen(e)
  /\ signedIn.token \in Nat /\ signIns \in Nat

LEMMA BlankForm == BlankPlan \in PlanForm
BY DEF BlankPlan, PlanForm

LEMMA AtRestForm == ASSUME NEW how \in {"never", "well", "refused"}
                  PROVE  RequestOk([AtRest EXCEPT !.ended = how])
<1> DEFINE r == [AtRest EXCEPT !.ended = how]
<1>1. AtRest \in WorkForm /\ AtRest.pc = "idle"
  BY BlankForm DEF AtRest, WorkForm
<1>2. ASSUME NEW c \in WorkForm
      PROVE  [c EXCEPT !.ended = how] \in WorkForm /\ [c EXCEPT !.ended = how].pc = c.pc
  BY DEF WorkForm
<1>3. r \in WorkForm /\ r.pc = "idle"
  BY <1>1, <1>2
<1> SUFFICES RequestOk(r)
  OBVIOUS
<1> HIDE DEF r
<1> QED BY <1>3 DEF RequestOk

LEMMA RemediationBegins == ASSUME RemediationInit PROVE RemediationInv
<1>1. PICK q, b : RemediationStart(q, b)
  BY DEF RemediationInit
<1>2. RequestOk(AtRest)
  <2>1. AtRest \in WorkForm /\ AtRest.pc = "idle"
    BY BlankForm DEF AtRest, WorkForm
  <2> QED BY <2>1 DEF RequestOk
<1>3. work = [w \in Workers |-> AtRest] /\ made = {} /\ erased = {} /\ signedIn.token = 1 /\ signIns = 1
  BY <1>1 DEF RemediationStart
<1> QED BY <1>2, <1>3 DEF RemediationInv

(* A step of one call, that makes at most one plan and erases at most one   *)
(* message.                                                                 *)
LEMMA RequestKept ==
  ASSUME RemediationInv, NEW w \in Workers, NEW r, work' = [work EXCEPT ![w] = r],
         made \subseteq made', \A p \in made' \ made : PlanSeen(p),
         RequestOk(r), \A e \in erased' \ erased : ErasureSeen(e),
         signedIn'.token \in Nat, signIns' \in Nat
  PROVE  RemediationInv'
<1>1. ASSUME NEW c, RequestOk(c) PROVE RequestOk(c)'
  BY <1>1 DEF RequestOk, ByAPlan
<1>2. ASSUME NEW e, ErasureSeen(e) PROVE ErasureSeen(e)'
  BY <1>2 DEF ErasureSeen
<1>3. DOMAIN work' = Workers /\ \A u \in Workers : RequestOk(work[u])'
  <2>1. DOMAIN work = Workers /\ DOMAIN work' = Workers /\ work'[w] = r
        /\ \A u \in Workers \ {w} : work'[u] = work[u]
    BY DEF RemediationInv
  <2> QED BY <1>1, <2>1 DEF RemediationInv
<1>4. \A p \in made' : PlanSeen(p)'
  BY DEF RemediationInv, PlanSeen
<1>5. \A e \in erased' : ErasureSeen(e)'
  BY <1>2 DEF RemediationInv
<1> QED BY <1>3, <1>4, <1>5 DEF RemediationInv

LEMMA AnsweredKept ==
  ASSUME RemediationInv, NEW w \in Workers, NEW answer, Replies(w, answer),
         made \subseteq made', \A p \in made' \ made : PlanSeen(p),
         \A e \in erased' \ erased : ErasureSeen(e),
         signedIn'.token \in Nat, signIns' \in Nat
  PROVE  RemediationInv'
<1> DEFINE how == IF answer \in {"ok", "offered"} THEN "well" ELSE "refused"
           r == [AtRest EXCEPT !.ended = how]
<1>1. work' = [work EXCEPT ![w] = r] /\ how \in {"never", "well", "refused"}
  BY DEF Replies
<1> HIDE DEF how
<1>2. RequestOk(r)
  BY <1>1, AtRestForm
<1> HIDE DEF r
<1> QED BY <1>1, <1>2, RequestKept

(* A call that is accepted.                                                  *)
LEMMA CalledKept ==
  ASSUME RemediationInv, NEW w \in Workers, NEW op \in {"intents", "describe", "preflight", "mutate"},
         NEW asked \in Seq(Int), NEW given, Called(w, op, asked, given),
         given = BlankPlan \/ op \in {"describe", "mutate"},
         op = "mutate" /\ ExecutablePlan(given) => given \in PlanForm /\ \E p \in made : p.plan = given
  PROVE  RemediationInv'
<1> DEFINE r == [AtRest EXCEPT !.op = op, !.asked = asked, !.plan = given, !.pc = "lookup"]
<1>1. /\ UNCHANGED <<signedIn, signIns, made, erased>>
      /\ signedIn.token \in Nat /\ signIns \in Nat
  BY DEF Called, RemediationInv
<1>2. CASE \E answer : Replies(w, answer)
  BY <1>1, <1>2, AnsweredKept
<1>3. CASE ~\E answer : Replies(w, answer)
  <2>1. /\ work' = [work EXCEPT ![w] = r] /\ Askable(asked)
        /\ op = "describe" => given = BlankPlan
        /\ op = "mutate" => ExecutablePlan(given) /\ Len(asked) = 1 /\ ToSet(asked) \subseteq ToSet(given.targets)
    BY <1>3 DEF Called
  <2>2. given \in PlanForm
    BY <2>1, BlankForm
  <2>3. /\ r \in WorkForm /\ r.pc = "lookup" /\ r.op = op /\ r.asked = asked /\ r.plan = given
    BY <2>2, BlankForm DEF AtRest, WorkForm
  <2> HIDE DEF r
  <2>4. RequestOk(r)
    BY <2>1, <2>3 DEF RequestOk, ByAPlan, Askable
  <2> QED BY <1>1, <2>1, <2>4, RequestKept
<1> QED BY <1>2, <1>3

LEMMA StartsKept ==
  ASSUME RemediationInv, Starts
  PROVE  RemediationInv'
<1>1. PICK w \in Workers : IntentsCall(w) \/ DescribeCall(w) \/ PreflightCall(w) \/ MutateCall(w)
  BY DEF Starts
<1>2. CASE IntentsCall(w)
  <2>1. PICK asked \in Selected : Called(w, "intents", asked, BlankPlan)
    BY <1>2 DEF IntentsCall
  <2>2. asked \in Seq(Int)
    BY RemediationAssumption
  <2> QED BY <2>1, <2>2, CalledKept
<1>3. CASE DescribeCall(w)
  <2>1. PICK asked : (asked \in Selected \/ asked = <<>>) /\ \E other : Called(w, "describe", asked, other)
    BY <1>3 DEF DescribeCall
  <2>2. asked \in Seq(Int)
    <3>1. Selected \subseteq Seq(Int) /\ <<>> \in Seq(Int)
      BY RemediationAssumption
    <3> QED BY <2>1, <3>1
  <2> QED BY <2>1, <2>2, CalledKept
<1>4. CASE PreflightCall(w)
  <2>1. PICK asked \in Selected : Called(w, "preflight", asked, BlankPlan)
    BY <1>4 DEF PreflightCall
  <2>2. asked \in Seq(Int)
    BY RemediationAssumption
  <2> QED BY <2>1, <2>2, CalledKept
<1>5. CASE MutateCall(w)
  <2>1. PICK p \in StoredPlans, asked \in Selected : Called(w, "mutate", asked, p)
    BY <1>5 DEF MutateCall
  <2>2. asked \in Seq(Int)
    BY RemediationAssumption
  <2>3. ExecutablePlan(p) => \E q \in made : q.plan = p
    BY <2>1, RemediationAssumption DEF StoredPlans, ExecutablePlan
  <2>4. ExecutablePlan(p) => p \in PlanForm
    BY <2>3 DEF RemediationInv, PlanSeen
  <2> QED BY <2>1, <2>2, <2>3, <2>4, CalledKept
<1> QED BY <1>1, <1>2, <1>3, <1>4, <1>5

LEMMA LookupKept ==
  ASSUME RemediationInv, NEW w \in Workers, Lookup(w)
  PROVE  RemediationInv'
<1> DEFINE r == [work[w] EXCEPT !.pc = "look", !.token = signedIn.token, !.n = 1]
<1>1. /\ UNCHANGED <<signedIn, signIns, made, erased>>
      /\ signedIn.token \in Nat /\ signIns \in Nat
  BY DEF Lookup, environment, RemediationInv
<1>2. RequestOk(work[w]) /\ work[w].pc = "lookup" /\ DOMAIN work = Workers
  BY DEF RemediationInv, Lookup, Stands
<1>3. CASE \E answer : Replies(w, answer)
  BY <1>1, <1>3, AnsweredKept
<1>4. CASE ~\E answer : Replies(w, answer)
  <2>1. work' = [work EXCEPT ![w].pc = "look", ![w].token = signedIn.token, ![w].n = 1]
        /\ ~(Len(work[w].asked) > LookupLimit) /\ AfterLookup(w) = "found"
    BY <1>4 DEF Lookup
  <2>2. OwnersOnly(ToSet(work[w].asked))
    BY <2>1 DEF AfterLookup, Found, OwnersOnly
  <2>3. work' = [work EXCEPT ![w] = r]
    BY <1>2, <2>1
  <2>4. ASSUME NEW c \in WorkForm
        PROVE  LET d == [c EXCEPT !.pc = "look", !.token = signedIn.token, !.n = 1]
               IN /\ d \in WorkForm /\ d.pc = "look" /\ d.n = 1
                  /\ d.op = c.op /\ d.asked = c.asked /\ d.plan = c.plan
    BY <1>1 DEF WorkForm
  <2>5. work[w] \in WorkForm
    BY <1>2 DEF RequestOk
  <2>6. /\ r \in WorkForm /\ r.pc = "look" /\ r.n = 1
        /\ r.op = work[w].op /\ r.asked = work[w].asked /\ r.plan = work[w].plan
    BY <2>4, <2>5
  <2> HIDE DEF r
  <2>7. Len(r.asked) <= LookupLimit /\ 1 \in 1..Len(r.asked) /\ r.asked # <<>>
    <3>1. work[w].asked \in Seq(Int) /\ work[w].asked # <<>>
      BY <1>2 DEF RequestOk, WorkForm
    <3> QED BY <2>1, <2>6, <3>1, RemediationAssumption
  <2>8. ByAPlan(r) <=> ByAPlan(work[w])
    BY <2>6 DEF ByAPlan
  <2>9. RequestOk(r)
    BY <1>2, <2>2, <2>6, <2>7, <2>8 DEF RequestOk
  <2> QED BY <1>1, <2>3, <2>9, RequestKept
<1> QED BY <1>3, <1>4

(* A call that fails, is refused, or is told that its token is not accepted. *)
LEMMA FailsKept ==
  ASSUME RemediationInv, NEW w \in Workers, LookupFails(w) \/ RequestFails(w) \/ Unauthorized(w)
  PROVE  RemediationInv'
<1>1. /\ made' = made /\ erased' = erased /\ \E answer : Replies(w, answer)
      /\ signedIn' \in {signedIn, SignedOff} /\ signIns' = signIns
  BY DEF LookupFails, RequestFails, Unauthorized, environment
<1>2. signedIn'.token \in Nat /\ signIns' \in Nat
  BY <1>1 DEF RemediationInv, SignedOff
<1> QED BY <1>1, <1>2, AnsweredKept

(* A plan that is made, of messages that were all seen.                      *)
LEMMA SealedIsSeen ==
  ASSUME RemediationInv, NEW w \in Workers, work[w].pc = "look", LastOne(w),
         ExecutablePlan(Sealed(work[w].asked))
  PROVE  PlanSeen([plan |-> Sealed(work[w].asked), seen |-> work[w].seen \cup {Shown(w)}, user |-> "owner"])
<1> DEFINE asked == work[w].asked
           seen == work[w].seen \cup {Shown(w)}
           p == Sealed(asked)
<1>1. /\ asked \in Seq(Int) /\ asked # <<>> /\ Len(asked) <= LookupLimit /\ OwnersOnly(ToSet(asked))
      /\ \A k \in 1..Len(asked) : asked[k] \in seen
  <2>1. RequestOk(work[w]) /\ work[w].pc = "look"
    BY DEF RemediationInv
  <2>2. /\ asked \in Seq(Int) /\ asked # <<>> /\ Len(asked) <= LookupLimit /\ OwnersOnly(ToSet(asked))
        /\ work[w].n \in 1..Len(asked) /\ \A k \in 1..(work[w].n - 1) : asked[k] \in work[w].seen
    BY <2>1 DEF RequestOk, WorkForm
  <2>3. work[w].n = Len(asked) /\ Shown(w) = asked[work[w].n]
    BY DEF LastOne, Shown
  <2>4. Len(asked) \in Nat /\ \A k \in 1..Len(asked) : k = Len(asked) \/ k \in 1..(Len(asked) - 1)
    BY <2>2
  <2> QED BY <2>2, <2>3, <2>4
<1>2. ToSet(asked) \subseteq seen
  BY <1>1 DEF ToSet
<1> HIDE DEF asked
<1> HIDE DEF seen
<1> DEFINE t == ByIdentifier(asked)
<1>3. t \in Seq(Int) /\ ToSet(t) = ToSet(asked) /\ Len(t) = Cardinality(ToSet(asked))
  BY <1>1, ByIdentifierIs
<1>5. <<t>> \in Seq(Seq(Int)) /\ Len(asked) \in Nat
  BY <1>1, <1>3
<1> DEFINE l == Len(asked)
           o == <<t>>
<1>5a. PICK b \in PlanForm : p = [b EXCEPT !.targets = t, !.steps = o, !.count = l]
  BY BlankForm DEF Sealed
<1>5b. t \in Seq(Int) /\ o \in Seq(Seq(Int)) /\ l \in Nat
  BY <1>3, <1>5
<1> HIDE DEF t, o, l, p
<1>6. p \in PlanForm /\ p.targets = t /\ p.count = l /\ p.owner = "owner"
  BY <1>5a, <1>5b DEF PlanForm
<1> HIDE DEF p
<1>7. ExecutablePlan(p)
  BY DEF p, asked
<1>8. p.count = Len(p.targets) /\ p.targets # <<>>
  BY <1>7 DEF ExecutablePlan, ReadablePlan
<1>9. PlanSeen([plan |-> p, seen |-> seen, user |-> "owner"])
  <2>1. AuthorizationReason(p) = [count |-> Cardinality(ToSet(p.targets)), owner |-> "owner",
                                   first |-> p.targets[1], more |-> Cardinality(ToSet(p.targets)) - 1]
    BY <1>3, <1>6, <1>8 DEF AuthorizationReason
  <2>2. Len(p.targets) <= LookupLimit
    BY <1>1, <1>6, <1>8 DEF l
  <2> QED BY <1>1, <1>2, <1>3, <1>6, <1>7, <2>1, <2>2 DEF PlanSeen
<1> QED BY <1>9 DEF p, asked, seen

LEMMA LookKept ==
  ASSUME RemediationInv, NEW w \in Workers, Look(w)
  PROVE  RemediationInv'
<1> DEFINE c == [work[w] EXCEPT !.seen = @ \cup {Shown(w)}]
<1>1. /\ UNCHANGED <<signedIn, signIns, erased>> /\ work[w].pc = "look"
      /\ signedIn.token \in Nat /\ signIns \in Nat /\ RequestOk(work[w])
  BY DEF Look, Stands, environment, RemediationInv
<1>2. /\ work[w] \in WorkForm /\ work[w].asked \in Seq(Int) /\ work[w].n \in 1..Len(work[w].asked)
      /\ Shown(w) \in Int
  BY <1>1 DEF RequestOk, WorkForm, Shown
<1>3. ASSUME NEW d \in WorkForm, NEW m \in Int
      PROVE  LET e == [d EXCEPT !.seen = @ \cup {m}]
             IN /\ e \in WorkForm /\ e.op = d.op /\ e.pc = d.pc /\ e.asked = d.asked
                /\ e.plan = d.plan /\ e.n = d.n /\ e.seen = d.seen \cup {m}
  BY DEF WorkForm
<1>4. /\ c \in WorkForm /\ c.op = work[w].op /\ c.pc = "look" /\ c.asked = work[w].asked
      /\ c.plan = work[w].plan /\ c.n = work[w].n /\ c.seen = work[w].seen \cup {Shown(w)}
  BY <1>1, <1>2, <1>3
<1>5. CASE made' = made /\ \E answer : Replies(w, answer)
  BY <1>1, <1>5, AnsweredKept
<1>6. CASE ~LastOne(w) /\ made' = made /\ work' = [work EXCEPT ![w] = [c EXCEPT !.n = @ + 1]]
  <2> DEFINE r == [c EXCEPT !.n = @ + 1]
  <2> HIDE DEF c
  <2>1. ASSUME NEW d \in WorkForm, NEW k \in Nat
        PROVE  LET e == [d EXCEPT !.n = k]
               IN /\ e \in WorkForm /\ e.op = d.op /\ e.pc = d.pc /\ e.asked = d.asked
                  /\ e.plan = d.plan /\ e.n = k /\ e.seen = d.seen
    BY DEF WorkForm
  <2>1a. c.n + 1 \in Nat
    BY <1>2, <1>4
  <2>2. /\ r \in WorkForm /\ r.op = work[w].op /\ r.pc = "look" /\ r.asked = work[w].asked
        /\ r.plan = work[w].plan /\ r.n = work[w].n + 1 /\ r.seen = work[w].seen \cup {Shown(w)}
    BY <1>4, <2>1, <2>1a
  <2> HIDE DEF r
  <2>3. r.n \in 1..Len(r.asked)
    BY <1>2, <1>6, <2>2 DEF LastOne
  <2>4. \A k \in 1..(r.n - 1) : r.asked[k] \in r.seen
    <3> SUFFICES ASSUME NEW k \in 1..work[w].n PROVE work[w].asked[k] \in work[w].seen \cup {Shown(w)}
      BY <1>2, <2>2
    <3>1. CASE k = work[w].n
      BY <3>1 DEF Shown
    <3>2. CASE k # work[w].n
      BY <1>1, <1>2, <3>2 DEF RequestOk
    <3> QED BY <3>1, <3>2
  <2>5. ByAPlan(r) <=> ByAPlan(work[w])
    BY <2>2 DEF ByAPlan
  <2>6. RequestOk(r)
    BY <1>1, <2>2, <2>3, <2>4, <2>5 DEF RequestOk
  <2> QED BY <1>1, <1>6, <2>6, RequestKept DEF r
<1>7. CASE c.op = "mutate" /\ made' = made /\ work' = [work EXCEPT ![w] = [c EXCEPT !.pc = "erase"]]
  <2> DEFINE r == [c EXCEPT !.pc = "erase"]
  <2> HIDE DEF c
  <2>1. ASSUME NEW d \in WorkForm
        PROVE  LET e == [d EXCEPT !.pc = "erase"]
               IN /\ e \in WorkForm /\ e.op = d.op /\ e.pc = "erase" /\ e.asked = d.asked
                  /\ e.plan = d.plan /\ e.n = d.n /\ e.seen = d.seen
    BY DEF WorkForm
  <2>2. /\ r \in WorkForm /\ r.op = "mutate" /\ work[w].op = "mutate" /\ r.pc = "erase" /\ r.asked = work[w].asked
        /\ r.plan = work[w].plan /\ r.n = work[w].n /\ r.seen = work[w].seen \cup {Shown(w)}
    BY <1>4, <1>7, <2>1
  <2> HIDE DEF r
  <2>3. r.asked[r.n] \in r.seen
    BY <2>2 DEF Shown
  <2>4. ByAPlan(r) <=> ByAPlan(work[w])
    BY <2>2 DEF ByAPlan
  <2>5. RequestOk(r)
    BY <1>1, <2>2, <2>3, <2>4 DEF RequestOk
  <2> QED BY <1>1, <1>7, <2>5, RequestKept DEF r
<1>8. CASE /\ LastOne(w) /\ c.op # "mutate" /\ Replies(w, "ok") /\ Authorized
           /\ c.op = "describe" => ExecutablePlan(Sealed(c.asked))
           /\ made' = IF c.op = "describe"
                      THEN made \cup {[plan |-> Sealed(c.asked), seen |-> c.seen, user |-> signedIn.user]}
                      ELSE made
  <2>1. CASE c.op # "describe"
    BY <1>1, <1>8, <2>1, AnsweredKept
  <2>2. CASE c.op = "describe"
    <3>1. signedIn.user = "owner" /\ c.asked = work[w].asked /\ c.seen = work[w].seen \cup {Shown(w)}
      BY <1>4, <1>8 DEF Authorized
    <3> HIDE DEF c
    <3>2. PlanSeen([plan |-> Sealed(c.asked), seen |-> c.seen, user |-> signedIn.user])
      BY <1>1, <1>8, <2>2, <3>1, SealedIsSeen
    <3> QED BY <1>1, <1>8, <2>2, <3>2, AnsweredKept
  <2> QED BY <2>1, <2>2
<1> QED
  BY <1>5, <1>6, <1>7, <1>8 DEF Look

(* A message that is erased has been seen by this very attempt; an answer   *)
(* that is lost leads to another look.                                       *)
LEMMA EraseKept ==
  ASSUME RemediationInv, NEW w \in Workers, Erase(w) \/ EraseLost(w)
  PROVE  RemediationInv'
<1> DEFINE r == [work[w] EXCEPT !.pc = "look", !.seen = {}]
           e == [plan |-> work[w].plan, id |-> Shown(w), seen |-> Shown(w) \in work[w].seen,
                 token |-> work[w].token]
<1>1. /\ UNCHANGED <<signedIn, signIns, made>> /\ work[w].pc = "erase"
      /\ signedIn.token \in Nat /\ signIns \in Nat /\ RequestOk(work[w]) /\ DOMAIN work = Workers
  BY DEF Erase, EraseLost, Stands, environment, RemediationInv
<1>2. /\ work[w] \in WorkForm /\ work[w].op = "mutate" /\ ByAPlan(work[w])
      /\ work[w].asked \in Seq(Int) /\ work[w].n \in 1..Len(work[w].asked) /\ Len(work[w].asked) = 1
      /\ OwnersOnly(ToSet(work[w].asked)) /\ Shown(w) \in work[w].seen
  BY <1>1 DEF RequestOk, WorkForm, ByAPlan, Shown
<1>3. ErasureSeen(e)
  <2>1. Shown(w) \in ToSet(work[w].asked)
    BY <1>2 DEF Shown, ToSet
  <2>2. work[w].plan.policy = "review"
    BY <1>2 DEF WorkForm, PlanForm
  <2> QED BY <1>2, <2>1, <2>2 DEF ErasureSeen, OwnersOnly, ByAPlan
<1>4. erased' \in {erased, erased \cup {e}}
  BY DEF Erase, EraseLost
<1>5. \A x \in erased' \ erased : ErasureSeen(x)
  <2> HIDE DEF e
  <2> QED BY <1>3, <1>4
<1>6. CASE \E answer : Replies(w, answer)
  BY <1>1, <1>5, <1>6, AnsweredKept
<1>7. CASE work' = [work EXCEPT ![w].pc = "look", ![w].seen = {}]
  <2>1. work' = [work EXCEPT ![w] = r]
    BY <1>1, <1>7 DEF RemediationInv
  <2>2. ASSUME NEW d \in WorkForm
        PROVE  LET f == [d EXCEPT !.pc = "look", !.seen = {}]
               IN /\ f \in WorkForm /\ f.op = d.op /\ f.pc = "look" /\ f.asked = d.asked
                  /\ f.plan = d.plan /\ f.n = d.n
    BY DEF WorkForm
  <2>3. /\ r \in WorkForm /\ r.op = "mutate" /\ r.pc = "look" /\ r.asked = work[w].asked
        /\ r.plan = work[w].plan /\ r.n = work[w].n
    BY <1>2, <2>2
  <2> HIDE DEF r
  <2>4. r.n \in 1..Len(r.asked) /\ r.n = 1
    <3>1. r.n \in 1..Len(r.asked) /\ Len(r.asked) = 1
      BY <1>2, <2>3
    <3>2. \A x \in 1..1 : x = 1
      OBVIOUS
    <3> QED BY <3>1, <3>2
  <2>4a. \A k : k \in 1..(r.n - 1) => FALSE
    BY <2>4
  <2>5. ByAPlan(r) <=> ByAPlan(work[w])
    BY <2>3 DEF ByAPlan
  <2>6. RequestOk(r)
    BY <1>1, <1>2, <2>3, <2>4, <2>4a, <2>5 DEF RequestOk
  <2> QED BY <1>1, <1>5, <2>1, <2>6, RequestKept
<1> QED BY <1>6, <1>7 DEF Erase, EraseLost

LEMMA CancelKept ==
  ASSUME RemediationInv, NEW w \in Workers, CancelWork(w)
  PROVE  RemediationInv'
<1> DEFINE r == [work[w] EXCEPT !.cancelled = TRUE]
<1>1. /\ UNCHANGED <<signedIn, signIns, made, erased>>
      /\ signedIn.token \in Nat /\ signIns \in Nat /\ RequestOk(work[w]) /\ DOMAIN work = Workers
  BY DEF CancelWork, environment, RemediationInv
<1>2. work' = [work EXCEPT ![w] = r]
  BY <1>1 DEF CancelWork
<1>3. ASSUME NEW d \in WorkForm
      PROVE  LET f == [d EXCEPT !.cancelled = TRUE]
             IN /\ f \in WorkForm /\ f.op = d.op /\ f.pc = d.pc /\ f.asked = d.asked
                /\ f.plan = d.plan /\ f.n = d.n /\ f.seen = d.seen
  BY DEF WorkForm
<1>4. work[w] \in WorkForm
  BY <1>1 DEF RequestOk
<1>5. /\ r \in WorkForm /\ r.op = work[w].op /\ r.pc = work[w].pc /\ r.asked = work[w].asked
      /\ r.plan = work[w].plan /\ r.n = work[w].n /\ r.seen = work[w].seen
  BY <1>3, <1>4
<1> HIDE DEF r
<1>6. ByAPlan(r) <=> ByAPlan(work[w])
  BY <1>5 DEF ByAPlan
<1>7. RequestOk(r)
  BY <1>1, <1>5, <1>6 DEF RequestOk
<1> QED BY <1>1, <1>2, <1>7, RequestKept

(* Sessions, tokens, messages and the source change, queries go on.          *)
LEMMA SurroundingsKept ==
  ASSUME RemediationInv, UNCHANGED <<work, made, erased>>, signedIn'.token \in Nat, signIns' \in Nat
  PROVE  RemediationInv'
<1>1. \A w \in Workers : RequestOk(work[w])'
  BY DEF RemediationInv, RequestOk, ByAPlan
<1>2. \A p \in made' : PlanSeen(p)'
  BY DEF RemediationInv, PlanSeen
<1>3. \A e \in erased' : ErasureSeen(e)'
  BY DEF RemediationInv, ErasureSeen
<1> QED BY <1>1, <1>2, <1>3 DEF RemediationInv

(* The invariant that the steps of the adapter, and of what is around it,    *)
(* keep.                                                                     *)
THEOREM RemediationInductive == RemediationSpec => []RemediationInv
<1>1. ASSUME RemediationInv, RemediationNext
      PROVE  RemediationInv'
  <2>1. CASE Starts
    BY <1>1, <2>1, StartsKept
  <2>2. ASSUME NEW w \in Workers, Continues(w)
        PROVE  RemediationInv'
    BY <1>1, <2>2, LookupKept, FailsKept, LookKept, EraseKept, CancelKept DEF Continues
  <2>3. CASE SignOut \/ Turn \/ SearchMore \/ ListMore \/ \E u \in {"owner", "somebody"} : SignInAs(u)
    <3>1. UNCHANGED <<work, made, erased>>
      BY <2>3 DEF SignOut, Turn, SearchMore, ListMore, SignInAs, environment
    <3>2. signedIn'.token \in Nat /\ signIns' \in Nat
      <4>1. signedIn.token \in Nat /\ signIns \in Nat /\ SignedOff.token \in Nat
        BY <1>1 DEF RemediationInv, SignedOff
      <4>2. CASE SignOut \/ Turn \/ SearchMore \/ ListMore
        BY <4>1, <4>2 DEF SignOut, Turn, SearchMore, ListMore, environment
      <4>3. ASSUME NEW u, SignInAs(u)
            PROVE  signedIn'.token \in Nat /\ signIns' \in Nat
        BY <4>1, <4>3 DEF SignInAs
      <4> QED BY <2>3, <4>2, <4>3
    <3> QED BY <1>1, <3>1, <3>2, SurroundingsKept
  <2> QED BY <1>1, <2>1, <2>2, <2>3 DEF RemediationNext
<1>2. ASSUME RemediationInv, UNCHANGED remediationVars
      PROVE  RemediationInv'
  BY <1>2, SurroundingsKept DEF remediationVars, RemediationInv
<1> QED BY <1>1, <1>2, RemediationBegins, PTL DEF RemediationSpec

(* A message is deleted only as a target of a plan that was made, of         *)
(* messages of the owner that this plan saw on Discord, and only after this  *)
(* very attempt has seen it too (remediation.rs: describe, verify_live_owned *)
(* and mutate).                                                              *)
THEOREM DeletesAreReviewed == RemediationSpec => []WhatIsDeletedWasReviewed
<1>1. ASSUME RemediationInv
      PROVE  WhatIsDeletedWasReviewed
  <2>1. PlansAreSeen
    BY <1>1 DEF RemediationInv, PlanSeen, OwnersOnly, PlansAreSeen
  <2>2. DeletedAsReviewed
    BY <1>1 DEF RemediationInv, ErasureSeen, DeletedAsReviewed
  <2> QED BY <2>1, <2>2 DEF WhatIsDeletedWasReviewed
<1> QED BY <1>1, RemediationInductive, PTL

-----------------------------------------------------------------------------
(* The delete client.                                                       *)
Inside == {"lock", "get", "getSent", "delete", "deleteSent"} \cup Waiting
Pc == {"idle", "permit", "done"} \cup Inside
Result == {"none", "ok", "cancelled", "transient", "missing", "denied", "rate", "uncertain"}
CallRecord == [pc : Pc, lock : Call \cup {None}, attempt : Nat, copy : Nat, result : Result]

TypeOK ==
  /\ message \in [Message -> {"reviewed", "edited", "absent"}]
  /\ call \in [Call -> CallRecord]
  /\ permits \in Nat
  /\ locks \in [Channel -> Call \cup {None}]
  /\ account \in Call \cup {None}
  /\ limit \in Nat

(* A call that is given a lock holds the one the map has of its channel:    *)
(* pruning spares it.  No two calls past it have the same.                  *)
HandleInMap ==
  \A c \in Call :
    /\ call[c].pc \in Inside <=> call[c].lock # None
    /\ call[c].lock # None => locks[ChannelFor(c)] = call[c].lock
LockExclusive ==
  \A c, d \in Call : c # d /\ Critical(c) /\ Critical(d) => call[c].lock # call[d].lock

(* The observer is told of edited messages only, which are never again what *)
(* was reviewed; and the deletion follows a check that found them so.       *)
KnownEdited ==
  \A c \in Call : c \in knewEdited => /\ message[Target[c]] # "reviewed"
                                      /\ call[c].pc \notin {"delete", "deleteSent"}

(* The call at the account's lock is the one that is paced.                 *)
AccountHeld == \A c \in Call : At(c, "paced") <=> account = c

(* A permit is out for each call between its wait for one and its return.   *)
Holders == {c \in Call : call[c].pc \in Inside}
PermitsCounted == permits + Cardinality(Holders) = Permits

IInv ==
  /\ TypeOK /\ HandleInMap /\ LockExclusive /\ KnownEdited /\ AccountHeld
  /\ PermitsCounted /\ ConfirmedIsAbsent

-----------------------------------------------------------------------------
(* Steps of a call, whatever they are for.                                  *)

(* A step of call c leaves every other call as it was.                      *)
CallStep(c) ==
  /\ call' \in [Call -> CallRecord]
  /\ \A d \in Call \ {c} : call'[d] = call[d]

(* What was edited or removed is never again what was reviewed, and what is *)
(* absent stays absent.                                                     *)
Decays ==
  /\ message' \in [Message -> {"reviewed", "edited", "absent"}]
  /\ \A m \in Message : /\ message[m] # "reviewed" => message'[m] # "reviewed"
                        /\ message[m] = "absent" => message'[m] = "absent"

(* A call that moves its program counter keeps the rest of its record.      *)
LEMMA GotoForm ==
  ASSUME TypeOK, NEW c \in Call, NEW pc \in Pc, Goto(c, pc)
  PROVE  /\ CallStep(c)
         /\ call'[c] \in CallRecord /\ call[c] \in CallRecord
         /\ call'[c].pc = pc
         /\ call'[c].lock = call[c].lock
         /\ call'[c].attempt = call[c].attempt
         /\ call'[c].result = call[c].result
<1>1. call[c] \in CallRecord
  BY DEF TypeOK
<1>2. [call[c] EXCEPT !.pc = pc] \in CallRecord
  BY <1>1 DEF CallRecord
<1>3. call' = [call EXCEPT ![c] = [call[c] EXCEPT !.pc = pc]]
  BY DEF Goto
<1>4. call'[c] = [call[c] EXCEPT !.pc = pc]
  BY <1>3 DEF TypeOK
<1>5. CallStep(c)
  BY <1>2, <1>3 DEF TypeOK, CallStep
<1> QED BY <1>1, <1>2, <1>4, <1>5 DEF CallRecord

(* A call that returns is done, holds no lock and reports its result.       *)
LEMMA ReturnForm ==
  ASSUME TypeOK, NEW c \in Call, NEW result \in Result, Return(c, result)
  PROVE  /\ CallStep(c)
         /\ call'[c] \in CallRecord
         /\ call'[c].pc = "done"
         /\ call'[c].lock = None
         /\ call'[c].result = result
         /\ permits' = permits + 1
         /\ account' = IF account = c THEN None ELSE account
<1>1. call[c] \in CallRecord
  BY DEF TypeOK
<1> DEFINE r == [Untouched EXCEPT !.pc = "done", !.result = result]
<1>2. r \in CallRecord /\ r.pc = "done" /\ r.lock = None /\ r.result = result
  BY DEF CallRecord, Pc, Untouched
<1>3. call' = [call EXCEPT ![c] = r]
  BY DEF Return
<1>4. call'[c] = r /\ CallStep(c)
  BY <1>2, <1>3 DEF TypeOK, CallStep
<1> QED BY <1>2, <1>4 DEF Return, Released

(* The calls inside are finitely many.                                      *)
LEMMA HoldersFinite ==
  IsFiniteSet(Holders) /\ Cardinality(Holders) \in Nat
<1>1. Holders \subseteq Call
  BY DEF Holders
<1>2. IsFiniteSet(Call)
  BY CallAssumption
<1> QED BY <1>1, <1>2, FS_Subset, FS_CardinalityType

(* What a step that keeps a call inside, or takes it past the channel's lock*)
(* when nobody else has that lock, does to the locks and permits.           *)
LEMMA StaysInside ==
  ASSUME IInv, NEW c \in Call, CallStep(c),
         call[c].pc \in Inside, call'[c].pc \in Inside,
         call'[c].lock = call[c].lock,
         \/ Critical(c)
         \/ \A d \in Call : Critical(d) => call[d].lock # call[c].lock,
         UNCHANGED <<permits, locks>>
  PROVE  HandleInMap' /\ LockExclusive' /\ PermitsCounted'
<1>1. HandleInMap'
  BY DEF IInv, HandleInMap, CallStep, TypeOK, ChannelFor
<1>2. LockExclusive'
  BY DEF IInv, LockExclusive, CallStep, TypeOK, Critical
<1>3. Holders' = Holders
  BY DEF Holders, CallStep
<1> QED BY <1>1, <1>2, <1>3 DEF IInv, PermitsCounted

(* What the return of a call from inside does to them.                      *)
LEMMA LeavesInside ==
  ASSUME IInv, NEW c \in Call, CallStep(c),
         call[c].pc \in Inside, call'[c].pc = "done", call'[c].lock = None,
         permits' = permits + 1, UNCHANGED locks,
         account' = IF account = c THEN None ELSE account
  PROVE  HandleInMap' /\ LockExclusive' /\ PermitsCounted' /\ AccountHeld'
<1>0. None \notin Call
  BY CallAssumption
<1>1. HandleInMap'
  BY DEF IInv, HandleInMap, CallStep, TypeOK, ChannelFor, Inside, Waiting
<1>2. LockExclusive'
  BY DEF IInv, LockExclusive, CallStep, TypeOK, Critical, Waiting
<1>3. Holders' = Holders \ {c} /\ c \in Holders
  BY DEF Holders, CallStep, Inside, Waiting
<1>4. Cardinality(Holders') = Cardinality(Holders) - 1
  BY <1>3, HoldersFinite, FS_RemoveElement
<1>5. PermitsCounted'
  BY <1>4, HoldersFinite, BoundAssumption DEF IInv, PermitsCounted, TypeOK
<1>6. AccountHeld'
  BY <1>0 DEF IInv, AccountHeld, CallStep, At
<1> QED BY <1>1, <1>2, <1>5, <1>6

(* What a step of a call does to the observer and to what is confirmed.     *)
LEMMA ReviewKept ==
  ASSUME IInv, NEW c \in Call, CallStep(c), Decays, UNCHANGED knewEdited,
         call'[c].pc \in {"delete", "deleteSent"} => c \notin knewEdited,
         \/ call'[c].result = call[c].result
         \/ call'[c].result # "ok"
         \/ c \notin Deletes
         \/ message'[Target[c]] = "absent"
  PROVE  KnownEdited' /\ ConfirmedIsAbsent'
<1>1. \A d \in Call : Target[d] \in Message
  BY CallAssumption
<1>2. Deletes \subseteq Call
  BY CallAssumption
<1>3. KnownEdited'
  BY <1>1 DEF IInv, KnownEdited, CallStep, Decays
<1>4. ConfirmedIsAbsent'
  BY <1>1, <1>2 DEF IInv, ConfirmedIsAbsent, CallStep, Decays
<1> QED BY <1>3, <1>4

-----------------------------------------------------------------------------
(* The steps, one lemma each where a step has cases.                        *)

(* A call that moves on inside without touching a lock.                     *)
LEMMA MovesOn ==
  ASSUME IInv, NEW c \in Call, CallStep(c), Critical(c),
         call'[c].pc \in Inside \ {"paced", "deleteSent"}, call[c].pc # "paced",
         call'[c].lock = call[c].lock, call'[c].result = call[c].result,
         call'[c].pc = "delete" => c \notin knewEdited,
         Decays,
         UNCHANGED <<permits, locks, account, limit, knewEdited>>
  PROVE  IInv'
<1>1. call[c].pc \in Inside
  BY DEF Critical, Inside
<1>2. HandleInMap' /\ LockExclusive' /\ PermitsCounted'
  BY <1>1, StaysInside
<1>3. KnownEdited' /\ ConfirmedIsAbsent'
  BY ReviewKept
<1>4. AccountHeld'
  BY DEF IInv, AccountHeld, CallStep, At
<1>5. TypeOK'
  BY DEF IInv, TypeOK, CallStep, Decays
<1> QED BY <1>2, <1>3, <1>4, <1>5 DEF IInv

(* A call that returns from inside.                                         *)
LEMMA CallEnds ==
  ASSUME IInv, NEW c \in Call, NEW result \in Result, Return(c, result),
         call[c].pc \in Inside,
         result = "ok" => c \notin Deletes \/ message'[Target[c]] = "absent",
         Decays, limit' \in Nat,
         UNCHANGED <<locks, knewEdited>>
  PROVE  IInv'
<1>1. /\ CallStep(c) /\ call'[c].pc = "done" /\ call'[c].lock = None
      /\ call'[c].result = result /\ permits' = permits + 1
      /\ account' = IF account = c THEN None ELSE account
  BY ReturnForm DEF IInv
<1>2. HandleInMap' /\ LockExclusive' /\ PermitsCounted' /\ AccountHeld'
  BY <1>1, LeavesInside
<1>3. KnownEdited' /\ ConfirmedIsAbsent'
  BY <1>1, ReviewKept
<1>4. TypeOK'
  BY <1>1 DEF IInv, TypeOK, CallStep, Decays
<1> QED BY <1>2, <1>3, <1>4 DEF IInv

LEMMA StartStep ==
  ASSUME IInv, NEW c \in Call, Start(c)
  PROVE  IInv'
<1>0. /\ call[c] \in CallRecord /\ call[c].pc = "idle" /\ call[c].lock = None
      /\ "idle" \notin Inside /\ "done" \notin Inside /\ "permit" \notin Inside
  BY DEF IInv, TypeOK, Start, At, HandleInMap, Inside, Waiting
<1> DEFINE r == IF Flagged(c) THEN [call[c] EXCEPT !.pc = "done", !.result = "cancelled"]
                ELSE [call[c] EXCEPT !.pc = "permit"]
<1>1. call' = [call EXCEPT ![c] = r]
  BY DEF Start, Goto
<1>2. /\ r \in CallRecord /\ r.pc \in {"done", "permit"} /\ r.lock = None
      /\ r.result = call[c].result \/ r.result # "ok"
  BY <1>0 DEF CallRecord, Pc, Result
<1> HIDE DEF r
<1>3. CallStep(c) /\ call'[c] = r
  BY <1>1, <1>2 DEF IInv, TypeOK, CallStep
<1>4. UNCHANGED <<message, permits, locks, account, limit, knewEdited>>
  BY DEF Start, external
<1>5. Decays
  BY <1>4 DEF IInv, TypeOK, Decays
<1>6. KnownEdited' /\ ConfirmedIsAbsent'
  BY <1>2, <1>3, <1>4, <1>5, ReviewKept
<1>7. HandleInMap'
  BY <1>0, <1>2, <1>3, <1>4 DEF IInv, HandleInMap, CallStep, ChannelFor
<1>8. LockExclusive'
  BY <1>2, <1>3 DEF IInv, LockExclusive, CallStep, Critical, Waiting
<1>9. Holders' = Holders
  BY <1>0, <1>2, <1>3 DEF Holders, CallStep
<1>10. PermitsCounted'
  BY <1>4, <1>9 DEF IInv, PermitsCounted
<1>11. AccountHeld'
  BY <1>0, <1>2, <1>3, <1>4 DEF IInv, AccountHeld, CallStep, At
<1>12. TypeOK'
  BY <1>3, <1>4 DEF IInv, TypeOK, CallStep
<1> QED BY <1>6, <1>7, <1>8, <1>10, <1>11, <1>12 DEF IInv

(* A call that takes its permit is handed the lock the map has of its       *)
(* channel: pruning keeps the lock of everybody who waits or works there.   *)
LEMMA TakePermitStep ==
  ASSUME IInv, NEW c \in Call, TakePermit(c)
  PROVE  IInv'
<1> DEFINE map  == IF Full THEN Kept ELSE locks
           ch   == ChannelFor(c)
           lock == IF map[ch] = None THEN c ELSE map[ch]
<1>0. /\ call[c] \in CallRecord /\ call[c].pc = "permit" /\ call[c].lock = None
      /\ "permit" \notin Inside /\ "lock" \in Inside /\ permits > 0
      /\ None \notin Call
  BY CallAssumption DEF IInv, TypeOK, TakePermit, At, HandleInMap, Inside, Waiting
<1>1. /\ permits' = permits - 1
      /\ locks' = [map EXCEPT ![ch] = lock]
      /\ call' = [call EXCEPT ![c] = [call[c] EXCEPT !.pc = "lock", !.lock = lock]]
      /\ UNCHANGED <<message, account, limit, knewEdited>>
  BY DEF TakePermit, external
<1>2. ch \in Channel /\ \A d \in Call : ChannelFor(d) \in Channel
  BY CallAssumption DEF ChannelFor
<1>3. map \in [Channel -> Call \cup {None}]
  BY DEF IInv, TypeOK, Kept
<1>4. \A d \in Call : call[d].lock # None => map[ChannelFor(d)] = call[d].lock
  BY <1>2 DEF IInv, HandleInMap, Kept, Used
<1> HIDE DEF map
<1>5. lock \in Call
  BY <1>2, <1>3
<1>6. \A d \in Call : call[d].lock # None /\ ChannelFor(d) = ch => lock = call[d].lock
  BY <1>4
<1>7. locks' \in [Channel -> Call \cup {None}] /\ locks'[ch] = lock
      /\ \A x \in Channel \ {ch} : locks'[x] = map[x]
  BY <1>1, <1>2, <1>3, <1>5
<1> HIDE DEF lock, ch
<1>8. /\ [call[c] EXCEPT !.pc = "lock", !.lock = lock] \in CallRecord
      /\ CallStep(c)
      /\ call'[c].pc = "lock" /\ call'[c].lock = lock /\ call'[c].result = call[c].result
  <2>1. [call[c] EXCEPT !.pc = "lock", !.lock = lock] \in CallRecord
    BY <1>0, <1>5 DEF CallRecord, Pc
  <2> QED BY <1>0, <1>1, <2>1 DEF IInv, TypeOK, CallStep, CallRecord
<1>9. HandleInMap'
  <2> SUFFICES ASSUME NEW d \in Call
               PROVE  /\ call'[d].pc \in Inside <=> call'[d].lock # None
                      /\ call'[d].lock # None => locks'[ChannelFor(d)] = call'[d].lock
    BY DEF HandleInMap, ChannelFor
  <2>1. CASE d = c
    BY <1>0, <1>5, <1>7, <1>8, <2>1 DEF ch
  <2>2. CASE d # c
    <3>1. call'[d] = call[d]
      BY <1>8, <2>2 DEF CallStep
    <3>2. call[d].lock # None => locks'[ChannelFor(d)] = call[d].lock
      BY <1>2, <1>4, <1>6, <1>7 DEF ch
    <3> QED BY <3>1, <3>2 DEF IInv, HandleInMap
  <2> QED BY <2>1, <2>2
<1>10. LockExclusive'
  BY <1>8 DEF IInv, LockExclusive, CallStep, Critical, Waiting
<1>11. PermitsCounted'
  <2>1. Holders' = Holders \cup {c} /\ c \notin Holders
    BY <1>0, <1>8 DEF Holders, CallStep
  <2>2. Cardinality(Holders') = Cardinality(Holders) + 1
    BY <2>1, HoldersFinite, FS_AddElement
  <2> QED BY <1>1, <2>2, HoldersFinite DEF IInv, PermitsCounted, TypeOK
<1>12. AccountHeld'
  BY <1>0, <1>1, <1>8 DEF IInv, AccountHeld, CallStep, At
<1>13. TypeOK'
  <2>1. permits' \in Nat
    BY <1>0, <1>1 DEF IInv, TypeOK
  <2> QED BY <1>1, <1>7, <1>8, <2>1 DEF IInv, TypeOK, CallStep
<1>14. Decays
  BY <1>1 DEF IInv, TypeOK, Decays
<1>15. KnownEdited' /\ ConfirmedIsAbsent'
  BY <1>1, <1>8, <1>14, ReviewKept
<1> QED BY <1>9, <1>10, <1>11, <1>12, <1>13, <1>15 DEF IInv

(* What begins an attempt tells the observer of a message edited before.    *)
LEMMA BeginsAttempt ==
  ASSUME IInv, NEW c \in Call, CallStep(c), call'[c].pc = "global",
         call'[c].result = call[c].result,
         call[c].pc # "paced", UNCHANGED <<message, permits, locks, account, limit>>,
         knewEdited' = IF message[Target[c]] = "edited" THEN knewEdited \cup {c}
                       ELSE knewEdited
  PROVE  KnownEdited' /\ ConfirmedIsAbsent' /\ AccountHeld' /\ TypeOK'
<1>1. KnownEdited'
  BY DEF IInv, KnownEdited, CallStep
<1>2. ConfirmedIsAbsent'
  BY CallAssumption DEF IInv, ConfirmedIsAbsent, CallStep
<1>3. AccountHeld'
  BY DEF IInv, AccountHeld, CallStep, At
<1>4. TypeOK'
  BY DEF IInv, TypeOK, CallStep
<1> QED BY <1>1, <1>2, <1>3, <1>4

LEMMA EnterChannelStep ==
  ASSUME IInv, NEW c \in Call, EnterChannel(c)
  PROVE  IInv'
<1>1. CallStep(c) /\ call'[c].pc = "global" /\ call'[c].lock = call[c].lock
      /\ call'[c].result = call[c].result
  BY GotoForm DEF IInv, EnterChannel, Pc, Inside, Waiting
<1>2. call[c].pc = "lock" /\ "lock" \in Inside /\ "global" \in Inside
      /\ UNCHANGED <<message, permits, locks, account, limit>>
  BY DEF EnterChannel, At, Inside, Waiting
<1>3. HandleInMap' /\ LockExclusive' /\ PermitsCounted'
  BY <1>1, <1>2, StaysInside DEF EnterChannel
<1>4. KnownEdited' /\ ConfirmedIsAbsent' /\ AccountHeld' /\ TypeOK'
  BY <1>1, <1>2, BeginsAttempt DEF EnterChannel
<1> QED BY <1>3, <1>4 DEF IInv

LEMMA BackedOffStep ==
  ASSUME IInv, NEW c \in Call, BackedOff(c)
  PROVE  IInv'
<1>1. call[c] \in CallRecord /\ call[c].pc = "backoff"
  BY DEF IInv, TypeOK, BackedOff, At
<1> DEFINE r == [call[c] EXCEPT !.pc = "global", !.attempt = call[c].attempt + 1]
<1>2. r \in CallRecord /\ r.pc = "global" /\ r.lock = call[c].lock /\ r.result = call[c].result
  <2>1. call[c].attempt + 1 \in Nat /\ "global" \in Pc
    BY <1>1 DEF CallRecord, Pc, Inside, Waiting
  <2> QED BY <1>1, <2>1 DEF CallRecord
<1>3. call' = [call EXCEPT ![c] = r]
  BY DEF BackedOff, NextAttempt
<1> HIDE DEF r
<1>4. CallStep(c) /\ call'[c] = r
  BY <1>2, <1>3 DEF IInv, TypeOK, CallStep
<1>5. /\ "backoff" \in Inside /\ "global" \in Inside /\ Critical(c)
      /\ UNCHANGED <<message, permits, locks, account, limit>>
  BY <1>1 DEF BackedOff, Inside, Waiting, Critical
<1>6. HandleInMap' /\ LockExclusive' /\ PermitsCounted'
  BY <1>1, <1>2, <1>4, <1>5, StaysInside
<1>7. KnownEdited' /\ ConfirmedIsAbsent' /\ AccountHeld' /\ TypeOK'
  BY <1>1, <1>2, <1>4, <1>5, BeginsAttempt DEF BackedOff
<1> QED BY <1>6, <1>7 DEF IInv

LEMMA ReadGlobalStep ==
  ASSUME IInv, NEW c \in Call, ReadGlobal(c)
  PROVE  IInv'
<1>1. call[c] \in CallRecord /\ call[c].pc = "global" /\ limit \in Nat
  BY DEF IInv, TypeOK, ReadGlobal, At
<1> DEFINE pc == IF limit = 0 THEN "pace" ELSE "limited"
           r  == [call[c] EXCEPT !.pc = pc, !.copy = limit]
<1>2. pc \in {"pace", "limited"}
  OBVIOUS
<1> HIDE DEF pc
<1>3. r \in CallRecord /\ r.pc = pc /\ r.lock = call[c].lock /\ r.result = call[c].result
  BY <1>1, <1>2 DEF CallRecord, Pc, Inside, Waiting
<1>4. call' = [call EXCEPT ![c] = r]
  BY DEF ReadGlobal, pc
<1> HIDE DEF r
<1>5. CallStep(c) /\ call'[c] = r
  BY <1>3, <1>4 DEF IInv, TypeOK, CallStep
<1>6. UNCHANGED <<message, permits, locks, account, limit, knewEdited>> /\ Decays
  BY DEF ReadGlobal, external, Decays, IInv, TypeOK
<1> QED BY <1>1, <1>2, <1>3, <1>5, <1>6, MovesOn DEF Critical, Inside, Waiting

LEMMA LimitOverStep ==
  ASSUME IInv, NEW c \in Call, LimitOver(c)
  PROVE  IInv'
<1>1. call[c] \in CallRecord /\ call[c].pc = "limited"
  BY DEF IInv, TypeOK, LimitOver, At
<1> DEFINE r == [call[c] EXCEPT !.pc = "pace", !.copy = 0]
<1>2. r \in CallRecord /\ r.pc = "pace" /\ r.lock = call[c].lock /\ r.result = call[c].result
  BY <1>1 DEF CallRecord, Pc, Inside, Waiting
<1>3. call' = [call EXCEPT ![c] = r]
  BY DEF LimitOver
<1> HIDE DEF r
<1>4. CallStep(c) /\ call'[c] = r
  BY <1>2, <1>3 DEF IInv, TypeOK, CallStep
<1>5. UNCHANGED <<message, permits, locks, account, limit, knewEdited>> /\ Decays
  BY DEF LimitOver, external, Decays, IInv, TypeOK
<1> QED BY <1>1, <1>2, <1>4, <1>5, MovesOn DEF Critical, Inside, Waiting

(* The steps that only move the program counter.                            *)
LEMMA PlainSteps ==
  ASSUME IInv, NEW c \in Call, ChannelReady(c) \/ SendGet(c)
  PROVE  IInv'
<1>1. PICK pc \in {"get", "getSent"} : Goto(c, pc)
  BY DEF ChannelReady, FirstRequest, SendGet
<1>2. /\ CallStep(c) /\ call'[c].pc = pc /\ call'[c].lock = call[c].lock
      /\ call'[c].result = call[c].result
  BY <1>1, GotoForm DEF IInv, Pc, Inside, Waiting
<1>3. call[c].pc \in {"channel", "get"}
  BY DEF ChannelReady, SendGet, At
<1>4. UNCHANGED <<message, permits, locks, account, limit, knewEdited>> /\ Decays
  BY DEF ChannelReady, SendGet, external, Decays, IInv, TypeOK
<1> QED BY <1>2, <1>3, <1>4, MovesOn DEF Critical, Inside, Waiting

(* The account is free for one call at a time.                              *)
LEMMA AccountSteps ==
  ASSUME IInv, NEW c \in Call, TakeAccount(c) \/ Paced(c)
  PROVE  IInv'
<1>1. PICK pc \in {"paced", "channel"} :
         /\ Goto(c, pc)
         /\ pc = "paced" => account = None /\ account' = c
         /\ pc = "channel" => call[c].pc = "paced" /\ account' = None
  BY DEF TakeAccount, Paced, At
<1>2. /\ CallStep(c) /\ call'[c].pc = pc /\ call'[c].lock = call[c].lock
      /\ call'[c].result = call[c].result
  BY <1>1, GotoForm DEF IInv, Pc, Inside, Waiting
<1>3. call[c].pc \in {"pace", "paced"} /\ None \notin Call
  BY CallAssumption DEF TakeAccount, Paced, At
<1>4. UNCHANGED <<message, permits, locks, limit, knewEdited>> /\ Decays
  BY DEF TakeAccount, Paced, external, Decays, IInv, TypeOK
<1>5. HandleInMap' /\ LockExclusive' /\ PermitsCounted'
  BY <1>2, <1>3, <1>4, StaysInside DEF Critical, Inside, Waiting
<1>6. KnownEdited' /\ ConfirmedIsAbsent'
  BY <1>2, <1>4, ReviewKept
<1>7. AccountHeld'
  <2>1. account = None \/ account = c
    BY <1>1, <1>3 DEF IInv, AccountHeld, At
  <2> QED BY <1>1, <1>2, <1>3, <2>1 DEF IInv, AccountHeld, CallStep, At
<1>8. TypeOK'
  BY <1>1, <1>2, <1>4 DEF IInv, TypeOK, CallStep
<1> QED BY <1>5, <1>6, <1>7, <1>8 DEF IInv

LEMMA SendDeleteStep ==
  ASSUME IInv, NEW c \in Call, SendDelete(c)
  PROVE  IInv'
<1>1. /\ CallStep(c) /\ call'[c].pc = "deleteSent" /\ call'[c].lock = call[c].lock
      /\ call'[c].result = call[c].result
  BY GotoForm DEF IInv, SendDelete, Pc, Inside
<1>2. /\ call[c].pc = "delete"
      /\ UNCHANGED <<message, permits, locks, account, limit, knewEdited>> /\ Decays
  BY DEF SendDelete, At, external, Decays, IInv, TypeOK
<1>3. HandleInMap' /\ LockExclusive' /\ PermitsCounted'
  BY <1>1, <1>2, StaysInside DEF Critical, Inside
<1>4. c \notin knewEdited
  BY <1>2 DEF IInv, KnownEdited
<1>5. KnownEdited' /\ ConfirmedIsAbsent'
  BY <1>1, <1>2, <1>4, ReviewKept
<1>6. AccountHeld'
  BY <1>1, <1>2 DEF IInv, AccountHeld, CallStep, At
<1>7. TypeOK'
  BY <1>1, <1>2 DEF IInv, TypeOK, CallStep
<1> QED BY <1>3, <1>5, <1>6, <1>7 DEF IInv

(* A removal leaves the message absent.                                     *)
LEMMA RemoveForm ==
  ASSUME TypeOK, NEW c \in Call, RemoveMessage(c)
  PROVE  Decays /\ message'[Target[c]] = "absent"
<1>1. Target[c] \in Message
  BY CallAssumption
<1> QED BY <1>1 DEF RemoveMessage, Decays, TypeOK

(* The retry of a lost request goes back to the ownership check.            *)
LEMMA RetryOrReturns ==
  ASSUME IInv, NEW c \in Call, NEW result \in Result \ {"ok"}, RetryOr(c, result),
         call[c].pc \in {"getSent", "deleteSent"}, Decays,
         UNCHANGED <<locks, limit, knewEdited>>
  PROVE  IInv'
<1>1. limit' \in Nat /\ call[c].pc \in Inside /\ Critical(c) /\ "backoff" \in Inside
  BY DEF IInv, TypeOK, Inside, Critical, Waiting
<1>2. CASE MayRetry(c)
  <2>1. Goto(c, "backoff") /\ UNCHANGED <<permits, account>>
    BY <1>2 DEF RetryOr
  <2>2. /\ CallStep(c) /\ call'[c].pc = "backoff" /\ call'[c].lock = call[c].lock
        /\ call'[c].result = call[c].result
    BY <2>1, GotoForm DEF IInv, Pc, Inside, Waiting
  <2> QED BY <1>1, <2>1, <2>2, MovesOn
<1>3. CASE ~MayRetry(c)
  <2>1. Return(c, result)
    BY <1>3 DEF RetryOr
  <2> QED BY <1>1, <2>1, CallEnds
<1> QED BY <1>2, <1>3

LEMMA LostSteps ==
  ASSUME IInv, NEW c \in Call, GetLost(c) \/ DeleteLost(c)
  PROVE  IInv'
<1>1. PICK result \in {"transient", "uncertain"} :
         RetryOr(c, result) /\ call[c].pc \in {"getSent", "deleteSent"}
  BY DEF GetLost, DeleteLost, At, Exhausted
<1>2. Decays
  <2>1. TypeOK
    BY DEF IInv
  <2>2. RemoveMessage(c) \/ UNCHANGED message
    BY DEF GetLost, DeleteLost, external
  <2> QED BY <2>1, <2>2, RemoveForm DEF Decays, TypeOK
<1>3. UNCHANGED <<locks, limit, knewEdited>>
  BY DEF GetLost, DeleteLost, external
<1> QED BY <1>1, <1>2, <1>3, RetryOrReturns DEF Result

(* A rate limit ends the call; a global one is counted.                     *)
LEMMA LimitedForm ==
  ASSUME TypeOK, NEW c \in Call, Limited(c)
  PROVE  Return(c, "rate") /\ limit' \in Nat
BY DEF TypeOK, Limited

LEMMA AnsweredStep ==
  ASSUME IInv, NEW c \in Call, GetAnswered(c)
  PROVE  IInv'
<1>1. /\ call[c].pc = "getSent" /\ TypeOK /\ limit \in Nat
      /\ UNCHANGED <<locks, message, knewEdited>> /\ Decays
  BY DEF GetAnswered, At, Decays, IInv, TypeOK
<1>2. call[c].pc \in Inside /\ Critical(c)
  BY <1>1 DEF Inside, Critical
<1>3. ASSUME NEW result \in Result, Return(c, result), limit' \in Nat,
             result = "ok" => c \notin Deletes
      PROVE  IInv'
  BY <1>1, <1>2, <1>3, CallEnds
<1>4. CASE /\ message[Target[c]] = "reviewed" /\ Goto(c, "delete")
           /\ UNCHANGED <<permits, account, limit>>
  <2>1. c \notin knewEdited
    BY <1>4 DEF IInv, KnownEdited
  <2>2. /\ CallStep(c) /\ call'[c].pc = "delete" /\ call'[c].lock = call[c].lock
        /\ call'[c].result = call[c].result
    BY <1>1, <1>4, GotoForm DEF Pc, Inside
  <2> QED BY <1>1, <1>2, <1>4, <2>1, <2>2, MovesOn DEF Inside
<1>5. \/ \E result \in {"cancelled", "missing", "denied"} : Return(c, result) /\ UNCHANGED limit
      \/ c \notin Deletes /\ Return(c, "ok") /\ UNCHANGED limit
      \/ Limited(c)
      \/ /\ message[Target[c]] = "reviewed" /\ Goto(c, "delete")
         /\ UNCHANGED <<permits, account, limit>>
  BY DEF GetAnswered
<1> QED BY <1>1, <1>3, <1>4, <1>5, LimitedForm DEF Result

LEMMA DeletedSteps ==
  ASSUME IInv, NEW c \in Call, DeleteDone(c) \/ DeleteRefused(c)
  PROVE  IInv'
<1>1. call[c].pc = "deleteSent" /\ call[c].pc \in Inside /\ TypeOK /\ limit \in Nat
  BY DEF DeleteDone, DeleteRefused, At, IInv, TypeOK, Inside
<1>2. CASE DeleteDone(c)
  <2>1. Return(c, "ok") /\ Decays /\ message'[Target[c]] = "absent"
    BY <1>1, <1>2, RemoveForm DEF DeleteDone
  <2>2. UNCHANGED <<locks, limit, knewEdited>>
    BY <1>2 DEF DeleteDone
  <2> QED BY <1>1, <2>1, <2>2, CallEnds DEF Result
<1>3. CASE DeleteRefused(c)
  <2>1. UNCHANGED <<locks, message, knewEdited>> /\ Decays
    BY <1>1, <1>3 DEF DeleteRefused, Decays, TypeOK
  <2>2. PICK result \in {"rate", "cancelled", "denied", "transient"} :
           Return(c, result) /\ limit' \in Nat
    BY <1>1, <1>3, LimitedForm DEF DeleteRefused
  <2> QED BY <1>1, <2>1, <2>2, CallEnds DEF Result
<1> QED BY <1>2, <1>3

LEMMA SeeCancelledStep ==
  ASSUME IInv, NEW c \in Call, SeeCancelled(c)
  PROVE  IInv'
<1>1. call[c].pc \in Inside /\ Return(c, "cancelled") /\ "cancelled" \in Result
  BY DEF SeeCancelled, Inside, Waiting, Result
<1>2. UNCHANGED <<message, locks, limit, knewEdited>> /\ Decays /\ limit' \in Nat
  BY DEF SeeCancelled, external, Decays, IInv, TypeOK
<1> QED BY <1>1, <1>2, CallEnds

(* Nobody else takes a step of a call.                                      *)
LEMMA SurroundingsStep ==
  ASSUME IInv, UNCHANGED <<call, permits, locks, account, limit, knewEdited>>, Decays
  PROVE  IInv'
<1>1. Holders' = Holders
  BY DEF Holders
<1>2. \A c \in Call : Target[c] \in Message
  BY CallAssumption
<1>3. KnownEdited' /\ ConfirmedIsAbsent'
  BY <1>2, CallAssumption DEF IInv, KnownEdited, ConfirmedIsAbsent, Decays
<1>4. HandleInMap' /\ LockExclusive' /\ AccountHeld' /\ PermitsCounted' /\ TypeOK'
  BY <1>1 DEF IInv, HandleInMap, LockExclusive, AccountHeld, PermitsCounted, TypeOK,
     ChannelFor, Critical, At, Decays
<1> QED BY <1>3, <1>4 DEF IInv

-----------------------------------------------------------------------------
(* The inductive invariant.                                                 *)

LEMMA InitInv == Init => IInv
<1> SUFFICES ASSUME Init PROVE IInv
  OBVIOUS
<1>1. \A c \in Call : call[c].pc = "idle" /\ call[c].lock = None /\ call[c].result = "none"
  BY DEF Init, Untouched
<1>2. TypeOK
  BY BoundAssumption DEF Init, Untouched, TypeOK, CallRecord, Pc, Result
<1>3. "idle" \notin Inside
  BY DEF Inside, Waiting
<1>4. HandleInMap /\ LockExclusive /\ ConfirmedIsAbsent
  BY <1>1, <1>3, CallAssumption DEF HandleInMap, LockExclusive, Critical, Waiting,
     ConfirmedIsAbsent
<1>5. KnownEdited /\ AccountHeld
  BY <1>1, CallAssumption DEF Init, KnownEdited, AccountHeld, At
<1>6. PermitsCounted
  <2>1. Holders = {}
    BY <1>1, <1>3 DEF Holders
  <2> QED BY <2>1, FS_EmptySet, BoundAssumption DEF Init, PermitsCounted
<1> QED BY <1>2, <1>4, <1>5, <1>6 DEF IInv

LEMMA NextInv == IInv /\ [Next]_vars => IInv'
<1> SUFFICES ASSUME IInv, [Next]_vars PROVE IInv'
  OBVIOUS
<1>1. ASSUME NEW c \in Call, Advance(c) PROVE IInv'
  BY <1>1, StartStep, TakePermitStep, EnterChannelStep, ReadGlobalStep, LimitOverStep, PlainSteps,
     AccountSteps, SeeCancelledStep, BackedOffStep, LostSteps, AnsweredStep,
     SendDeleteStep, DeletedSteps DEF Advance
<1>2. ASSUME NEW c \in Call, Cancel(c) PROVE IInv'
  BY <1>2, SurroundingsStep DEF Cancel, Frame, Decays, IInv, TypeOK
<1>3. ASSUME NEW c \in Call, LateDelete(c) PROVE IInv'
  BY <1>3, RemoveForm, SurroundingsStep DEF LateDelete, Frame, IInv
<1>4. ASSUME NEW m \in Message, Touch(m) PROVE IInv'
  <2>1. Decays
    BY <1>4 DEF Touch, Decays, IInv, TypeOK
  <2> QED BY <1>4, <2>1, SurroundingsStep DEF Touch, Frame
<1>5. ASSUME NEW e \in 1..limit, Elapse(e) PROVE IInv'
  BY <1>5, SurroundingsStep DEF Elapse, Frame, Decays, IInv, TypeOK
<1>6. CASE UNCHANGED vars
  BY <1>6, SurroundingsStep DEF vars, Decays, IInv, TypeOK
<1> QED BY <1>1, <1>2, <1>3, <1>4, <1>5, <1>6 DEF Next, Rest

(* The inductive invariant holds in every reachable state: in particular no *)
(* permit is lost or given twice, and one call at a time has the pacing of  *)
(* the account.                                                             *)
THEOREM DeleteInductive == Spec => []IInv
BY InitInv, NextInv, PTL DEF Spec

(* The requests of a channel are serialized, though the map of locks is     *)
(* pruned while calls wait for the locks in it.                             *)
THEOREM OneCallPerChannel == Spec => []ChannelSerialized
<1>1. IInv => ChannelSerialized
  <2> SUFFICES ASSUME IInv, NEW c \in Call, NEW d \in Call, c # d, Critical(c), Critical(d),
                      ChannelFor(c) = ChannelFor(d)
               PROVE  FALSE
    BY DEF ChannelSerialized
  <2>1. call[c].pc \in Inside /\ call[d].pc \in Inside
    BY DEF Critical, Inside
  <2>2. call[c].lock = call[d].lock
    BY <2>1 DEF IInv, HandleInMap
  <2> QED BY <2>2 DEF IInv, LockExclusive
<1> QED BY <1>1, DeleteInductive, PTL

(* What is reported as deleted is absent, whatever was lost before it.      *)
THEOREM ConfirmedAbsent == Spec => []ConfirmedIsAbsent
<1>1. IInv => ConfirmedIsAbsent
  BY DEF IInv
<1> QED BY <1>1, DeleteInductive, PTL

(* No attempt that began on an edited message sends its deletion.           *)
THEOREM EditsSurvive == Spec => []EditedSurvives
<1>1. IInv => EditedSurvives
  BY DEF IInv, KnownEdited, EditedSurvives, At
<1> QED BY <1>1, DeleteInductive, PTL

-----------------------------------------------------------------------------
(* The reader of an archive: lists of anything, which its tasks are.        *)
IsList(s) == \E S : s \in Seq(S)

LEMMA ListFacts ==
  ASSUME NEW s, IsList(s)
  PROVE  Len(s) \in Nat /\ DOMAIN s = 1..Len(s)
BY DEF IsList

LEMMA EmptyList == IsList(<<>>) /\ Len(<<>>) = 0 /\ DOMAIN <<>> = {}
<1>1. <<>> \in Seq({})
  OBVIOUS
<1> QED BY <1>1 DEF IsList

LEMMA NoneInList ==
  ASSUME NEW s, IsList(s), Len(s) = 0
  PROVE  s = <<>>
BY DEF IsList

LEMMA ListAppended ==
  ASSUME NEW s, IsList(s), NEW x
  PROVE  /\ IsList(Append(s, x)) /\ Len(Append(s, x)) = Len(s) + 1
         /\ DOMAIN Append(s, x) = 1..(Len(s) + 1)
         /\ Append(s, x)[Len(s) + 1] = x /\ \A i \in 1..Len(s) : Append(s, x)[i] = s[i]
<1>1. PICK S : s \in Seq(S)
  BY DEF IsList
<1>2. s \in Seq(S \cup {x}) /\ x \in S \cup {x}
  <2>1. \A i \in 1..Len(s) : s[i] \in S \cup {x}
    BY <1>1
  <2>2. s = [i \in 1..Len(s) |-> s[i]] /\ Len(s) \in Nat
    BY <1>1
  <2> QED BY <2>1, <2>2
<1> DEFINE T == S \cup {x}
<1>3. s \in Seq(T) /\ x \in T
  BY <1>2
<1> HIDE DEF T
<1>4. Append(s, x) \in Seq(T) /\ Len(Append(s, x)) = Len(s) + 1
  BY <1>3
<1> QED BY <1>3, <1>4 DEF IsList

LEMMA ListTail ==
  ASSUME NEW s, IsList(s), s # <<>>
  PROVE  /\ IsList(Tail(s)) /\ Len(Tail(s)) = Len(s) - 1 /\ Len(s) >= 1
         /\ DOMAIN Tail(s) = 1..(Len(s) - 1) /\ Head(s) = s[1]
         /\ \A i \in 1..(Len(s) - 1) : Tail(s)[i] = s[i + 1]
<1>1. PICK S : s \in Seq(S)
  BY DEF IsList
<1>2. Tail(s) \in Seq(S) /\ Len(Tail(s)) = Len(s) - 1 /\ Len(s) >= 1
  BY <1>1
<1> QED BY <1>1, <1>2 DEF IsList

LEMMA ListOf ==
  ASSUME NEW n \in Nat, NEW f, DOMAIN f = 1..n, f = [i \in DOMAIN f |-> f[i]]
  PROVE  IsList(f) /\ Len(f) = n
<1> DEFINE S == {f[i] : i \in 1..n}
<1>1. f \in [1..n -> S]
  OBVIOUS
<1>2. f \in Seq(S) /\ Len(f) = n
  <2> HIDE DEF S
  <2> QED BY <1>1
<1> QED BY <1>2 DEF IsList

LEMMA ListJoined ==
  ASSUME NEW s, NEW t, IsList(s), IsList(t)
  PROVE  /\ IsList(s \o t) /\ Len(s \o t) = Len(s) + Len(t)
         /\ DOMAIN (s \o t) = 1..(Len(s) + Len(t))
         /\ \A i \in 1..Len(s) : (s \o t)[i] = s[i]
         /\ \A i \in 1..Len(t) : (s \o t)[Len(s) + i] = t[i]
<1>1. PICK S, T : s \in Seq(S) /\ t \in Seq(T)
  BY DEF IsList
<1> DEFINE U == S \cup T
<1>2. s \in Seq(U) /\ t \in Seq(U)
  <2>1. s \in [1..Len(s) -> U] /\ t \in [1..Len(t) -> U] /\ Len(s) \in Nat /\ Len(t) \in Nat
    BY <1>1
  <2> HIDE DEF U
  <2> QED BY <2>1
<1> HIDE DEF U
<1>3. s \o t \in Seq(U) /\ Len(s \o t) = Len(s) + Len(t)
  BY <1>2
<1>4. \A i \in 1..(Len(s) + Len(t)) : (s \o t)[i] = IF i <= Len(s) THEN s[i] ELSE t[i - Len(s)]
  BY <1>2
<1>5. Len(s) \in Nat /\ Len(t) \in Nat
  BY <1>2
<1>6. ASSUME NEW i \in 1..Len(t) PROVE (s \o t)[Len(s) + i] = t[i]
  <2>1. Len(s) + i \in 1..(Len(s) + Len(t)) /\ ~(Len(s) + i <= Len(s)) /\ Len(s) + i - Len(s) = i
    BY <1>5
  <2> QED BY <1>4, <2>1
<1> QED BY <1>3, <1>4, <1>5, <1>6 DEF IsList

LEMMA ListCut ==
  ASSUME NEW s, IsList(s), NEW a \in 1..(Len(s) + 1), NEW b \in 0..Len(s), a <= b + 1
  PROVE  /\ IsList(SubSeq(s, a, b)) /\ Len(SubSeq(s, a, b)) = b - a + 1
         /\ \A i \in 1..(b - a + 1) : SubSeq(s, a, b)[i] = s[a + i - 1]
<1>1. PICK S : s \in Seq(S)
  BY DEF IsList
<1>2. SubSeq(s, a, b) = [i \in 1..(b - a + 1) |-> s[i + a - 1]]
  BY <1>1
<1>3. b - a + 1 \in Nat /\ \A i \in 1..(b - a + 1) : a + i - 1 = i + a - 1
  BY <1>1
<1> DEFINE f == SubSeq(s, a, b)
<1>4. DOMAIN f = 1..(b - a + 1) /\ f = [i \in DOMAIN f |-> f[i]]
  BY <1>2
<1>5. \A i \in 1..(b - a + 1) : f[i] = s[a + i - 1]
  BY <1>2, <1>3
<1> HIDE DEF f
<1>6. IsList(f) /\ Len(f) = b - a + 1
  BY <1>3, <1>4, ListOf
<1> QED BY <1>5, <1>6 DEF f

LEMMA ListPair ==
  ASSUME NEW x, NEW y
  PROVE  IsList(<<x, y>>) /\ Len(<<x, y>>) = 2 /\ <<x, y>>[1] = x /\ <<x, y>>[2] = y
<1>1. <<x, y>> \in Seq({x, y})
  OBVIOUS
<1> QED BY <1>1 DEF IsList

LEMMA ListOne ==
  ASSUME NEW x
  PROVE  IsList(<<x>>) /\ Len(<<x>>) = 1 /\ <<x>>[1] = x
<1>1. <<x>> \in Seq({x})
  OBVIOUS
<1> QED BY <1>1 DEF IsList

(* Two lists in turn.                                                       *)
LEMMA InTurnIs ==
  ASSUME NEW s, NEW t, NEW n \in Nat, Len(s) = n
  PROVE  /\ IsList(InTurn(s, t)) /\ Len(InTurn(s, t)) = 2 * n
         /\ \A k \in 1..n : InTurn(s, t)[2 * k - 1] = s[k] /\ InTurn(s, t)[2 * k] = t[k]
<1> DEFINE f == InTurn(s, t)
<1>1. DOMAIN f = 1..(2 * n) /\ f = [i \in DOMAIN f |-> f[i]] /\ 2 * n \in Nat
  BY DEF InTurn
<1>2. ASSUME NEW k \in 1..n PROVE f[2 * k - 1] = s[k] /\ f[2 * k] = t[k]
  <2>1. /\ 2 * k - 1 \in 1..(2 * n) /\ 2 * k \in 1..(2 * n) /\ (2 * k - 1) % 2 = 1 /\ (2 * k) % 2 = 0
        /\ (2 * k - 1 + 1) \div 2 = k /\ (2 * k) \div 2 = k
    OBVIOUS
  <2> QED BY <2>1 DEF InTurn
<1> HIDE DEF f
<1>3. IsList(f) /\ Len(f) = 2 * n
  BY <1>1, ListOf
<1> QED BY <1>2, <1>3 DEF f

-----------------------------------------------------------------------------
(* The reader of an export.                                                 *)

Starting == {"inspect", "locals", "inspected"}
Running == {"detecting", "opening", "visiting"}
Opened == {"opened", "visiting", "visited"}

(* The directory is that of a file, and was accepted; past its              *)
(* classification there are an account and an index.                        *)
DirectoryOk ==
  /\ held \in Files
  /\ stage \notin {"inspect", "refused"} => listed \in Files /\ Listable(listed)
  /\ stage \notin Starting \cup {"refused"} => Classified
  /\ stage \in Opened => NothingLeftOut

(* The contexts of a profile: entries of the directory, a folder once.      *)
ContextsOk(contexts) ==
  /\ IsList(contexts)
  /\ \A k \in DOMAIN contexts :
       /\ contexts[k] = [entry |-> contexts[k].entry, header |-> contexts[k].header,
                         messages |-> contexts[k].messages]
       /\ contexts[k].entry \in Selectable /\ contexts[k].messages \in Selectable
  /\ \A k, l \in DOMAIN contexts : contexts[k].header.id = contexts[l].header.id => k = l
ProfileOk ==
  /\ profile = [account |-> profile.account, contexts |-> profile.contexts]
  /\ ContextsOk(profile.contexts)

(* A call that has not come to a context has not done it, and comes to it   *)
(* once.                                                                    *)
OnceEach == \A m, n \in DOMAIN tasks : tasks[m].do = "context" /\ tasks[n].do = "context"
                                       /\ tasks[m].folder = tasks[n].folder => m = n
DetectingOk ==
  stage = "detecting" =>
    /\ OnceEach
    /\ \A n \in DOMAIN tasks :
         /\ tasks[n].do # "stream"
         /\ tasks[n].do = "context" =>
              /\ tasks[n].entry \in Selectable /\ Half(tasks[n].folder, "messages.json") # {}
              /\ \A k \in DOMAIN profile.contexts : profile.contexts[k].header.id # tasks[n].folder
OpeningOk ==
  stage = "opening" =>
    /\ Consistent(profile) /\ OnceEach
    /\ \A n \in DOMAIN tasks :
         /\ tasks[n].do # "stream"
         /\ tasks[n].do = "context" =>
              /\ \E k \in DOMAIN profile.contexts :
                    tasks[n].folder = profile.contexts[k].header.id
                    /\ tasks[n].entry = profile.contexts[k].entry
              /\ \A k \in DOMAIN selection : selection[k].folder # tasks[n].folder

(* What has been selected is an entry and the transcript of its channel.    *)
SelectionOk ==
  /\ IsList(selection)
  /\ \A k \in DOMAIN selection :
       /\ selection[k].entry \in Selectable /\ selection[k].messages \in Selectable
       /\ IsHalf(selection[k].entry, selection[k].folder, "channel.json")
       /\ IsHalf(selection[k].messages, selection[k].folder, "messages.json")
       /\ listed[selection[k].entry].crc.id = selection[k].folder
  /\ \A k, l \in DOMAIN selection : selection[k].folder = selection[l].folder => k = l

(* What the sink was given are the channels of the selection in its order,  *)
(* and all but the last are complete.                                       *)
SinkOk ==
  /\ IsList(sink) /\ Len(sink) <= Len(selection)
  /\ \A k \in DOMAIN sink :
       /\ sink[k] = [folder |-> sink[k].folder, header |-> sink[k].header,
                     messages |-> sink[k].messages, ended |-> sink[k].ended]
       /\ sink[k].folder = selection[k].folder
       /\ sink[k].header = listed[selection[k].entry].crc
       /\ sink[k].ended \in BOOLEAN
       /\ sink[k].ended => sink[k].messages = listed[selection[k].messages].crc.records
       /\ k < Len(sink) => sink[k].ended

(* Where a pass stands in its work is what the sink has been given.         *)
AllEnded == \A k \in DOMAIN sink : sink[k].ended
PassAt(m) == IF m = 0 THEN sink = <<>>
         ELSE IF AllEnded THEN m = 2 * Len(sink) + 1 ELSE m = 2 * Len(sink)
VisitingOk ==
  stage = "visiting" =>
    \E m \in 0..Len(VisitTasks) :
      /\ Len(tasks) = Len(VisitTasks) - m /\ PassAt(m)
      /\ \A i \in 1..Len(tasks) : tasks[i] = VisitTasks[m + i]

StagesOk ==
  /\ IsList(tasks) /\ (stage \notin Running => tasks = <<>>)
  /\ stage \in Starting => profile.contexts = <<>>
  /\ stage \in Starting \cup {"detecting", "detected"} => selection = <<>>
  /\ stage \in Starting \cup {"detecting", "detected", "opening"} => sink = <<>> /\ ~attempted
  /\ stage \in {"visiting", "visited"} => attempted
  /\ ~attempted => sink = <<>>
  /\ stage = "visited" => Len(sink) = Len(selection) /\ AllEnded

ArchiveInv ==
  /\ DirectoryOk /\ ProfileOk /\ DetectingOk /\ OpeningOk /\ SelectionOk /\ SinkOk
  /\ VisitingOk /\ StagesOk

-----------------------------------------------------------------------------
(* What the steps that leave it alone keep.                                 *)
LEMMA SameEntries ==
  ASSUME UNCHANGED listed
  PROVE  /\ Selectable' = Selectable
         /\ \A i, f, h : IsHalf(i, f, h)' <=> IsHalf(i, f, h)
         /\ \A f, h : Half(f, h)' = Half(f, h)
         /\ TheAccount' = TheAccount /\ TheIndex' = TheIndex
         /\ (Classified' <=> Classified)
<1>1. Selectable' = Selectable
  BY DEF Selectable
<1>2. ASSUME NEW i PROVE Words(i)' = Words(i) /\ (Spelt(i)' <=> Spelt(i))
  BY DEF Words, Spelt
<1>3. \A i, f, h : IsHalf(i, f, h)' <=> IsHalf(i, f, h)
  BY <1>2 DEF IsHalf
<1>4. \A f, h : Half(f, h)' = Half(f, h)
  BY <1>1, <1>3 DEF Half
<1>5. \A i : (IsAccount(i)' <=> IsAccount(i)) /\ (IsIndex(i)' <=> IsIndex(i)) /\ (Reserved(i)' <=> Reserved(i))
  BY <1>2 DEF IsAccount, IsIndex, Reserved
<1>6. TheAccount' = TheAccount /\ TheIndex' = TheIndex
  BY <1>1, <1>5 DEF TheAccount, TheIndex
<1>7. Paired' = Paired
  <2>1. Halves' = Halves
    BY <1>4 DEF Halves
  <2> QED BY <2>1 DEF Paired
<1>8. Classified' <=> Classified
  BY <1>1, <1>3, <1>4, <1>5, <1>7 DEF Classified
<1> QED BY <1>1, <1>3, <1>4, <1>6, <1>8

LEMMA KeepProfile ==
  ASSUME ProfileOk, UNCHANGED <<listed, profile>>
  PROVE  ProfileOk'
BY SameEntries DEF ProfileOk, ContextsOk

LEMMA KeepSelection ==
  ASSUME SelectionOk, UNCHANGED <<listed, selection>>
  PROVE  SelectionOk'
BY SameEntries DEF SelectionOk

LEMMA KeepSink ==
  ASSUME SinkOk, UNCHANGED <<listed, selection, sink>>
  PROVE  SinkOk'
BY DEF SinkOk

LEMMA KeepDirectory ==
  ASSUME DirectoryOk, UNCHANGED <<listed, selection>>, held' \in Files,
         stage' = "refused" \/ stage' = stage \/ (stage = "detecting" /\ stage' = "detected")
         \/ (stage = "visiting" /\ stage' \in {"opened", "visited"}) \/ (stage \in Opened /\ stage' = "visiting")
  PROVE  DirectoryOk'
<1>1. Classified' <=> Classified
  BY SameEntries
<1>2. NothingLeftOut' <=> NothingLeftOut
  BY DEF NothingLeftOut, Chosen, Selectable, TheAccount, TheIndex, IsAccount, IsIndex, Words, Spelt, Reserved
<1> QED BY <1>1, <1>2 DEF DirectoryOk, Starting, Running, Opened, Listable

LEMMA InspectDirectoryKeeps ==
  ASSUME ArchiveInv, InspectDirectory
  PROVE  ArchiveInv'
<1>1. profile.contexts = <<>> /\ selection = <<>> /\ sink = <<>> /\ ~attempted /\ tasks = <<>>
  BY DEF ArchiveInv, StagesOk, InspectDirectory, Starting, Running
<1>2. /\ stage' \in {"locals", "refused"} /\ (stage' = "locals" => Listable(listed'))
      /\ listed' = held /\ UNCHANGED <<held, tasks, profile, selection, attempted, sink>>
  BY DEF InspectDirectory
<1>3. DirectoryOk'
  BY <1>2 DEF ArchiveInv, DirectoryOk, Starting, Opened
<1>4. ProfileOk' /\ SelectionOk' /\ SinkOk'
  <2>1. DOMAIN <<>> = {} /\ IsList(<<>>) /\ Len(<<>>) = 0
    BY EmptyList
  <2> QED BY <1>1, <1>2, <2>1 DEF ArchiveInv, ProfileOk, ContextsOk, SelectionOk, SinkOk
<1>5. DetectingOk' /\ OpeningOk' /\ VisitingOk'
  BY <1>2 DEF DetectingOk, OpeningOk, VisitingOk
<1>6. StagesOk'
  BY <1>1, <1>2 DEF ArchiveInv, StagesOk, Starting, Running
<1> QED BY <1>3, <1>4, <1>5, <1>6 DEF ArchiveInv

(* A step that ends a call, or none is under way.                           *)
LEMMA RestKeeps ==
  ASSUME ArchiveInv, UNCHANGED <<listed, profile, selection, sink, attempted>>, held' \in Files,
         tasks' = <<>>,
         \/ stage' = "refused"
         \/ stage = "visiting" /\ stage' = "opened"
         \/ stage' = stage /\ stage \notin Running
  PROVE  ArchiveInv'
<1>1. ProfileOk' /\ SelectionOk' /\ SinkOk'
  BY KeepProfile, KeepSelection, KeepSink DEF ArchiveInv
<1>2. DirectoryOk'
  BY KeepDirectory DEF ArchiveInv
<1>3. DetectingOk' /\ OpeningOk' /\ VisitingOk'
  BY DEF DetectingOk, OpeningOk, VisitingOk, Running
<1>4. AllEnded' <=> AllEnded
  BY DEF AllEnded
<1>5. StagesOk'
  BY <1>4, EmptyList DEF ArchiveInv, StagesOk, Starting, Running
<1> QED BY <1>1, <1>2, <1>3, <1>5 DEF ArchiveInv

LEMMA InspectLocalsKeeps ==
  ASSUME ArchiveInv, InspectLocals
  PROVE  ArchiveInv'
<1>1. /\ UNCHANGED <<held, listed, tasks, profile, selection, attempted, sink>>
      /\ stage = "locals" /\ stage' \in {"inspected", "refused"}
  BY DEF InspectLocals
<1>2. ProfileOk' /\ SelectionOk' /\ SinkOk'
  BY <1>1, KeepProfile, KeepSelection, KeepSink DEF ArchiveInv
<1>3. DirectoryOk'
  BY <1>1 DEF ArchiveInv, DirectoryOk, Starting, Opened
<1>4. DetectingOk' /\ OpeningOk' /\ VisitingOk'
  BY <1>1 DEF DetectingOk, OpeningOk, VisitingOk
<1>5. StagesOk'
  BY <1>1 DEF ArchiveInv, StagesOk, Starting, Running
<1> QED BY <1>2, <1>3, <1>4, <1>5 DEF ArchiveInv

LEMMA OverwriteKeeps ==
  ASSUME ArchiveInv, Overwrite
  PROVE  ArchiveInv'
<1>1. /\ UNCHANGED <<listed, stage, tasks, profile, selection, attempted, sink>> /\ held' \in Files
  BY DEF Overwrite
<1>2. ProfileOk' /\ SelectionOk' /\ SinkOk' /\ DirectoryOk'
  BY <1>1, KeepProfile, KeepSelection, KeepSink, KeepDirectory DEF ArchiveInv
<1>3. OnceEach' <=> OnceEach
  BY <1>1 DEF OnceEach
<1>4. DetectingOk' /\ OpeningOk'
  <2>1. Consistent(profile)' <=> Consistent(profile)
    BY <1>1, SameEntries DEF Consistent
  <2> QED BY <1>1, <1>3, <2>1, SameEntries DEF ArchiveInv, DetectingOk, OpeningOk
<1>5. VisitingOk'
  <2>1. VisitTasks' = VisitTasks
    BY <1>1, SameEntries DEF VisitTasks
  <2>2. \A m : PassAt(m)' <=> PassAt(m)
    BY <1>1 DEF PassAt, AllEnded
  <2> QED BY <1>1, <2>1, <2>2 DEF ArchiveInv, VisitingOk
<1>6. StagesOk'
  BY <1>1 DEF ArchiveInv, StagesOk, AllEnded
<1> QED BY <1>2, <1>4, <1>5, <1>6 DEF ArchiveInv

LEMMA FailKeeps ==
  ASSUME ArchiveInv, stage \in Running, Fail
  PROVE  ArchiveInv'
<1>1. /\ UNCHANGED <<held, listed, profile, selection, attempted, sink>> /\ tasks' = <<>>
      /\ stage' = IF stage = "visiting" THEN "opened" ELSE "refused"
  BY DEF Fail
<1>2. held' \in Files
  BY <1>1 DEF ArchiveInv, DirectoryOk
<1> QED BY <1>1, <1>2, RestKeeps

(* The folders that have a half are listed once each.                       *)
LEMMA PairedIs ==
  /\ IsList(Paired)
  /\ \A k \in DOMAIN Paired : Paired[k] \in ToSet(Folders)
  /\ \A k, l \in DOMAIN Paired : Paired[k] = Paired[l] => k = l
<1> DEFINE N == Cardinality(Halves)
<1>1. IsFiniteSet(Halves) /\ Halves \in SUBSET Int /\ N \in Nat
  <2>1. Halves \in SUBSET (1..Len(Folders)) /\ Len(Folders) \in Nat
    BY DiscordArchiveAssumption DEF Halves
  <2>2. IsFiniteSet(1..Len(Folders))
    BY <2>1, FS_Interval
  <2>3. IsFiniteSet(Halves)
    BY <2>1, <2>2, FS_Subset
  <2> QED BY <2>1, <2>3, FS_CardinalityType
<1>2. \E s \in [1..N -> Halves] : Rising(s)
  BY <1>1, Ordered DEF Ascending, Rising
<1> DEFINE places == CHOOSE s \in [1..N -> Halves] : Rising(s)
<1>3. places \in [1..N -> Halves] /\ Rising(places)
  BY <1>2
<1>4. Paired = [k \in 1..N |-> Folders[places[k]]]
  BY DEF Paired
<1> HIDE DEF N, places
<1>5. IsList(Paired) /\ DOMAIN Paired = 1..N
  BY <1>1, <1>4, ListOf
<1>6. \A k \in 1..N : places[k] \in DOMAIN Folders
  BY <1>3 DEF Halves
<1>7. \A k \in DOMAIN Paired : Paired[k] \in ToSet(Folders)
  BY <1>4, <1>5, <1>6 DEF ToSet
<1>8. ASSUME NEW k \in DOMAIN Paired, NEW l \in DOMAIN Paired, Paired[k] = Paired[l] PROVE k = l
  <2>1. places[k] = places[l]
    BY <1>4, <1>5, <1>6, <1>8, DiscordArchiveAssumption
  <2>2. /\ places[k] \in Int /\ places[l] \in Int /\ k \in Nat /\ l \in Nat
        /\ k \in DOMAIN places /\ l \in DOMAIN places
    <3>1. k \in 1..N /\ l \in 1..N
      BY <1>5
    <3>2. places[k] \in Halves /\ places[l] \in Halves /\ DOMAIN places = 1..N
      BY <1>3, <3>1
    <3>3. places[k] \in Int /\ places[l] \in Int
      BY <1>1, <3>2
    <3>4. k \in Nat /\ l \in Nat
      BY <1>1, <3>1
    <3> QED BY <3>1, <3>2, <3>3, <3>4
  <2>3. k < l => places[k] < places[l]
    BY <1>3, <2>2 DEF Rising
  <2>4. l < k => places[l] < places[k]
    BY <1>3, <2>2 DEF Rising
  <2> QED BY <2>1, <2>2, <2>3, <2>4
<1> QED BY <1>5, <1>7, <1>8

(* What was classified has an account and both halves of every folder.      *)
LEMMA ClassifiedIs ==
  ASSUME Classified
  PROVE  /\ TheAccount \in Selectable /\ IsAccount(TheAccount)
         /\ TheIndex \in Selectable /\ IsIndex(TheIndex)
         /\ \A k \in DOMAIN Paired : /\ Half(Paired[k], "channel.json") # {}
                                     /\ Half(Paired[k], "messages.json") # {}
<1>1. {i \in Selectable : IsAccount(i)} # {} /\ {i \in Selectable : IsIndex(i)} # {}
  BY DEF Classified
<1>2. TheAccount \in {i \in Selectable : IsAccount(i)} /\ TheIndex \in {i \in Selectable : IsIndex(i)}
  BY <1>1 DEF TheAccount, TheIndex, Only
<1>3. \A k \in DOMAIN Paired : Paired[k] \in ToSet(Paired)
  BY DEF ToSet
<1> QED BY <1>2, <1>3 DEF Classified

LEMMA HalfIs ==
  ASSUME NEW f, NEW h, Half(f, h) # {}
  PROVE  Only(Half(f, h)) \in Selectable /\ IsHalf(Only(Half(f, h)), f, h)
<1>1. Only(Half(f, h)) \in Half(f, h)
  BY DEF Only
<1> QED BY <1>1 DEF Half

(* The tasks of detect: at its end the headers, each folder once.           *)
LEMMA DetectTasksAre ==
  ASSUME Classified
  PROVE  /\ IsList(DetectTasks)
         /\ \A n \in DOMAIN DetectTasks : DetectTasks[n].do # "stream"
         /\ \A n \in DOMAIN DetectTasks : DetectTasks[n].do = "context" =>
              /\ DetectTasks[n].entry \in Selectable /\ Half(DetectTasks[n].folder, "messages.json") # {}
         /\ \A m, n \in DOMAIN DetectTasks :
              DetectTasks[m].do = "context" /\ DetectTasks[n].do = "context"
              /\ DetectTasks[m].folder = DetectTasks[n].folder => m = n
<1> DEFINE L == Len(Paired)
           probe(do, file) == [n \in DOMAIN Paired |-> Task(do, Only(Half(Paired[n], file)), "none")]
           a == <<Task("object", TheAccount, "none"), Task("object", TheIndex, "none")>>
           b == InTurn(probe("object", "channel.json"), probe("transcript", "messages.json"))
           c == <<Task("account", TheAccount, "none")>>
           d == [n \in DOMAIN Paired |-> HeaderTask(Paired[n])]
<1>1. L \in Nat /\ DOMAIN Paired = 1..L
  BY PairedIs, ListFacts
<1>2. DetectTasks = ((a \o b) \o c) \o d
  BY DEF DetectTasks
<1>3. IsList(a) /\ Len(a) = 2 /\ a[1].do = "object" /\ a[2].do = "object"
  BY ListPair DEF Task
<1>4. IsList(b) /\ Len(b) = 2 * L /\ \A n \in 1..(2 * L) : b[n].do \in {"object", "transcript"}
  <2> DEFINE s == probe("object", "channel.json")
             t == probe("transcript", "messages.json")
  <2>1. Len(s) = L /\ \A k \in 1..L : s[k].do = "object" /\ t[k].do = "transcript"
    <3>1. DOMAIN s = 1..L /\ s = [i \in DOMAIN s |-> s[i]]
      BY <1>1
    <3>2. \A k \in 1..L : s[k].do = "object" /\ t[k].do = "transcript"
      BY <1>1 DEF Task
    <3> HIDE DEF s, t
    <3> QED BY <1>1, <3>1, <3>2, ListOf
  <2> HIDE DEF s, t
  <2>2. /\ IsList(InTurn(s, t)) /\ Len(InTurn(s, t)) = 2 * L
        /\ \A k \in 1..L : InTurn(s, t)[2 * k - 1] = s[k] /\ InTurn(s, t)[2 * k] = t[k]
    BY <1>1, <2>1, InTurnIs
  <2>3. ASSUME NEW n \in 1..(2 * L) PROVE \E k \in 1..L : n = 2 * k - 1 \/ n = 2 * k
    <3>1. CASE n % 2 = 1
      <4>1. (n + 1) \div 2 \in 1..L /\ n = 2 * ((n + 1) \div 2) - 1
        BY <1>1, <3>1
      <4> QED BY <4>1
    <3>2. CASE n % 2 = 0
      <4>1. n \div 2 \in 1..L /\ n = 2 * (n \div 2)
        BY <1>1, <3>2
      <4> QED BY <4>1
    <3> QED BY <1>1, <3>1, <3>2
  <2>4. ASSUME NEW n \in 1..(2 * L) PROVE InTurn(s, t)[n].do \in {"object", "transcript"}
    <3>1. PICK k \in 1..L : n = 2 * k - 1 \/ n = 2 * k
      BY <2>3
    <3> QED BY <2>1, <2>2, <3>1
  <2> QED BY <2>2, <2>4 DEF s, t
<1>5. IsList(c) /\ Len(c) = 1 /\ c[1].do = "account"
  BY ListOne DEF Task
<1>6. /\ IsList(d) /\ Len(d) = L
      /\ \A n \in 1..L : /\ d[n].do = "context" /\ d[n].folder = Paired[n]
                         /\ d[n].entry = Only(Half(Paired[n], "channel.json"))
  <2>1. DOMAIN d = 1..L /\ d = [i \in DOMAIN d |-> d[i]]
    BY <1>1
  <2>2. \A n \in 1..L : /\ d[n].do = "context" /\ d[n].folder = Paired[n]
                        /\ d[n].entry = Only(Half(Paired[n], "channel.json"))
    BY <1>1 DEF HeaderTask, Task
  <2> HIDE DEF d
  <2> QED BY <1>1, <2>1, <2>2, ListOf
<1> HIDE DEF a, b, c, d, L
<1> DEFINE ab == a \o b
           abc == ab \o c
           all == abc \o d
<1>7. IsList(ab) /\ Len(ab) = 2 + 2 * L /\ \A n \in 1..Len(ab) : ab[n].do \in {"object", "transcript"}
  <2>1. /\ IsList(ab) /\ Len(ab) = 2 + 2 * L
        /\ \A i \in 1..2 : ab[i] = a[i]
        /\ \A i \in 1..(2 * L) : ab[2 + i] = b[i]
    <3>1. IsList(a) /\ IsList(b)
      BY <1>3, <1>4
    <3>2. /\ IsList(ab) /\ Len(ab) = Len(a) + Len(b)
          /\ \A i \in 1..Len(a) : ab[i] = a[i]
          /\ \A i \in 1..Len(b) : ab[Len(a) + i] = b[i]
      BY <3>1, ListJoined
    <3> QED BY <1>3, <1>4, <3>2
  <2>2. ASSUME NEW n \in 1..Len(ab) PROVE ab[n].do \in {"object", "transcript"}
    <3>1. CASE n \in 1..2
      BY <1>3, <2>1, <3>1
    <3>2. CASE n \notin 1..2
      <4>1. n - 2 \in 1..(2 * L) /\ 2 + (n - 2) = n
        BY <1>1, <2>1, <3>2
      <4> QED BY <1>4, <2>1, <4>1
    <3> QED BY <3>1, <3>2
  <2> QED BY <2>1, <2>2
<1> HIDE DEF ab
<1>8. IsList(abc) /\ Len(abc) = 3 + 2 * L
      /\ \A n \in 1..Len(abc) : abc[n].do \in {"object", "transcript", "account"}
  <2>1. /\ IsList(abc) /\ Len(abc) = Len(ab) + 1
        /\ \A i \in 1..Len(ab) : abc[i] = ab[i]
        /\ \A i \in 1..1 : abc[Len(ab) + i] = c[i]
    <3>1. IsList(ab) /\ IsList(c)
      BY <1>5, <1>7
    <3>2. /\ IsList(abc) /\ Len(abc) = Len(ab) + Len(c)
          /\ \A i \in 1..Len(ab) : abc[i] = ab[i]
          /\ \A i \in 1..Len(c) : abc[Len(ab) + i] = c[i]
      BY <3>1, ListJoined
    <3> QED BY <1>5, <3>2
  <2>2. ASSUME NEW n \in 1..Len(abc) PROVE abc[n].do \in {"object", "transcript", "account"}
    <3>1. CASE n \in 1..Len(ab)
      BY <1>7, <2>1, <3>1
    <3>2. CASE n \notin 1..Len(ab)
      <4>1. n = Len(ab) + 1 /\ 1 \in 1..1
        BY <1>1, <1>7, <2>1, <3>2
      <4> QED BY <1>5, <2>1, <4>1
    <3> QED BY <3>1, <3>2
  <2> QED BY <1>1, <1>7, <2>1, <2>2
<1> HIDE DEF abc
<1>9. /\ IsList(all) /\ DOMAIN all = 1..(Len(abc) + L)
      /\ \A i \in 1..Len(abc) : all[i] = abc[i]
      /\ \A i \in 1..L : all[Len(abc) + i] = d[i]
  <2>1. IsList(abc) /\ IsList(d)
    BY <1>6, <1>8
  <2>2. /\ IsList(all) /\ DOMAIN all = 1..(Len(abc) + Len(d))
        /\ \A i \in 1..Len(abc) : all[i] = abc[i]
        /\ \A i \in 1..Len(d) : all[Len(abc) + i] = d[i]
    BY <2>1, ListJoined
  <2> QED BY <1>6, <2>2
<1>10. DetectTasks = all
  BY <1>2 DEF ab, abc
<1> HIDE DEF all
<1>11. ASSUME NEW n \in DOMAIN all, all[n].do = "context"
       PROVE  n - Len(abc) \in 1..L /\ all[n] = d[n - Len(abc)]
  <2>1. n \notin 1..Len(abc)
    BY <1>8, <1>9, <1>11
  <2>0. Len(abc) \in Nat /\ n \in 1..(Len(abc) + L)
    BY <1>1, <1>8, <1>9
  <2>2. n - Len(abc) \in 1..L /\ Len(abc) + (n - Len(abc)) = n
    BY <1>1, <2>0, <2>1
  <2> QED BY <1>9, <2>2
<1>12. ASSUME NEW n \in DOMAIN all PROVE all[n].do # "stream"
  <2>1. CASE n \in 1..Len(abc)
    BY <1>8, <1>9, <2>1
  <2>2. CASE n \notin 1..Len(abc)
    <3>0. Len(abc) \in Nat /\ n \in 1..(Len(abc) + L)
      BY <1>1, <1>8, <1>9
    <3>1. n - Len(abc) \in 1..L /\ Len(abc) + (n - Len(abc)) = n
      BY <1>1, <2>2, <3>0
    <3> QED BY <1>6, <1>9, <3>1
  <2> QED BY <2>1, <2>2
<1>13. ASSUME NEW n \in DOMAIN all, all[n].do = "context"
       PROVE  all[n].entry \in Selectable /\ Half(all[n].folder, "messages.json") # {}
  <2>1. n - Len(abc) \in DOMAIN Paired
    BY <1>1, <1>11, <1>13
  <2> QED BY <1>1, <1>6, <1>11, <1>13, <2>1, ClassifiedIs, HalfIs
<1>14. ASSUME NEW m \in DOMAIN all, NEW n \in DOMAIN all, all[m].do = "context", all[n].do = "context",
              all[m].folder = all[n].folder
       PROVE  m = n
  <2>1. m - Len(abc) = n - Len(abc)
    BY <1>1, <1>6, <1>11, <1>14, PairedIs
  <2> QED BY <1>8, <1>9, <2>1, <1>1
<1> QED BY <1>9, <1>10, <1>12, <1>13, <1>14

LEMMA DetectKeeps ==
  ASSUME ArchiveInv, Detect
  PROVE  ArchiveInv'
<1>1. /\ stage = "inspected" /\ stage' = IF Classified THEN "detecting" ELSE "refused"
      /\ tasks' = IF Classified THEN DetectTasks ELSE <<>>
      /\ UNCHANGED <<held, listed, profile, selection, attempted, sink>>
  BY DEF Detect
<1>2. CASE ~Classified
  <2>1. held' \in Files
    BY <1>1 DEF ArchiveInv, DirectoryOk
  <2> QED BY <1>1, <1>2, <2>1, RestKeeps
<1>3. CASE Classified
  <2>1. ProfileOk' /\ SelectionOk' /\ SinkOk'
    BY <1>1, KeepProfile, KeepSelection, KeepSink DEF ArchiveInv
  <2>2. DirectoryOk'
    BY <1>1, <1>3, SameEntries DEF ArchiveInv, DirectoryOk, Starting, Opened
  <2>3. DetectingOk'
    <3>1. profile'.contexts = <<>> /\ DOMAIN <<>> = {}
      BY <1>1, EmptyList DEF ArchiveInv, StagesOk, Starting
    <3>2. tasks' = DetectTasks
      BY <1>1, <1>3
    <3>3. \A f, h : Half(f, h)' = Half(f, h)
      BY <1>1, SameEntries
    <3>4. Selectable' = Selectable
      BY <1>1, SameEntries
    <3> QED BY <1>3, <3>1, <3>2, <3>3, <3>4, DetectTasksAre DEF DetectingOk, OnceEach
  <2>4. OpeningOk' /\ VisitingOk'
    BY <1>1, <1>3 DEF OpeningOk, VisitingOk
  <2>5. StagesOk'
    BY <1>1, <1>3, DetectTasksAre DEF ArchiveInv, StagesOk, Starting, Running
  <2> QED BY <2>1, <2>2, <2>3, <2>4, <2>5 DEF ArchiveInv
<1> QED BY <1>2, <1>3

LEMMA RemovedIs ==
  ASSUME NEW s, IsList(s), NEW k \in 1..Len(s)
  PROVE  /\ IsList(RemoveAt(s, k)) /\ Len(RemoveAt(s, k)) = Len(s) - 1
         /\ \A i \in 1..(k - 1) : RemoveAt(s, k)[i] = s[i]
         /\ \A i \in k..(Len(s) - 1) : RemoveAt(s, k)[i] = s[i + 1]
<1> DEFINE a == SubSeq(s, 1, k - 1)
           b == SubSeq(s, k + 1, Len(s))
<1>1. Len(s) \in Nat
  BY ListFacts
<1>2. IsList(a) /\ Len(a) = k - 1 /\ \A i \in 1..(k - 1) : a[i] = s[i]
  <2>1. 1 \in 1..(Len(s) + 1) /\ k - 1 \in 0..Len(s) /\ 1 <= k - 1 + 1
    BY <1>1
  <2>2. /\ IsList(a) /\ Len(a) = (k - 1) - 1 + 1
        /\ \A i \in 1..((k - 1) - 1 + 1) : a[i] = s[1 + i - 1]
    BY <2>1, ListCut
  <2> HIDE DEF a
  <2>3. (k - 1) - 1 + 1 = k - 1 /\ \A i \in 1..(k - 1) : 1 + i - 1 = i
    BY <1>1
  <2> QED BY <2>2, <2>3
<1>3. IsList(b) /\ Len(b) = Len(s) - k /\ \A i \in 1..(Len(s) - k) : b[i] = s[k + i]
  <2>1. k + 1 \in 1..(Len(s) + 1) /\ Len(s) \in 0..Len(s) /\ k + 1 <= Len(s) + 1
    BY <1>1
  <2>2. /\ IsList(b) /\ Len(b) = Len(s) - (k + 1) + 1
        /\ \A i \in 1..(Len(s) - (k + 1) + 1) : b[i] = s[k + 1 + i - 1]
    BY <2>1, ListCut
  <2> HIDE DEF b
  <2>3. Len(s) - (k + 1) + 1 = Len(s) - k /\ \A i \in 1..(Len(s) - k) : k + 1 + i - 1 = k + i
    BY <1>1
  <2> QED BY <2>2, <2>3
<1>4. RemoveAt(s, k) = a \o b
  BY DEF RemoveAt
<1> HIDE DEF a, b
<1> DEFINE t == a \o b
<1>5. /\ IsList(t) /\ Len(t) = Len(a) + Len(b)
      /\ \A i \in 1..Len(a) : t[i] = a[i]
      /\ \A i \in 1..Len(b) : t[Len(a) + i] = b[i]
  <2>1. IsList(a) /\ IsList(b)
    BY <1>2, <1>3
  <2> QED BY <2>1, ListJoined
<1>6. RemoveAt(s, k) = t
  BY <1>4
<1> HIDE DEF t
<1>7. ASSUME NEW i \in k..(Len(s) - 1) PROVE t[i] = s[i + 1]
  <2>1. i - (k - 1) \in 1..(Len(s) - k) /\ (k - 1) + (i - (k - 1)) = i /\ k + (i - (k - 1)) = i + 1
    BY <1>1
  <2> DEFINE j == i - (k - 1)
  <2>2. j \in 1..Len(b) /\ Len(a) + j = i /\ k + j = i + 1
    BY <1>2, <1>3, <2>1
  <2> HIDE DEF j
  <2>3. t[Len(a) + j] = b[j] /\ b[j] = s[k + j]
    BY <1>3, <1>5, <2>2
  <2> QED BY <2>2, <2>3
<1>8. k - 1 + (Len(s) - k) = Len(s) - 1
  BY <1>1
<1> QED BY <1>2, <1>3, <1>5, <1>6, <1>7, <1>8

(* Whatever the caller presents are contexts of the export, a folder once.  *)
LEMMA HintOk ==
  ASSUME ProfileOk, NEW hint \in Hints
  PROVE  hint = [account |-> hint.account, contexts |-> hint.contexts] /\ ContextsOk(hint.contexts)
<1> DEFINE c == profile.contexts
<1>1. profile = [account |-> profile.account, contexts |-> c] /\ ContextsOk(c)
  BY DEF ProfileOk
<1>2. IsList(c) /\ DOMAIN c = 1..Len(c) /\ Len(c) \in Nat
  BY <1>1, ListFacts DEF ContextsOk
<1>3. CASE hint = profile
  BY <1>1, <1>3
<1>4. ASSUME NEW k \in DOMAIN c, hint = Without(k)
      PROVE  hint = [account |-> hint.account, contexts |-> hint.contexts] /\ ContextsOk(hint.contexts)
  <2> DEFINE t == RemoveAt(c, k)
             g(i) == IF i < k THEN i ELSE i + 1
  <2>1. hint = [account |-> profile.account, contexts |-> t]
    BY <1>1, <1>4 DEF Without
  <2>2. /\ IsList(t) /\ Len(t) = Len(c) - 1
        /\ \A i \in 1..(k - 1) : t[i] = c[i]
        /\ \A i \in k..(Len(c) - 1) : t[i] = c[i + 1]
    BY <1>2, RemovedIs
  <2>3. DOMAIN t = 1..(Len(c) - 1)
    BY <2>2, ListFacts
  <2> HIDE DEF t
  <2>4. ASSUME NEW i \in DOMAIN t PROVE t[i] = c[g(i)] /\ g(i) \in DOMAIN c
    <3>1. i \in 1..(Len(c) - 1) /\ k \in 1..Len(c)
      BY <1>2, <2>3
    <3>2. CASE i < k
      <4>1. i \in 1..(k - 1) /\ g(i) = i /\ i \in DOMAIN c
        BY <1>2, <3>1, <3>2
      <4> QED BY <2>2, <4>1
    <3>3. CASE ~(i < k)
      <4>1. i \in k..(Len(c) - 1) /\ g(i) = i + 1 /\ i + 1 \in DOMAIN c
        BY <1>2, <3>1, <3>3
      <4> QED BY <2>2, <4>1
    <3> QED BY <3>2, <3>3
  <2>5. \A i, j \in DOMAIN t : g(i) = g(j) => i = j
    BY <1>2, <2>3
  <2> HIDE DEF g
  <2>6. ContextsOk(t)
    <3>1. ASSUME NEW i \in DOMAIN t
          PROVE  /\ t[i] = [entry |-> t[i].entry, header |-> t[i].header, messages |-> t[i].messages]
                 /\ t[i].entry \in Selectable /\ t[i].messages \in Selectable
      BY <1>1, <2>4 DEF ContextsOk
    <3>2. ASSUME NEW i \in DOMAIN t, NEW j \in DOMAIN t, t[i].header.id = t[j].header.id PROVE i = j
      BY <1>1, <2>4, <2>5, <3>2 DEF ContextsOk
    <3> QED BY <2>2, <3>1, <3>2 DEF ContextsOk
  <2> QED BY <2>1, <2>6
<1>5. ASSUME NEW k \in DOMAIN c, NEW l \in DOMAIN c, hint = Exchanged(k, l)
      PROVE  hint = [account |-> hint.account, contexts |-> hint.contexts] /\ ContextsOk(hint.contexts)
  <2> DEFINE a == [c EXCEPT ![k].messages = c[l].messages]
             t == [a EXCEPT ![l].messages = c[k].messages]
  <2>1. hint = [account |-> profile.account, contexts |-> t]
    BY <1>1, <1>5 DEF Exchanged
  <2>2. /\ DOMAIN a = 1..Len(c)
        /\ \A i \in 1..Len(c) : \E x \in Selectable :
             a[i] = [entry |-> c[i].entry, header |-> c[i].header, messages |-> x]
    <3>1. \A i \in 1..Len(c) : i # k => a[i] = c[i]
      BY <1>2
    <3>2. a[k] = [c[k] EXCEPT !.messages = c[l].messages]
      BY <1>2
    <3>3. DOMAIN a = 1..Len(c)
      BY <1>2
    <3> HIDE DEF a
    <3>4. a[k] = [entry |-> c[k].entry, header |-> c[k].header, messages |-> c[l].messages]
      BY <1>1, <3>2 DEF ContextsOk
    <3>5. c[l].messages \in Selectable /\ \A i \in 1..Len(c) :
            /\ c[i].messages \in Selectable
            /\ c[i] = [entry |-> c[i].entry, header |-> c[i].header, messages |-> c[i].messages]
      BY <1>1, <1>2 DEF ContextsOk
    <3> QED BY <1>2, <3>1, <3>3, <3>4, <3>5
  <2> HIDE DEF a
  <2>3. /\ DOMAIN t = 1..Len(c)
        /\ \A i \in 1..Len(c) : \E x \in Selectable :
             t[i] = [entry |-> c[i].entry, header |-> c[i].header, messages |-> x]
    <3>1. \A i \in 1..Len(c) : i # l => t[i] = a[i]
      BY <1>2, <2>2
    <3>2. t[l] = [a[l] EXCEPT !.messages = c[k].messages]
      BY <1>2, <2>2
    <3>3. DOMAIN t = 1..Len(c) /\ t = [i \in DOMAIN t |-> t[i]]
      BY <1>2, <2>2
    <3> HIDE DEF t
    <3>4. t[l] = [entry |-> c[l].entry, header |-> c[l].header, messages |-> c[k].messages]
      <4>1. PICK x \in Selectable : a[l] = [entry |-> c[l].entry, header |-> c[l].header, messages |-> x]
        BY <1>2, <2>2
      <4> QED BY <3>2, <4>1
    <3>5. c[k].messages \in Selectable
      BY <1>1, <1>2 DEF ContextsOk
    <3> QED BY <1>2, <2>2, <3>1, <3>3, <3>4, <3>5
  <2>4. t = [i \in DOMAIN t |-> t[i]]
    OBVIOUS
  <2> HIDE DEF t
  <2>5. IsList(t)
    BY <1>2, <2>3, <2>4, ListOf
  <2>6. ContextsOk(t)
    <3>1. ASSUME NEW i \in DOMAIN t
          PROVE  /\ t[i] = [entry |-> t[i].entry, header |-> t[i].header, messages |-> t[i].messages]
                 /\ t[i].entry \in Selectable /\ t[i].messages \in Selectable
                 /\ t[i].header = c[i].header
      <4>1. c[i].entry \in Selectable
        BY <1>1, <1>2, <2>3 DEF ContextsOk
      <4>2. PICK x \in Selectable : t[i] = [entry |-> c[i].entry, header |-> c[i].header, messages |-> x]
        BY <2>3
      <4> QED BY <4>1, <4>2
    <3>2. ASSUME NEW i \in DOMAIN t, NEW j \in DOMAIN t, t[i].header.id = t[j].header.id PROVE i = j
      BY <1>1, <1>2, <2>3, <3>1, <3>2 DEF ContextsOk
    <3> QED BY <2>5, <3>1, <3>2 DEF ContextsOk
  <2> QED BY <2>1, <2>6
<1> QED BY <1>3, <1>4, <1>5 DEF Hints

(* The tasks of open: the headers of the inspection.                        *)
LEMMA OpenTasksAre ==
  ASSUME NEW contexts, ContextsOk(contexts)
  PROVE  LET all == OpenTasks(contexts)
         IN /\ IsList(all)
            /\ \A n \in DOMAIN all : all[n].do # "stream"
            /\ \A n \in DOMAIN all : all[n].do = "context" =>
                 \E k \in DOMAIN contexts : all[n].folder = contexts[k].header.id
                                            /\ all[n].entry = contexts[k].entry
            /\ \A m, n \in DOMAIN all : all[m].do = "context" /\ all[n].do = "context"
                                        /\ all[m].folder = all[n].folder => m = n
<1> DEFINE all == OpenTasks(contexts)
           L == Len(contexts)
           a == <<Task("account", TheAccount, "none"), Task("object", TheIndex, "none")>>
           d == [k \in DOMAIN contexts |-> Task("context", contexts[k].entry, contexts[k].header.id)]
<1>1. L \in Nat /\ DOMAIN contexts = 1..L
  BY ListFacts DEF ContextsOk
<1>2. all = a \o d
  BY DEF OpenTasks
<1>3. IsList(a) /\ Len(a) = 2 /\ a[1].do = "account" /\ a[2].do = "object"
  BY ListPair DEF Task
<1>4. /\ IsList(d) /\ Len(d) = L
      /\ \A n \in 1..L : /\ d[n].do = "context" /\ d[n].folder = contexts[n].header.id
                         /\ d[n].entry = contexts[n].entry
  <2>1. DOMAIN d = 1..L /\ d = [i \in DOMAIN d |-> d[i]]
    BY <1>1
  <2>2. \A n \in 1..L : /\ d[n].do = "context" /\ d[n].folder = contexts[n].header.id
                        /\ d[n].entry = contexts[n].entry
    BY <1>1 DEF Task
  <2> HIDE DEF d
  <2> QED BY <1>1, <2>1, <2>2, ListOf
<1> HIDE DEF a, d, L
<1> DEFINE ad == a \o d
<1>5. /\ IsList(ad) /\ DOMAIN ad = 1..(2 + L)
      /\ \A i \in 1..2 : ad[i] = a[i]
      /\ \A i \in 1..L : ad[2 + i] = d[i]
  <2>1. /\ IsList(ad) /\ DOMAIN ad = 1..(Len(a) + Len(d))
        /\ \A i \in 1..Len(a) : ad[i] = a[i]
        /\ \A i \in 1..Len(d) : ad[Len(a) + i] = d[i]
    <3>1. IsList(a) /\ IsList(d)
      BY <1>3, <1>4
    <3> QED BY <3>1, ListJoined
  <2> QED BY <1>3, <1>4, <2>1
<1>6. all = ad
  BY <1>2
<1> HIDE DEF ad, all
<1>7. ASSUME NEW n \in DOMAIN ad
      PROVE  ad[n].do # "stream" /\ (ad[n].do = "context" => n - 2 \in 1..L /\ ad[n] = d[n - 2])
  <2>1. CASE n \in 1..2
    BY <1>3, <1>5, <2>1
  <2>2. CASE n \notin 1..2
    <3>1. n - 2 \in 1..L /\ 2 + (n - 2) = n
      BY <1>1, <1>5, <2>2
    <3> QED BY <1>4, <1>5, <3>1
  <2> QED BY <2>1, <2>2
<1>8. ASSUME NEW n \in DOMAIN ad, ad[n].do = "context"
      PROVE  \E k \in DOMAIN contexts : ad[n].folder = contexts[k].header.id
                                        /\ ad[n].entry = contexts[k].entry
  BY <1>1, <1>4, <1>7, <1>8
<1>9. ASSUME NEW m \in DOMAIN ad, NEW n \in DOMAIN ad, ad[m].do = "context", ad[n].do = "context",
             ad[m].folder = ad[n].folder
      PROVE  m = n
  <2>1. m - 2 = n - 2
    BY <1>1, <1>4, <1>7, <1>9 DEF ContextsOk
  <2> QED BY <1>1, <1>5, <2>1
<1> QED BY <1>5, <1>6, <1>7, <1>8, <1>9 DEF all

LEMMA OpenKeeps ==
  ASSUME ArchiveInv, Open
  PROVE  ArchiveInv'
<1>1. PICK hint \in Hints : /\ profile' = hint
                            /\ stage' = IF Consistent(hint) THEN "opening" ELSE "refused"
                            /\ tasks' = IF Consistent(hint) THEN OpenTasks(hint.contexts) ELSE <<>>
  BY DEF Open
<1>2. stage = "detected" /\ UNCHANGED <<held, listed, selection, attempted, sink>>
  BY DEF Open
<1>3. selection = <<>> /\ sink = <<>> /\ ~attempted
  BY <1>2 DEF ArchiveInv, StagesOk
<1>4. hint = [account |-> hint.account, contexts |-> hint.contexts] /\ ContextsOk(hint.contexts)
  BY HintOk DEF ArchiveInv
<1>5. ProfileOk'
  BY <1>1, <1>2, <1>4, SameEntries DEF ProfileOk, ContextsOk
<1>6. SelectionOk' /\ SinkOk'
  BY <1>2, KeepSelection, KeepSink DEF ArchiveInv
<1>7. DirectoryOk'
  BY <1>1, <1>2, SameEntries DEF ArchiveInv, DirectoryOk, Starting, Opened
<1>8. DetectingOk' /\ VisitingOk'
  BY <1>1 DEF DetectingOk, VisitingOk
<1>9. OpeningOk'
  <2>1. CASE Consistent(hint)
    <3>1. tasks' = OpenTasks(hint.contexts) /\ profile' = hint /\ selection' = <<>>
      BY <1>1, <1>2, <1>3, <2>1
    <3>2. Consistent(profile)'
      BY <1>1, <1>2, <2>1, SameEntries DEF Consistent
    <3>3. DOMAIN <<>> = {}
      BY EmptyList
    <3> QED BY <1>4, <3>1, <3>2, <3>3, OpenTasksAre DEF OpeningOk, OnceEach
  <2>2. CASE ~Consistent(hint)
    BY <1>1, <2>2 DEF OpeningOk
  <2> QED BY <2>1, <2>2
<1>10. StagesOk'
  <2>1. IsList(tasks') /\ (stage' # "opening" => tasks' = <<>>)
    BY <1>1, <1>4, OpenTasksAre, EmptyList
  <2> QED BY <1>1, <1>2, <1>3, <2>1 DEF StagesOk, Starting, Running
<1> QED BY <1>5, <1>6, <1>7, <1>8, <1>9, <1>10 DEF ArchiveInv

(* The tasks of a pass: the account, and then the header and the transcript *)
(* of every channel.                                                        *)
LEMMA VisitTasksAre ==
  ASSUME IsList(selection)
  PROVE  /\ IsList(VisitTasks) /\ Len(VisitTasks) = 2 * Len(selection) + 1 /\ Len(selection) \in Nat
         /\ VisitTasks[1].do = "account"
         /\ \A k \in 1..Len(selection) :
              /\ VisitTasks[2 * k].do = "context"
              /\ VisitTasks[2 * k].entry = selection[k].entry
              /\ VisitTasks[2 * k].folder = selection[k].folder
              /\ VisitTasks[2 * k + 1].do = "stream"
              /\ VisitTasks[2 * k + 1].entry = selection[k].messages
<1> DEFINE L == Len(selection)
           s == [k \in DOMAIN selection |-> Task("context", selection[k].entry, selection[k].folder)]
           t == [k \in DOMAIN selection |-> Task("stream", selection[k].messages, selection[k].folder)]
           a == <<Task("account", TheAccount, "none")>>
           b == InTurn(s, t)
<1>1. L \in Nat /\ DOMAIN selection = 1..L
  BY ListFacts
<1>2. VisitTasks = a \o b
  BY DEF VisitTasks
<1>3. IsList(a) /\ Len(a) = 1 /\ a[1].do = "account"
  BY ListOne DEF Task
<1>4. \A k \in 1..L : /\ s[k].do = "context" /\ s[k].entry = selection[k].entry
                      /\ s[k].folder = selection[k].folder
                      /\ t[k].do = "stream" /\ t[k].entry = selection[k].messages
  BY <1>1 DEF Task
<1>5. Len(s) = L
  <2>1. DOMAIN s = 1..L /\ s = [i \in DOMAIN s |-> s[i]]
    BY <1>1
  <2> HIDE DEF s
  <2> QED BY <1>1, <2>1, ListOf
<1> HIDE DEF L, s, t
<1>6. /\ IsList(b) /\ Len(b) = 2 * L
      /\ \A k \in 1..L : b[2 * k - 1] = s[k] /\ b[2 * k] = t[k]
  BY <1>1, <1>5, InTurnIs
<1> HIDE DEF a, b
<1> DEFINE ab == a \o b
<1>7. /\ IsList(ab) /\ Len(ab) = Len(a) + Len(b)
      /\ \A i \in 1..Len(a) : ab[i] = a[i]
      /\ \A i \in 1..Len(b) : ab[Len(a) + i] = b[i]
  <2>1. IsList(a) /\ IsList(b)
    BY <1>3, <1>6
  <2> QED BY <2>1, ListJoined
<1>8. VisitTasks = ab
  BY <1>2
<1> HIDE DEF ab
<1>9. Len(ab) = 2 * L + 1 /\ ab[1].do = "account"
  BY <1>1, <1>3, <1>6, <1>7
<1>10. ASSUME NEW k \in 1..L PROVE ab[2 * k] = s[k] /\ ab[2 * k + 1] = t[k]
  <2>1. /\ 2 * k - 1 \in 1..(2 * L) /\ 2 * k \in 1..(2 * L)
        /\ 1 + (2 * k - 1) = 2 * k /\ 1 + 2 * k = 2 * k + 1
    BY <1>1
  <2>2. ab[1 + (2 * k - 1)] = b[2 * k - 1] /\ ab[1 + 2 * k] = b[2 * k]
    BY <1>3, <1>6, <1>7, <2>1
  <2> QED BY <1>6, <2>1, <2>2
<1>11. ASSUME NEW k \in 1..L
       PROVE  /\ ab[2 * k].do = "context" /\ ab[2 * k].entry = selection[k].entry
              /\ ab[2 * k].folder = selection[k].folder
              /\ ab[2 * k + 1].do = "stream" /\ ab[2 * k + 1].entry = selection[k].messages
  BY <1>4, <1>10
<1>12. IsList(VisitTasks) /\ VisitTasks = ab
  BY <1>7, <1>8
<1> QED BY <1>1, <1>9, <1>11, <1>12 DEF L

LEMMA SameVisit ==
  ASSUME UNCHANGED <<listed, selection>>
  PROVE  VisitTasks' = VisitTasks
BY SameEntries DEF VisitTasks

LEMMA VisitKeeps ==
  ASSUME ArchiveInv, Visit
  PROVE  ArchiveInv'
<1>1. /\ stage \in {"opened", "visited"} /\ attempted' = TRUE
      /\ IF attempted THEN UNCHANGED <<stage, tasks>> ELSE stage' = "visiting" /\ tasks' = VisitTasks
      /\ UNCHANGED <<held, listed, profile, selection, sink>>
  BY DEF Visit
<1>2. ProfileOk' /\ SelectionOk' /\ SinkOk'
  BY <1>1, KeepProfile, KeepSelection, KeepSink DEF ArchiveInv
<1>3. DirectoryOk'
  <2>1. held' \in Files /\ (stage' = stage \/ (stage \in Opened /\ stage' = "visiting"))
    BY <1>1 DEF ArchiveInv, DirectoryOk, Opened
  <2> QED BY <1>1, <2>1, KeepDirectory DEF ArchiveInv
<1>4. DetectingOk' /\ OpeningOk'
  BY <1>1 DEF DetectingOk, OpeningOk
<1>5. IsList(VisitTasks) /\ Len(VisitTasks) \in Nat
  BY VisitTasksAre, ListFacts DEF ArchiveInv, SelectionOk
<1>6. VisitingOk'
  <2>1. CASE attempted
    BY <1>1, <2>1 DEF VisitingOk
  <2>2. CASE ~attempted
    <3>1. tasks' = VisitTasks /\ VisitTasks' = VisitTasks /\ sink' = <<>>
      BY <1>1, <2>2, SameVisit DEF ArchiveInv, StagesOk
    <3>2. PassAt(0)'
      BY <3>1 DEF PassAt
    <3>3. Len(tasks') = Len(VisitTasks') - 0 /\ 0 \in 0..Len(VisitTasks')
          /\ \A i \in 1..Len(tasks') : tasks'[i] = VisitTasks'[0 + i]
      BY <1>5, <3>1
    <3> QED BY <3>2, <3>3 DEF VisitingOk
  <2> QED BY <2>1, <2>2
<1>7. StagesOk'
  <2>1. AllEnded' <=> AllEnded
    BY <1>1 DEF AllEnded
  <2> QED BY <1>1, <1>5, <2>1 DEF ArchiveInv, StagesOk, Starting, Running
<1> QED BY <1>2, <1>3, <1>4, <1>6, <1>7 DEF ArchiveInv

LEMMA ReturnKeeps ==
  ASSUME ArchiveInv, Returns
  PROVE  ArchiveInv'
<1>1. /\ tasks = <<>> /\ UNCHANGED <<held, listed, tasks, profile, selection, attempted, sink>>
      /\ \/ stage = "detecting" /\ stage' = "detected"
         \/ stage = "opening" /\ stage' = IF NothingLeftOut THEN "opened" ELSE "refused"
         \/ stage = "visiting" /\ stage' = "visited"
  BY DEF Returns
<1>2. ProfileOk' /\ SelectionOk' /\ SinkOk'
  BY <1>1, KeepProfile, KeepSelection, KeepSink DEF ArchiveInv
<1>3. DirectoryOk'
  <2>1. CASE stage = "opening"
    <3>1. Classified' <=> Classified
      BY <1>1, SameEntries
    <3>2. NothingLeftOut' <=> NothingLeftOut
      BY <1>1 DEF NothingLeftOut, Chosen, Selectable, TheAccount, TheIndex, IsAccount, IsIndex,
                  Words, Spelt, Reserved
    <3> QED BY <1>1, <2>1, <3>1, <3>2 DEF ArchiveInv, DirectoryOk, Starting, Opened, Listable
  <2>2. CASE stage # "opening"
    BY <1>1, <2>2, KeepDirectory DEF ArchiveInv, DirectoryOk
  <2> QED BY <2>1, <2>2
<1>4. DetectingOk' /\ OpeningOk' /\ VisitingOk'
  BY <1>1 DEF DetectingOk, OpeningOk, VisitingOk
<1>5. stage = "visiting" => Len(sink) = Len(selection) /\ AllEnded
  <2> SUFFICES ASSUME stage = "visiting" PROVE Len(sink) = Len(selection) /\ AllEnded
    OBVIOUS
  <2>1. PICK m \in 0..Len(VisitTasks) : Len(tasks) = Len(VisitTasks) - m /\ PassAt(m)
    BY DEF ArchiveInv, VisitingOk
  <2>2. Len(VisitTasks) = 2 * Len(selection) + 1 /\ Len(selection) \in Nat
    BY VisitTasksAre DEF ArchiveInv, SelectionOk
  <2>3. Len(sink) \in Nat
    BY ListFacts DEF ArchiveInv, SinkOk
  <2>4. m = 2 * Len(selection) + 1
    BY <1>1, <2>1, <2>2, EmptyList
  <2>5. m # 0 /\ m # 2 * Len(sink)
    BY <2>2, <2>3, <2>4
  <2>6. AllEnded /\ m = 2 * Len(sink) + 1
    BY <2>1, <2>5 DEF PassAt
  <2> QED BY <2>2, <2>3, <2>4, <2>6
<1>6. StagesOk'
  <2>1. AllEnded' <=> AllEnded
    BY <1>1 DEF AllEnded
  <2> QED BY <1>1, <1>5, <2>1 DEF ArchiveInv, StagesOk, Starting, Running
<1> QED BY <1>2, <1>3, <1>4, <1>6 DEF ArchiveInv

(* The first of the tasks of a call that is under way, and those after it.  *)
LEMMA TaskIs ==
  ASSUME ArchiveInv, tasks # <<>>
  PROVE  /\ stage \in Running /\ IsList(Tail(tasks)) /\ Head(tasks) = tasks[1]
         /\ 1 \in DOMAIN tasks /\ DOMAIN tasks = 1..Len(tasks) /\ Len(tasks) \in Nat
         /\ Len(Tail(tasks)) = Len(tasks) - 1 /\ DOMAIN Tail(tasks) = 1..(Len(tasks) - 1)
         /\ \A i \in 1..(Len(tasks) - 1) : Tail(tasks)[i] = tasks[i + 1]
<1>1. stage \in Running /\ IsList(tasks)
  BY DEF ArchiveInv, StagesOk
<1>2. Len(tasks) \in Nat /\ DOMAIN tasks = 1..Len(tasks)
  BY <1>1, ListFacts
<1> QED BY <1>1, <1>2, ListTail

(* Where a pass is in its tasks.                                            *)
LEMMA VisitIs ==
  ASSUME ArchiveInv, stage = "visiting", tasks # <<>>,
         NEW m \in 0..Len(VisitTasks), Len(tasks) = Len(VisitTasks) - m, PassAt(m),
         \A i \in 1..Len(tasks) : tasks[i] = VisitTasks[m + i]
  PROVE  /\ Len(sink) \in Nat /\ Len(selection) \in Nat /\ Len(VisitTasks) = 2 * Len(selection) + 1
         /\ \/ m = 0 /\ sink = <<>> /\ Head(tasks).do = "account"
            \/ /\ m = 2 * Len(sink) + 1 /\ AllEnded /\ Len(sink) + 1 \in 1..Len(selection)
               /\ Head(tasks).do = "context"
               /\ Head(tasks).entry = selection[Len(sink) + 1].entry
               /\ Head(tasks).folder = selection[Len(sink) + 1].folder
            \/ /\ m = 2 * Len(sink) /\ ~AllEnded /\ Len(sink) \in 1..Len(selection)
               /\ Head(tasks).do = "stream"
               /\ Head(tasks).entry = selection[Len(sink)].messages
<1>1. IsList(selection) /\ IsList(sink)
  BY DEF ArchiveInv, SelectionOk, SinkOk
<1>2. Len(sink) \in Nat /\ Len(selection) \in Nat /\ Len(VisitTasks) = 2 * Len(selection) + 1
  BY <1>1, ListFacts, VisitTasksAre
<1>3. Head(tasks) = VisitTasks[m + 1] /\ m + 1 \in 1..(2 * Len(selection) + 1)
  <2>1. Head(tasks) = tasks[1] /\ 1 \in 1..Len(tasks) /\ Len(tasks) \in Nat
    BY TaskIs
  <2> QED BY <1>2, <2>1
<1>4. CASE m = 0
  BY <1>1, <1>3, <1>4, VisitTasksAre DEF PassAt
<1>5. CASE m # 0 /\ AllEnded
  <2>1. m = 2 * Len(sink) + 1
    BY <1>5 DEF PassAt
  <2>2. Len(sink) + 1 \in 1..Len(selection) /\ m + 1 = 2 * (Len(sink) + 1)
    BY <1>2, <1>3, <2>1
  <2> QED BY <1>1, <1>2, <1>3, <1>5, <2>1, <2>2, VisitTasksAre
<1>6. CASE m # 0 /\ ~AllEnded
  <2>1. m = 2 * Len(sink)
    BY <1>6 DEF PassAt
  <2>2. Len(sink) \in 1..Len(selection) /\ m + 1 = 2 * Len(sink) + 1
    BY <1>2, <1>3, <1>6, <2>1
  <2> QED BY <1>1, <1>2, <1>3, <1>6, <2>1, <2>2, VisitTasksAre
<1> QED BY <1>2, <1>4, <1>5, <1>6

LEMMA DetectingTasks ==
  ASSUME ArchiveInv, stage = "detecting"
  PROVE  /\ OnceEach
         /\ \A m \in DOMAIN tasks :
              /\ tasks[m].do # "stream"
              /\ tasks[m].do = "context" =>
                   /\ tasks[m].entry \in Selectable
                   /\ Half(tasks[m].folder, "messages.json") # {}
                   /\ \A k \in DOMAIN profile.contexts :
                        profile.contexts[k].header.id # tasks[m].folder
BY DEF ArchiveInv, DetectingOk

LEMMA NextProfile ==
  ASSUME UNCHANGED listed, NEW q, ContextsOk(q), NEW user,
         profile' = [account |-> user, contexts |-> q]
  PROVE  ProfileOk'
<1>1. Selectable' = Selectable
  BY SameEntries
<1>2. profile'.contexts = q /\ profile'.account = user
  OBVIOUS
<1>3. IsList(profile'.contexts) /\ profile' = [account |-> profile'.account, contexts |-> profile'.contexts]
  BY <1>2 DEF ContextsOk
<1> QED BY <1>1, <1>2, <1>3 DEF ProfileOk, ContextsOk

LEMMA DetectingConsumes ==
  ASSUME ArchiveInv, stage = "detecting", tasks # <<>>, tasks' = Tail(tasks),
         UNCHANGED <<held, listed, stage, attempted, selection, sink>>,
         NEW t, t = Head(tasks), NEW c, t.do = "context" => c.id = t.folder,
         profile' = IF t.do = "account" THEN [profile EXCEPT !.account = c]
                    ELSE IF t.do = "context"
                    THEN [profile EXCEPT !.contexts =
                            Append(@, [entry |-> t.entry, header |-> c,
                                       messages |-> Only(Half(t.folder, "messages.json"))])]
                    ELSE profile
  PROVE  ArchiveInv'
<1>1. SelectionOk' /\ SinkOk'
  BY KeepSelection, KeepSink DEF ArchiveInv
<1>2. DirectoryOk'
  BY KeepDirectory DEF ArchiveInv, DirectoryOk
<1>3. OpeningOk' /\ VisitingOk'
  BY DEF OpeningOk, VisitingOk
<1>4. StagesOk'
  BY TaskIs DEF ArchiveInv, StagesOk, Starting, Running
<1> DEFINE p == profile.contexts
           x == [entry |-> t.entry, header |-> c, messages |-> Only(Half(t.folder, "messages.json"))]
<1>5. /\ profile = [account |-> profile.account, contexts |-> p] /\ IsList(p)
      /\ Len(p) \in Nat /\ DOMAIN p = 1..Len(p)
  BY ListFacts DEF ArchiveInv, ProfileOk, ContextsOk
<1>6. CASE t.do # "context"
  <2>1. profile' = [account |-> profile'.account, contexts |-> p]
    BY <1>5, <1>6
  <2>2. profile'.contexts = p
    BY <2>1
  <2> HIDE DEF p
  <2>3. ProfileOk'
    BY <2>1, <2>2, SameEntries DEF ArchiveInv, ProfileOk, ContextsOk, p
  <2>4. DetectingOk'
    <3>1. ASSUME NEW n \in DOMAIN tasks'
          PROVE  n + 1 \in DOMAIN tasks /\ tasks'[n] = tasks[n + 1] /\ n \in Nat
      BY TaskIs
    <3>2. OnceEach'
      <4> SUFFICES ASSUME NEW m \in DOMAIN tasks', NEW n \in DOMAIN tasks', tasks'[m].do = "context",
                          tasks'[n].do = "context", tasks'[m].folder = tasks'[n].folder
                   PROVE  m = n
        BY DEF OnceEach
      <4>1. m + 1 = n + 1
        BY <3>1 DEF ArchiveInv, DetectingOk, OnceEach
      <4> QED BY <3>1, <4>1
    <3>3. Selectable' = Selectable /\ \A f, h : Half(f, h)' = Half(f, h)
      BY SameEntries
    <3>4. ASSUME NEW n \in DOMAIN tasks'
          PROVE  /\ tasks'[n].do # "stream"
                 /\ tasks'[n].do = "context" =>
                      /\ tasks'[n].entry \in Selectable
                      /\ Half(tasks'[n].folder, "messages.json") # {}
                      /\ \A k \in DOMAIN p : p[k].header.id # tasks'[n].folder
      BY <3>1, DetectingTasks DEF p
    <3> QED BY <2>2, <3>2, <3>3, <3>4 DEF DetectingOk
  <2> QED BY <1>1, <1>2, <1>3, <1>4, <2>3, <2>4 DEF ArchiveInv
<1>7. CASE t.do = "context"
  <2> DEFINE q == Append(p, x)
  <2>1. profile' = [account |-> profile.account, contexts |-> q]
    BY <1>5, <1>7
  <2>2. /\ IsList(q) /\ DOMAIN q = 1..(Len(p) + 1)
        /\ q[Len(p) + 1] = x /\ \A i \in 1..Len(p) : q[i] = p[i]
    <3> HIDE DEF p, x
    <3> QED BY <1>5, ListAppended
  <2>3. x = [entry |-> x.entry, header |-> x.header, messages |-> x.messages] /\ x.header.id = t.folder
    BY <1>7
  <2>4. x.entry \in Selectable /\ x.messages \in Selectable
    <3>1. t.entry \in Selectable /\ Half(t.folder, "messages.json") # {}
      BY <1>7, TaskIs DEF ArchiveInv, DetectingOk
    <3> QED BY <3>1, HalfIs
  <2>5. \A k \in DOMAIN p : p[k].header.id # t.folder
    BY <1>7, TaskIs DEF ArchiveInv, DetectingOk
  <2> HIDE DEF x, q
  <2>6. profile'.contexts = q
    BY <2>1
  <2>7. ContextsOk(q)
    <3>1. \A k \in DOMAIN p :
            /\ p[k] = [entry |-> p[k].entry, header |-> p[k].header, messages |-> p[k].messages]
            /\ p[k].entry \in Selectable /\ p[k].messages \in Selectable
      BY DEF ArchiveInv, ProfileOk, ContextsOk
    <3>2. \A k, l \in DOMAIN p : p[k].header.id = p[l].header.id => k = l
      BY DEF ArchiveInv, ProfileOk, ContextsOk
    <3> HIDE DEF p
    <3>3. ASSUME NEW k \in DOMAIN q PROVE k \in 1..Len(p) \/ k = Len(p) + 1
      BY <1>5, <2>2
    <3>4. ASSUME NEW k \in DOMAIN q
          PROVE  /\ q[k] = [entry |-> q[k].entry, header |-> q[k].header, messages |-> q[k].messages]
                 /\ q[k].entry \in Selectable /\ q[k].messages \in Selectable
      BY <1>5, <2>2, <2>3, <2>4, <3>1, <3>3
    <3>5. ASSUME NEW k \in DOMAIN q, NEW l \in DOMAIN q, q[k].header.id = q[l].header.id PROVE k = l
      BY <1>5, <2>2, <2>3, <2>5, <3>2, <3>3, <3>5
    <3> QED BY <2>2, <3>4, <3>5 DEF ContextsOk
  <2>8. ProfileOk'
    BY <2>1, <2>7, NextProfile
  <2>9. DetectingOk'
    <3>1. ASSUME NEW n \in DOMAIN tasks'
          PROVE  n + 1 \in DOMAIN tasks /\ tasks'[n] = tasks[n + 1] /\ n \in Nat /\ n + 1 # 1
      BY TaskIs
    <3>2. OnceEach'
      <4> SUFFICES ASSUME NEW m \in DOMAIN tasks', NEW n \in DOMAIN tasks', tasks'[m].do = "context",
                          tasks'[n].do = "context", tasks'[m].folder = tasks'[n].folder
                   PROVE  m = n
        BY DEF OnceEach
      <4>1. m + 1 = n + 1
        BY <3>1 DEF ArchiveInv, DetectingOk, OnceEach
      <4> QED BY <3>1, <4>1
    <3>3. ASSUME NEW n \in DOMAIN tasks', tasks'[n].do = "context",
                 NEW k \in DOMAIN profile'.contexts
          PROVE  profile'.contexts[k].header.id # tasks'[n].folder
      <4>1. tasks'[n].folder # t.folder
        BY <1>7, <3>1, <3>3, TaskIs DEF ArchiveInv, DetectingOk, OnceEach
      <4>2. \A i \in DOMAIN p : p[i].header.id # tasks'[n].folder
        BY <3>1, <3>3 DEF ArchiveInv, DetectingOk
      <4>3. k \in 1..Len(p) \/ k = Len(p) + 1
        BY <1>5, <2>2, <2>6, <3>3
      <4> HIDE DEF p
      <4> QED BY <1>5, <2>2, <2>3, <2>6, <4>1, <4>2, <4>3
    <3> QED BY <3>1, <3>2, <3>3, SameEntries DEF ArchiveInv, DetectingOk
  <2> QED BY <1>1, <1>2, <1>3, <1>4, <2>8, <2>9 DEF ArchiveInv
<1> QED BY <1>6, <1>7

LEMMA OpeningTasks ==
  ASSUME ArchiveInv, stage = "opening"
  PROVE  /\ Consistent(profile) /\ OnceEach
         /\ \A m \in DOMAIN tasks :
              /\ tasks[m].do # "stream"
              /\ tasks[m].do = "context" =>
                   /\ \E k \in DOMAIN profile.contexts :
                         tasks[m].folder = profile.contexts[k].header.id
                         /\ tasks[m].entry = profile.contexts[k].entry
                   /\ \A k \in DOMAIN selection : selection[k].folder # tasks[m].folder
BY DEF ArchiveInv, OpeningOk

(* The hint of a folder is its one context.                                 *)
LEMMA HintedIs ==
  ASSUME ProfileOk, NEW k \in DOMAIN profile.contexts
  PROVE  Hinted(profile.contexts[k].header.id) = profile.contexts[k]
<1> DEFINE p == profile.contexts
           f == p[k].header.id
           found == {x \in ToSet(p) : x.header.id = f}
<1>1. p[k] \in found
  BY DEF ToSet
<1>2. ASSUME NEW x \in found PROVE x = p[k]
  BY DEF ToSet, ProfileOk, ContextsOk
<1>3. Hinted(f) \in found
  BY <1>1 DEF Hinted, Only
<1> QED BY <1>2, <1>3

LEMMA OpeningConsumes ==
  ASSUME ArchiveInv, stage = "opening", tasks # <<>>, tasks' = Tail(tasks),
         UNCHANGED <<held, listed, stage, attempted, profile, sink>>,
         NEW t, t = Head(tasks), NEW c, c = listed[t.entry].crc,
         t.do = "context" => c = Hinted(t.folder).header,
         selection' = IF t.do = "context"
                      THEN Append(selection, [entry |-> t.entry, folder |-> t.folder,
                                              messages |-> Hinted(t.folder).messages])
                      ELSE selection
  PROVE  ArchiveInv'
<1>1. ProfileOk'
  BY KeepProfile DEF ArchiveInv
<1>2. DirectoryOk'
  BY SameEntries DEF ArchiveInv, DirectoryOk, Starting, Opened, Listable
<1>3. DetectingOk' /\ VisitingOk'
  BY DEF DetectingOk, VisitingOk
<1>4. StagesOk'
  BY TaskIs DEF ArchiveInv, StagesOk, Starting, Running
<1>5. /\ IsList(selection) /\ Len(selection) \in Nat /\ DOMAIN selection = 1..Len(selection)
      /\ sink = <<>>
  BY ListFacts DEF ArchiveInv, SelectionOk, StagesOk
<1>6. ASSUME NEW n \in DOMAIN tasks'
      PROVE  n + 1 \in DOMAIN tasks /\ tasks'[n] = tasks[n + 1] /\ n \in Nat /\ n + 1 # 1
  BY TaskIs
<1>7. OnceEach'
  <2> SUFFICES ASSUME NEW m \in DOMAIN tasks', NEW n \in DOMAIN tasks', tasks'[m].do = "context",
                      tasks'[n].do = "context", tasks'[m].folder = tasks'[n].folder
               PROVE  m = n
    BY DEF OnceEach
  <2>1. m + 1 = n + 1
    BY <1>6, OpeningTasks DEF OnceEach
  <2> QED BY <1>6, <2>1
<1>8. Consistent(profile)' /\ \A i, f, h : IsHalf(i, f, h)' <=> IsHalf(i, f, h)
  BY SameEntries, OpeningTasks DEF Consistent
<1>9. CASE t.do # "context"
  <2>1. UNCHANGED <<listed, selection, sink>>
    BY <1>9
  <2>2. SelectionOk' /\ SinkOk'
    BY <2>1, KeepSelection, KeepSink DEF ArchiveInv
  <2>3. OpeningOk'
    <3>1. ASSUME NEW n \in DOMAIN tasks'
          PROVE  /\ tasks'[n].do # "stream"
                 /\ tasks'[n].do = "context" =>
                      /\ \E k \in DOMAIN profile.contexts :
                            tasks'[n].folder = profile.contexts[k].header.id
                            /\ tasks'[n].entry = profile.contexts[k].entry
                      /\ \A k \in DOMAIN selection : selection[k].folder # tasks'[n].folder
      BY <1>6, OpeningTasks
    <3> QED BY <1>7, <1>8, <2>1, <3>1 DEF OpeningOk
  <2> QED BY <1>1, <1>2, <1>3, <1>4, <2>2, <2>3 DEF ArchiveInv
<1>10. CASE t.do = "context"
  <2> DEFINE x == [entry |-> t.entry, folder |-> t.folder, messages |-> Hinted(t.folder).messages]
             q == Append(selection, x)
  <2>1. selection' = q
    BY <1>10
  <2>2. PICK k \in DOMAIN profile.contexts : /\ t.folder = profile.contexts[k].header.id
                                             /\ t.entry = profile.contexts[k].entry
    BY <1>10, TaskIs, OpeningTasks
  <2>3. Hinted(t.folder) = profile.contexts[k]
    BY <2>2, HintedIs DEF ArchiveInv
  <2>4. /\ x.entry \in Selectable /\ x.messages \in Selectable /\ x.folder = t.folder
        /\ IsHalf(x.entry, x.folder, "channel.json") /\ IsHalf(x.messages, x.folder, "messages.json")
        /\ listed[x.entry].crc.id = x.folder
    <3>1. profile.contexts[k].entry \in Selectable /\ profile.contexts[k].messages \in Selectable
      BY DEF ArchiveInv, ProfileOk, ContextsOk
    <3>2. /\ IsHalf(profile.contexts[k].entry, profile.contexts[k].header.id, "channel.json")
          /\ IsHalf(profile.contexts[k].messages, profile.contexts[k].header.id, "messages.json")
      BY OpeningTasks DEF Consistent
    <3>3. c.id = t.folder
      BY <1>10, <2>2, <2>3
    <3> QED BY <2>2, <2>3, <3>1, <3>2, <3>3
  <2>5. \A i \in DOMAIN selection : selection[i].folder # t.folder
    BY <1>10, TaskIs, OpeningTasks
  <2> HIDE DEF x
  <2>6. /\ IsList(q) /\ DOMAIN q = 1..(Len(selection) + 1) /\ Len(q) = Len(selection) + 1
        /\ q[Len(selection) + 1] = x /\ \A i \in 1..Len(selection) : q[i] = selection[i]
    BY <1>5, ListAppended
  <2> HIDE DEF q
  <2>7. ASSUME NEW i \in DOMAIN q PROVE i \in 1..Len(selection) \/ i = Len(selection) + 1
    BY <1>5, <2>6
  <2>8. SelectionOk'
    <3>1. ASSUME NEW i \in DOMAIN q
          PROVE  /\ q[i].entry \in Selectable /\ q[i].messages \in Selectable
                 /\ IsHalf(q[i].entry, q[i].folder, "channel.json")
                 /\ IsHalf(q[i].messages, q[i].folder, "messages.json")
                 /\ listed[q[i].entry].crc.id = q[i].folder
      <4>1. CASE i \in 1..Len(selection)
        BY <1>5, <2>6, <4>1 DEF ArchiveInv, SelectionOk
      <4>2. CASE i = Len(selection) + 1
        BY <2>4, <2>6, <4>2
      <4> QED BY <2>7, <4>1, <4>2
    <3>2. \A i, j \in DOMAIN selection : selection[i].folder = selection[j].folder => i = j
      BY DEF ArchiveInv, SelectionOk
    <3>3. ASSUME NEW i \in DOMAIN q, NEW j \in DOMAIN q, q[i].folder = q[j].folder PROVE i = j
      BY <1>5, <2>4, <2>5, <2>6, <2>7, <3>2, <3>3
    <3>4. Selectable' = Selectable
      BY SameEntries
    <3> QED BY <1>8, <2>1, <2>6, <3>1, <3>3, <3>4 DEF SelectionOk
  <2>9. SinkOk'
    <3>1. sink' = <<>> /\ Len(selection') \in Nat
      BY <1>5, <2>1, <2>6
    <3> QED BY <3>1, EmptyList DEF SinkOk
  <2>10. OpeningOk'
    <3>1. ASSUME NEW n \in DOMAIN tasks'
          PROVE  /\ tasks'[n].do # "stream"
                 /\ tasks'[n].do = "context" =>
                      /\ \E i \in DOMAIN profile.contexts :
                            tasks'[n].folder = profile.contexts[i].header.id
                            /\ tasks'[n].entry = profile.contexts[i].entry
                      /\ \A i \in DOMAIN selection : selection[i].folder # tasks'[n].folder
                      /\ tasks'[n].folder # t.folder
      <4>1. tasks'[n].do = "context" => tasks'[n].folder # t.folder
        BY <1>6, <1>10, TaskIs, OpeningTasks DEF OnceEach
      <4> QED BY <1>6, <4>1, OpeningTasks
    <3>2. ASSUME NEW n \in DOMAIN tasks', tasks'[n].do = "context", NEW i \in DOMAIN q
          PROVE  q[i].folder # tasks'[n].folder
      BY <1>5, <2>4, <2>6, <2>7, <3>1, <3>2
    <3> QED BY <1>7, <1>8, <2>1, <3>1, <3>2 DEF OpeningOk
  <2> QED BY <1>1, <1>2, <1>3, <1>4, <2>8, <2>9, <2>10 DEF ArchiveInv
<1> QED BY <1>9, <1>10

(* A step of a pass that leaves the directory and the selection alone.      *)
LEMMA PassKeeps ==
  ASSUME ArchiveInv, stage = "visiting", UNCHANGED <<held, listed, stage, attempted, profile, selection>>,
         IsList(tasks'), SinkOk', VisitingOk'
  PROVE  ArchiveInv'
<1>1. ProfileOk' /\ SelectionOk' /\ DirectoryOk'
  BY KeepProfile, KeepSelection, KeepDirectory DEF ArchiveInv, DirectoryOk
<1>2. DetectingOk' /\ OpeningOk'
  BY DEF DetectingOk, OpeningOk
<1>3. StagesOk'
  BY DEF ArchiveInv, StagesOk, Starting, Running
<1> QED BY <1>1, <1>2, <1>3 DEF ArchiveInv

(* The next task of a pass.                                                 *)
LEMMA PassGoesOn ==
  ASSUME ArchiveInv, stage = "visiting", tasks # <<>>, tasks' = Tail(tasks),
         UNCHANGED <<listed, selection>>,
         NEW m \in 0..Len(VisitTasks), Len(tasks) = Len(VisitTasks) - m, Len(VisitTasks) \in Nat,
         \A i \in 1..Len(tasks) : tasks[i] = VisitTasks[m + i], PassAt(m + 1)'
  PROVE  VisitingOk'
<1>1. /\ Len(tasks') = Len(tasks) - 1 /\ Len(tasks) \in Nat /\ 1 \in 1..Len(tasks)
      /\ \A i \in 1..(Len(tasks) - 1) : tasks'[i] = tasks[i + 1]
  BY TaskIs
<1>2. m + 1 \in 0..Len(VisitTasks) /\ Len(tasks') = Len(VisitTasks) - (m + 1)
  BY <1>1
<1>3. ASSUME NEW i \in 1..Len(tasks') PROVE tasks'[i] = VisitTasks[m + 1 + i]
  <2>1. i + 1 \in 1..Len(tasks) /\ i \in 1..(Len(tasks) - 1) /\ m + (i + 1) = m + 1 + i
    BY <1>1
  <2> QED BY <1>1, <2>1
<1>4. VisitTasks' = VisitTasks
  BY SameVisit
<1> QED BY <1>2, <1>3, <1>4 DEF VisitingOk

LEMMA NextSink ==
  ASSUME UNCHANGED <<listed, selection>>, NEW q, sink' = q, IsList(q), Len(q) <= Len(selection),
         \A k \in DOMAIN q :
           /\ q[k] = [folder |-> q[k].folder, header |-> q[k].header,
                      messages |-> q[k].messages, ended |-> q[k].ended]
           /\ q[k].folder = selection[k].folder
           /\ q[k].header = listed[selection[k].entry].crc
           /\ q[k].ended \in BOOLEAN
           /\ q[k].ended => q[k].messages = listed[selection[k].messages].crc.records
           /\ k < Len(q) => q[k].ended
  PROVE  SinkOk'
<1>1. sink' = q /\ selection' = selection /\ listed' = listed
  OBVIOUS
<1> QED BY <1>1 DEF SinkOk

LEMMA VisitingConsumes ==
  ASSUME ArchiveInv, stage = "visiting", tasks # <<>>, tasks' = Tail(tasks),
         UNCHANGED <<held, listed, stage, attempted, profile, selection>>,
         NEW t, t = Head(tasks), t.do # "stream", NEW c, c = listed[t.entry].crc,
         sink' = IF t.do = "context"
                 THEN Append(sink, [folder |-> t.folder, header |-> c,
                                    messages |-> <<>>, ended |-> FALSE])
                 ELSE sink
  PROVE  ArchiveInv'
<1>1. PICK m \in 0..Len(VisitTasks) : /\ Len(tasks) = Len(VisitTasks) - m /\ PassAt(m)
                                      /\ \A i \in 1..Len(tasks) : tasks[i] = VisitTasks[m + i]
  BY DEF ArchiveInv, VisitingOk
<1>2. /\ Len(sink) \in Nat /\ Len(selection) \in Nat /\ Len(VisitTasks) = 2 * Len(selection) + 1
      /\ \/ m = 0 /\ sink = <<>> /\ t.do = "account"
         \/ /\ m = 2 * Len(sink) + 1 /\ AllEnded /\ Len(sink) + 1 \in 1..Len(selection)
            /\ t.do = "context" /\ t.entry = selection[Len(sink) + 1].entry
            /\ t.folder = selection[Len(sink) + 1].folder
  BY <1>1, VisitIs
<1>3. IsList(tasks') /\ Len(VisitTasks) \in Nat
  BY <1>2, TaskIs
<1>4. CASE m = 0
  <2>1. sink = <<>> /\ sink' = <<>> /\ UNCHANGED sink
    BY <1>2, <1>4
  <2>2. SinkOk'
    BY <2>1, KeepSink DEF ArchiveInv
  <2>3. PassAt(m + 1)'
    <3>1. DOMAIN sink' = {} /\ Len(sink') = 0
      BY <2>1, EmptyList
    <3>2. AllEnded'
      BY <3>1 DEF AllEnded
    <3> QED BY <1>4, <3>1, <3>2 DEF PassAt
  <2>4. VisitingOk'
    BY <1>1, <1>3, <2>3, PassGoesOn
  <2> QED BY <1>3, <2>2, <2>4, PassKeeps
<1>5. CASE m # 0
  <2> DEFINE x == [folder |-> t.folder, header |-> c, messages |-> <<>>, ended |-> FALSE]
             n == Len(sink) + 1
             q == Append(sink, x)
  <2>1. sink' = q
    BY <1>2, <1>5
  <2>2. x = [folder |-> x.folder, header |-> x.header, messages |-> x.messages, ended |-> x.ended]
        /\ x.folder = selection[n].folder /\ x.header = listed[selection[n].entry].crc /\ x.ended = FALSE
        /\ m = 2 * Len(sink) + 1 /\ AllEnded /\ n \in 1..Len(selection)
    BY <1>2, <1>5
  <2> HIDE DEF x
  <2>3. /\ IsList(q) /\ DOMAIN q = 1..n /\ Len(q) = n
        /\ q[n] = x /\ \A i \in 1..Len(sink) : q[i] = sink[i]
    <3>1. IsList(sink)
      BY DEF ArchiveInv, SinkOk
    <3> QED BY <3>1, ListAppended
  <2>4. IsList(sink) /\ DOMAIN sink = 1..Len(sink)
    BY ListFacts DEF ArchiveInv, SinkOk
  <2> HIDE DEF q
  <2>5. ASSUME NEW i \in DOMAIN q
        PROVE  (i \in DOMAIN sink /\ q[i] = sink[i] /\ sink[i].ended /\ i < n) \/ (i = n /\ q[i] = x)
    <3>1. i \in 1..Len(sink) \/ i = n
      BY <1>2, <2>3
    <3> QED BY <1>2, <2>2, <2>3, <2>4, <3>1 DEF AllEnded
  <2>6. SinkOk'
    <3>1. ASSUME NEW i \in DOMAIN q
          PROVE  /\ q[i] = [folder |-> q[i].folder, header |-> q[i].header,
                            messages |-> q[i].messages, ended |-> q[i].ended]
                 /\ q[i].folder = selection[i].folder
                 /\ q[i].header = listed[selection[i].entry].crc
                 /\ q[i].ended \in BOOLEAN
                 /\ q[i].ended => q[i].messages = listed[selection[i].messages].crc.records
                 /\ i < Len(q) => q[i].ended
      <4>1. CASE i \in DOMAIN sink /\ q[i] = sink[i] /\ sink[i].ended
        BY <4>1 DEF ArchiveInv, SinkOk
      <4>2. CASE i = n /\ q[i] = x
        <5>1. /\ ~(n < Len(q)) /\ x.ended = FALSE
              /\ x.folder = selection[n].folder /\ x.header = listed[selection[n].entry].crc
              /\ x = [folder |-> x.folder, header |-> x.header, messages |-> x.messages, ended |-> x.ended]
          BY <1>2, <2>2, <2>3
        <5> HIDE DEF n
        <5> QED BY <4>2, <5>1
      <4> QED BY <2>5, <4>1, <4>2
    <3>2. Len(q) <= Len(selection)
      BY <1>2, <2>2, <2>3
    <3> HIDE DEF n
    <3> QED BY <2>1, <2>3, <3>1, <3>2, NextSink
  <2>7. PassAt(m + 1)'
    <3>1. ~AllEnded'
      <4>1. n \in DOMAIN q /\ ~q[n].ended
        BY <1>2, <2>2, <2>3
      <4> QED BY <2>1, <4>1 DEF AllEnded
    <3>2. m + 1 = 2 * Len(sink') /\ m + 1 # 0
      BY <1>2, <2>1, <2>2, <2>3
    <3> QED BY <3>1, <3>2 DEF PassAt
  <2>8. VisitingOk'
    BY <1>1, <1>3, <2>7, PassGoesOn
  <2> QED BY <1>3, <2>6, <2>8, PassKeeps
<1> QED BY <1>4, <1>5

LEMMA ConsumeKeeps ==
  ASSUME ArchiveInv, Consume
  PROVE  ArchiveInv'
<1> DEFINE t == Head(tasks)
           c == Content(t.entry)
<1>1. tasks # <<>> /\ t.do # "stream"
  BY DEF Consume
<1>2. stage \in Running
  BY <1>1, TaskIs
<1>3. CASE ~(Intact(t.entry, c) /\ Accepts(t, c))
  <2>1. Fail
    BY <1>3 DEF Consume
  <2> QED BY <1>2, <2>1, FailKeeps
<1>4. CASE Intact(t.entry, c) /\ Accepts(t, c)
  <2>1. /\ tasks' = Tail(tasks)
        /\ profile' = IF stage # "detecting" THEN profile
                      ELSE IF t.do = "account" THEN [profile EXCEPT !.account = c]
                      ELSE IF t.do = "context"
                      THEN [profile EXCEPT !.contexts =
                              Append(@, [entry |-> t.entry, header |-> c,
                                         messages |-> Only(Half(t.folder, "messages.json"))])]
                      ELSE profile
        /\ selection' = IF stage = "opening" /\ t.do = "context"
                        THEN Append(selection, [entry |-> t.entry, folder |-> t.folder,
                                                messages |-> Hinted(t.folder).messages])
                        ELSE selection
        /\ sink' = IF stage = "visiting" /\ t.do = "context"
                   THEN Append(sink, [folder |-> t.folder, header |-> c,
                                      messages |-> <<>>, ended |-> FALSE])
                   ELSE sink
        /\ UNCHANGED <<held, listed, stage, attempted>>
    BY <1>4 DEF Consume
  <2>2. c = listed[t.entry].crc
    BY <1>4 DEF Intact
  <2>3. t.do = "context" => c.id = t.folder \/ stage = "opening"
    BY <1>4 DEF Accepts
  <2>4. t.do = "context" /\ stage = "opening" => c = Hinted(t.folder).header
    BY <1>4 DEF Accepts
  <2> HIDE DEF t, c
  <2>5. t = Head(tasks)
    BY DEF t
  <2>6. CASE stage = "detecting"
    <3>1. UNCHANGED <<held, listed, stage, attempted, selection, sink>>
      BY <2>1, <2>6
    <3>2. t.do = "context" => c.id = t.folder
      BY <2>3, <2>6
    <3>3. profile' = IF t.do = "account" THEN [profile EXCEPT !.account = c]
                     ELSE IF t.do = "context"
                     THEN [profile EXCEPT !.contexts =
                             Append(@, [entry |-> t.entry, header |-> c,
                                        messages |-> Only(Half(t.folder, "messages.json"))])]
                     ELSE profile
      BY <2>1, <2>6
    <3> QED BY <1>1, <2>1, <2>5, <2>6, <3>1, <3>2, <3>3, DetectingConsumes
  <2>7. CASE stage = "opening"
    <3>1. UNCHANGED <<held, listed, stage, attempted, profile, sink>>
      BY <2>1, <2>7
    <3>2. selection' = IF t.do = "context"
                       THEN Append(selection, [entry |-> t.entry, folder |-> t.folder,
                                               messages |-> Hinted(t.folder).messages])
                       ELSE selection
      BY <2>1, <2>7
    <3>3. t.do = "context" => c = Hinted(t.folder).header
      BY <2>4, <2>7
    <3> QED BY <1>1, <2>1, <2>2, <2>5, <2>7, <3>1, <3>2, <3>3, OpeningConsumes
  <2>8. CASE stage = "visiting"
    <3>1. UNCHANGED <<held, listed, stage, attempted, profile, selection>>
      BY <2>1, <2>8
    <3>2. sink' = IF t.do = "context"
                  THEN Append(sink, [folder |-> t.folder, header |-> c,
                                     messages |-> <<>>, ended |-> FALSE])
                  ELSE sink
      BY <2>1, <2>8
    <3> QED BY <1>1, <2>1, <2>2, <2>5, <2>8, <3>1, <3>2, VisitingConsumes
  <2> QED BY <1>2, <2>6, <2>7, <2>8 DEF Running
<1> QED BY <1>3, <1>4

LEMMA StreamKeeps ==
  ASSUME ArchiveInv, Stream
  PROVE  ArchiveInv'
<1> DEFINE i == Head(tasks).entry
           c == Content(i)
           k == Len(sink)
           n == Len(Last(sink).messages) + 1
<1>1. tasks # <<>> /\ Head(tasks).do = "stream"
  BY DEF Stream
<1>2. stage = "visiting"
  BY <1>1, TaskIs, DetectingTasks, OpeningTasks DEF Running
<1>3. PICK m \in 0..Len(VisitTasks) : /\ Len(tasks) = Len(VisitTasks) - m /\ PassAt(m)
                                      /\ \A j \in 1..Len(tasks) : tasks[j] = VisitTasks[m + j]
  BY <1>2 DEF ArchiveInv, VisitingOk
<1>4. /\ k \in Nat /\ Len(selection) \in Nat /\ Len(VisitTasks) = 2 * Len(selection) + 1
      /\ m = 2 * k /\ ~AllEnded /\ k \in 1..Len(selection) /\ i = selection[k].messages
  BY <1>1, <1>2, <1>3, VisitIs
<1>5. IsList(sink) /\ DOMAIN sink = 1..k /\ k \in DOMAIN sink /\ Last(sink) = sink[k]
  BY <1>4, ListFacts DEF ArchiveInv, SinkOk, Last
<1>6. ~sink[k].ended
  BY <1>4, <1>5 DEF ArchiveInv, SinkOk, AllEnded
<1>7. CASE Fail
  BY <1>2, <1>7, FailKeeps DEF Running
<1>8. CASE /\ sink' = [sink EXCEPT ![k].messages = Append(@, c.records[n])]
           /\ UNCHANGED <<held, listed, stage, tasks, profile, selection, attempted>>
  <2> DEFINE q == [sink EXCEPT ![k].messages = Append(@, c.records[n])]
  <2>1. /\ DOMAIN q = 1..k /\ q = [j \in DOMAIN q |-> q[j]]
        /\ \A j \in 1..k : j # k => q[j] = sink[j]
        /\ q[k] = [sink[k] EXCEPT !.messages = Append(@, c.records[n])]
    BY <1>5
  <2>2. sink' = q
    BY <1>8
  <2> HIDE DEF q, c, n
  <2>3. sink[k] = [folder |-> sink[k].folder, header |-> sink[k].header,
                   messages |-> sink[k].messages, ended |-> sink[k].ended]
    BY <1>5 DEF ArchiveInv, SinkOk
  <2>4. q[k] = [folder |-> sink[k].folder, header |-> sink[k].header,
                messages |-> Append(sink[k].messages, c.records[n]), ended |-> sink[k].ended]
    BY <2>1, <2>3
  <2>5. IsList(q) /\ Len(q) = k
    BY <1>4, <2>1, ListOf
  <2>6. SinkOk'
    <3>1. ASSUME NEW j \in DOMAIN q
          PROVE  /\ q[j] = [folder |-> q[j].folder, header |-> q[j].header,
                            messages |-> q[j].messages, ended |-> q[j].ended]
                 /\ q[j].folder = selection[j].folder
                 /\ q[j].header = listed[selection[j].entry].crc
                 /\ q[j].ended \in BOOLEAN
                 /\ q[j].ended => q[j].messages = listed[selection[j].messages].crc.records
                 /\ j < Len(q) => q[j].ended
      <4>1. CASE j # k
        BY <1>5, <2>1, <2>5, <4>1 DEF ArchiveInv, SinkOk
      <4>2. CASE j = k
        <5>1. /\ q[k].folder = sink[k].folder /\ q[k].header = sink[k].header
              /\ q[k].ended = sink[k].ended
              /\ q[k] = [folder |-> q[k].folder, header |-> q[k].header,
                         messages |-> q[k].messages, ended |-> q[k].ended]
          BY <2>4
        <5>2. /\ sink[k].folder = selection[k].folder /\ sink[k].ended \in BOOLEAN
              /\ sink[k].header = listed[selection[k].entry].crc
          BY <1>5 DEF ArchiveInv, SinkOk
        <5> QED BY <1>4, <1>6, <2>5, <4>2, <5>1, <5>2
      <4> QED BY <4>1, <4>2
    <3>2. Len(q) <= Len(selection)
      BY <1>4, <2>5
    <3> QED BY <1>8, <2>2, <2>5, <3>1, <3>2, NextSink
  <2>7. PassAt(m)'
    <3>1. ~AllEnded'
      <4>1. k \in DOMAIN q /\ ~q[k].ended
        BY <1>5, <1>6, <2>1, <2>4
      <4> QED BY <2>2, <4>1 DEF AllEnded
    <3> QED BY <1>4, <2>2, <2>5, <3>1 DEF PassAt
  <2>8. VisitingOk'
    <3>1. VisitTasks' = VisitTasks
      BY <1>8, SameVisit
    <3> QED BY <1>3, <1>8, <2>7, <3>1 DEF VisitingOk
  <2>9. IsList(tasks')
    BY <1>8 DEF ArchiveInv, StagesOk
  <2> QED BY <1>2, <1>8, <2>6, <2>8, <2>9, PassKeeps
<1>9. CASE /\ sink' = [sink EXCEPT ![k].ended = TRUE] /\ tasks' = Tail(tasks)
           /\ c # Nothing /\ c.kind = "messages" /\ Intact(i, [c EXCEPT !.records = Last(sink).messages])
           /\ UNCHANGED <<held, listed, stage, profile, selection, attempted>>
  <2> DEFINE q == [sink EXCEPT ![k].ended = TRUE]
  <2>1. /\ DOMAIN q = 1..k /\ q = [j \in DOMAIN q |-> q[j]]
        /\ \A j \in 1..k : j # k => q[j] = sink[j]
        /\ q[k] = [sink[k] EXCEPT !.ended = TRUE]
    BY <1>5
  <2>2. sink' = q
    BY <1>9
  <2> HIDE DEF q
  <2>3. sink[k] = [folder |-> sink[k].folder, header |-> sink[k].header,
                   messages |-> sink[k].messages, ended |-> sink[k].ended]
    BY <1>5 DEF ArchiveInv, SinkOk
  <2>4. q[k] = [folder |-> sink[k].folder, header |-> sink[k].header,
                messages |-> sink[k].messages, ended |-> TRUE]
    BY <2>1, <2>3
  <2>5. IsList(q) /\ Len(q) = k
    BY <1>4, <2>1, ListOf
  <2>6. sink[k].messages = listed[i].crc.records
    <3>1. "records" \in DOMAIN c
      <4>1. Places(i) # {} /\ c = held[CHOOSE j \in Places(i) : TRUE].content
        BY <1>9 DEF Content
      <4>2. (CHOOSE j \in Places(i) : TRUE) \in DOMAIN held
        BY <4>1 DEF Places
      <4>3. held \in Files
        BY DEF ArchiveInv, DirectoryOk
      <4> QED BY <1>9, <4>1, <4>2, <4>3, DiscordArchiveAssumption
    <3>2. [c EXCEPT !.records = sink[k].messages] = listed[i].crc
      BY <1>5, <1>9 DEF Intact
    <3> HIDE DEF c
    <3>3. [c EXCEPT !.records = sink[k].messages].records = sink[k].messages
      BY <3>1
    <3> QED BY <3>2, <3>3
  <2>7. SinkOk'
    <3>1. ASSUME NEW j \in DOMAIN q
          PROVE  /\ q[j] = [folder |-> q[j].folder, header |-> q[j].header,
                            messages |-> q[j].messages, ended |-> q[j].ended]
                 /\ q[j].folder = selection[j].folder
                 /\ q[j].header = listed[selection[j].entry].crc
                 /\ q[j].ended = TRUE
                 /\ q[j].messages = listed[selection[j].messages].crc.records
      <4>1. CASE j # k
        <5>1. j \in DOMAIN sink /\ q[j] = sink[j] /\ j < k
          BY <1>4, <1>5, <2>1, <4>1
        <5> QED BY <5>1 DEF ArchiveInv, SinkOk
      <4>2. CASE j = k
        <5>1. /\ q[k].folder = sink[k].folder /\ q[k].header = sink[k].header
              /\ q[k].ended = TRUE /\ q[k].messages = sink[k].messages
              /\ q[k] = [folder |-> q[k].folder, header |-> q[k].header,
                         messages |-> q[k].messages, ended |-> q[k].ended]
          BY <2>4
        <5>2. /\ sink[k].folder = selection[k].folder
              /\ sink[k].header = listed[selection[k].entry].crc
          BY <1>5 DEF ArchiveInv, SinkOk
        <5> QED BY <1>4, <2>6, <4>2, <5>1, <5>2
      <4> QED BY <4>1, <4>2
    <3>2. Len(q) <= Len(selection)
      BY <1>4, <2>5
    <3> QED BY <1>9, <2>2, <2>5, <3>1, <3>2, NextSink
  <2>8. PassAt(m + 1)'
    <3>1. AllEnded'
      <4>1. \A j \in DOMAIN q : q[j].ended
        <5>1. \A j \in 1..k : j # k => j < k /\ sink[j].ended
          <6>1. \A j \in 1..k : j # k => j < k
            BY <1>4
          <6>2. \A j \in 1..k : j < k => sink[j].ended
            BY <1>5 DEF ArchiveInv, SinkOk
          <6> QED BY <6>1, <6>2
        <5>2. q[k].ended
          BY <2>4
        <5> QED BY <2>1, <5>1, <5>2
      <4> QED BY <2>2, <4>1 DEF AllEnded
    <3>2. Len(sink') = k /\ m + 1 = 2 * k + 1 /\ m + 1 # 0
      BY <1>4, <2>2, <2>5
    <3> QED BY <3>1, <3>2 DEF PassAt
  <2>9. VisitingOk'
    <3>1. Len(VisitTasks) \in Nat
      BY <1>4
    <3> QED BY <1>1, <1>2, <1>3, <1>9, <2>8, <3>1, PassGoesOn
  <2>10. IsList(tasks')
    BY <1>1, <1>9, TaskIs
  <2> QED BY <1>2, <1>9, <2>7, <2>9, <2>10, PassKeeps
<1> QED BY <1>7, <1>8, <1>9 DEF Stream

LEMMA StopKeeps ==
  ASSUME ArchiveInv, Stop
  PROVE  ArchiveInv'
BY FailKeeps DEF Stop, Running

LEMMA ArchiveBegins ==
  ASSUME ArchiveInit
  PROVE  ArchiveInv
<1>1. /\ held \in Files /\ stage = "inspect" /\ tasks = <<>> /\ profile = NoProfile
      /\ selection = <<>> /\ attempted = FALSE /\ sink = <<>>
  BY DEF ArchiveInit, ArchiveStart
<1>2. IsList(<<>>) /\ Len(<<>>) = 0 /\ DOMAIN <<>> = {}
  BY EmptyList
<1>3. DirectoryOk
  BY <1>1 DEF DirectoryOk, Starting, Opened
<1>4. ProfileOk
  <2>1. profile = [account |-> Nothing, contexts |-> <<>>]
    BY <1>1 DEF NoProfile
  <2>2. profile.contexts = <<>> /\ profile.account = Nothing
    BY <2>1
  <2> QED BY <1>2, <2>1, <2>2 DEF ProfileOk, ContextsOk
<1>5. SelectionOk /\ SinkOk
  BY <1>1, <1>2 DEF SelectionOk, SinkOk
<1>6. DetectingOk /\ OpeningOk /\ VisitingOk
  BY <1>1 DEF DetectingOk, OpeningOk, VisitingOk
<1>7. StagesOk
  <2>1. profile.contexts = <<>>
    BY <1>1 DEF NoProfile
  <2> QED BY <1>1, <1>2, <2>1 DEF StagesOk, Starting, Running
<1> QED BY <1>3, <1>4, <1>5, <1>6, <1>7 DEF ArchiveInv

LEMMA ArchiveStutters ==
  ASSUME ArchiveInv, UNCHANGED archiveVars
  PROVE  ArchiveInv'
<1>1. UNCHANGED <<held, listed, stage, tasks, profile, selection, attempted, sink>>
  BY DEF archiveVars
<1>2. ProfileOk' /\ SelectionOk' /\ SinkOk' /\ DirectoryOk'
  BY <1>1, KeepProfile, KeepSelection, KeepSink, KeepDirectory DEF ArchiveInv, DirectoryOk
<1>3. OnceEach' <=> OnceEach
  BY <1>1 DEF OnceEach
<1>4. DetectingOk' /\ OpeningOk'
  <2>1. Consistent(profile)' <=> Consistent(profile)
    BY <1>1, SameEntries DEF Consistent
  <2> QED BY <1>1, <1>3, <2>1, SameEntries DEF ArchiveInv, DetectingOk, OpeningOk
<1>5. VisitingOk'
  <2>1. VisitTasks' = VisitTasks
    BY <1>1, SameVisit
  <2>2. \A m : PassAt(m)' <=> PassAt(m)
    BY <1>1 DEF PassAt, AllEnded
  <2> QED BY <1>1, <2>1, <2>2 DEF ArchiveInv, VisitingOk
<1>6. StagesOk'
  BY <1>1 DEF ArchiveInv, StagesOk, AllEnded
<1> QED BY <1>2, <1>4, <1>5, <1>6 DEF ArchiveInv

(* The invariant of the reader: the accepted directory, the contexts the    *)
(* caller may have changed, what a call still has to do and what it has     *)
(* handed on (inspect, detect, open and visit_channels).                    *)
THEOREM ArchiveInductive == ArchiveSpec => []ArchiveInv
<1>1. ArchiveInit => ArchiveInv
  BY ArchiveBegins
<1>2. ArchiveInv /\ [ArchiveNext]_archiveVars => ArchiveInv'
  <2> SUFFICES ASSUME ArchiveInv, [ArchiveNext]_archiveVars PROVE ArchiveInv'
    OBVIOUS
  <2>1. CASE InspectDirectory
    BY <2>1, InspectDirectoryKeeps
  <2>2. CASE InspectLocals
    BY <2>2, InspectLocalsKeeps
  <2>3. CASE Detect
    BY <2>3, DetectKeeps
  <2>4. CASE Open
    BY <2>4, OpenKeeps
  <2>5. CASE Visit
    BY <2>5, VisitKeeps
  <2>6. CASE Consume
    BY <2>6, ConsumeKeeps
  <2>7. CASE Stream
    BY <2>7, StreamKeeps
  <2>8. CASE Returns
    BY <2>8, ReturnKeeps
  <2>9. CASE Stop
    BY <2>9, StopKeeps
  <2>10. CASE Overwrite
    BY <2>10, OverwriteKeeps
  <2>11. CASE UNCHANGED archiveVars
    BY <2>11, ArchiveStutters
  <2> QED BY <2>1, <2>2, <2>3, <2>4, <2>5, <2>6, <2>7, <2>8, <2>9, <2>10, <2>11 DEF ArchiveNext
<1> QED BY <1>1, <1>2, PTL DEF ArchiveSpec

(* No byte is that of two entries: below the least place where one would    *)
(* begin inside another there is another such place.                        *)
LEMMA Disjoint ==
  ASSUME NEW f \in Files, Tiled(f), NEW i \in DOMAIN f, NEW j \in DOMAIN f, i # j
  PROVE  f[i].to <= f[j].from \/ f[j].to <= f[i].from
<1> DEFINE Within(a, b) == f[a].from < f[b].from /\ f[b].from < f[a].to
           Wrong == {f[b].from : b \in {x \in DOMAIN f : \E a \in DOMAIN f : Within(a, x)}}
<1>1. \A a \in DOMAIN f : f[a].from \in Nat /\ f[a].to \in Nat /\ f[a].from < f[a].to
  BY DiscordArchiveAssumption
<1>2. Wrong = {}
  <2> SUFFICES ASSUME Wrong # {} PROVE FALSE
    OBVIOUS
  <2>1. Wrong \in SUBSET Nat
    BY <1>1
  <2>2. PICK w \in Wrong : \A v \in Wrong : w <= v
    <3> HIDE DEF Wrong
    <3> QED BY <2>1, LeastNatural
  <2>3. PICK b \in DOMAIN f : f[b].from = w /\ \E a \in DOMAIN f : Within(a, b)
    BY <2>2
  <2>4. PICK a \in DOMAIN f : Within(a, b)
    BY <2>3
  <2>5. f[b].from # 0
    BY <1>1, <2>4
  <2>6. PICK c \in DOMAIN f : f[c].to = f[b].from
    BY <2>5 DEF Tiled
  <2>7. a # c /\ f[a].from # f[c].from
    BY <1>1, <2>4, <2>6 DEF Tiled
  <2>8. CASE f[c].from < f[a].from
    <3>1. Within(c, a)
      BY <2>4, <2>6, <2>8
    <3>2. f[a].from \in Wrong
      BY <3>1
    <3>3. w <= f[a].from /\ f[b].from = w
      <4> HIDE DEF Wrong
      <4> QED BY <2>2, <2>3, <3>2
    <3>4. f[a].from < f[b].from /\ f[a].from \in Nat /\ f[b].from \in Nat
      BY <1>1, <2>4
    <3> QED BY <3>3, <3>4
  <2>9. CASE f[a].from < f[c].from
    <3>1. f[c].from < f[b].from /\ f[b].from < f[a].to
      BY <1>1, <2>4, <2>6
    <3>2. Within(a, c)
      BY <1>1, <2>9, <3>1
    <3>3. f[c].from \in Wrong
      BY <3>2
    <3>4. w <= f[c].from /\ f[b].from = w
      <4> HIDE DEF Wrong
      <4> QED BY <2>2, <2>3, <3>3
    <3>5. f[c].from \in Nat /\ f[b].from \in Nat
      BY <1>1
    <3> QED BY <3>1, <3>4, <3>5
  <2> QED BY <1>1, <2>7, <2>8, <2>9
<1>3. ~Within(i, j) /\ ~Within(j, i)
  BY <1>2
<1>4. f[i].from # f[j].from
  BY DEF Tiled
<1> QED BY <1>1, <1>3, <1>4

(* Two entries have different names, folded.                                *)
LEMMA DifferentWords ==
  ASSUME listed \in Files, Listable(listed), NEW i \in DOMAIN listed, NEW j \in DOMAIN listed, i # j
  PROVE  Words(i) # Words(j)
<1> DEFINE T == [word : STRING, exact : BOOLEAN]
<1>1. ASSUME NEW k \in DOMAIN listed PROVE listed[k].name \in Prefixes(listed[k].name)
  <2> DEFINE s == listed[k].name
  <2>1. s \in Seq(T)
    BY DiscordArchiveAssumption
  <2> HIDE DEF T, s
  <2>2. SubSeq(s, 1, Len(s)) = s /\ Len(s) \in 0..Len(s)
    BY <2>1
  <2> QED BY <2>2 DEF Prefixes, s
<1>2. NamesAgree(listed[i], listed[j])
  BY DEF Listable
<1> QED BY <1>1, <1>2 DEF NamesAgree, Words

LEMMA InspectedWhole ==
  ASSUME ArchiveInv, stage \in Opened
  PROVE  Whole
<1>1. listed \in Files /\ Listable(listed) /\ Classified /\ NothingLeftOut
  BY DEF ArchiveInv, DirectoryOk, Opened, Starting
<1>2. Chosen = {i \in Selectable : Reserved(i)}
  <2>1. TheAccount \in Selectable /\ IsAccount(TheAccount) /\ TheIndex \in Selectable /\ IsIndex(TheIndex)
    BY <1>1, ClassifiedIs
  <2>2. ASSUME NEW i, IsAccount(i) PROVE Reserved(i)
    <3>1. Words(i) = <<"account", "user.json">>
      BY <2>2 DEF IsAccount
    <3>2. Last(Words(i)) = "user.json"
      BY <3>1 DEF Last
    <3> QED BY <3>2 DEF Reserved
  <2>3. ASSUME NEW i, IsIndex(i) PROVE Reserved(i)
    <3>1. Words(i) = <<"messages", "index.json">>
      BY <2>3 DEF IsIndex
    <3>2. Last(Words(i)) = "index.json" /\ 1 \in DOMAIN Words(i) /\ Words(i)[1] = "messages"
      BY <3>1 DEF Last
    <3> QED BY <3>2 DEF Reserved
  <2>4. ASSUME NEW i, NEW g, NEW h \in {"channel.json", "messages.json"}, IsHalf(i, g, h) PROVE Reserved(i)
    <3>1. Words(i) = <<"messages", g, h>>
      BY <2>4 DEF IsHalf
    <3>2. Last(Words(i)) = h
      BY <3>1 DEF Last
    <3> QED BY <3>2 DEF Reserved
  <2>5. ASSUME NEW i \in Chosen PROVE i \in Selectable /\ Reserved(i)
    <3>1. CASE i \in {TheAccount, TheIndex}
      BY <2>1, <2>2, <2>3, <3>1
    <3>2. CASE i \notin {TheAccount, TheIndex}
      <4>1. PICK k \in DOMAIN selection : i \in {selection[k].entry, selection[k].messages}
        BY <2>5, <3>2 DEF Chosen, ToSet
      <4> QED BY <2>4, <4>1 DEF ArchiveInv, SelectionOk
    <3> QED BY <3>1, <3>2
  <2> QED BY <1>1, <2>5 DEF NothingLeftOut
<1>3. \A s \in ToSet(selection) : /\ listed[s.entry].crc.id = s.folder
                                  /\ IsHalf(s.messages, s.folder, "messages.json")
  BY DEF ArchiveInv, SelectionOk, ToSet
<1>4. ASSUME NEW i \in DOMAIN listed, NEW j \in DOMAIN listed, i # j
      PROVE  /\ listed[i].to <= listed[j].from \/ listed[j].to <= listed[i].from
             /\ Words(i) # Words(j)
  BY <1>1, <1>4, Disjoint, DifferentWords DEF Listable
<1> QED BY <1>2, <1>3, <1>4 DEF Whole

(* The property of run rules: an opened reader has the whole export, and a  *)
(* channel the sink was told is complete has the inspected header and all   *)
(* the inspected records in their order, for any files and any moment at    *)
(* which one of them replaces another.                                      *)
THEOREM CompletedMatchesInspection == ArchiveSpec => []CompletedIsInspected
<1>1. ArchiveInv => CompletedIsInspected
  <2> SUFFICES ASSUME ArchiveInv PROVE CompletedIsInspected
    OBVIOUS
  <2>1. stage \in {"opened", "visiting", "visited"} => Whole
    BY InspectedWhole DEF Opened
  <2>2. /\ Len(sink) \in Nat /\ DOMAIN sink = 1..Len(sink) /\ DOMAIN selection = 1..Len(selection)
        /\ Len(selection) \in Nat /\ Len(sink) <= Len(selection)
    BY ListFacts DEF ArchiveInv, SinkOk, SelectionOk
  <2>3. \A k \in DOMAIN sink : k \in DOMAIN selection
    BY <2>2
  <2>4. ASSUME NEW k \in DOMAIN sink
        PROVE  Only({x \in ToSet(selection) : x.folder = sink[k].folder}) = selection[k]
    <3> DEFINE found == {x \in ToSet(selection) : x.folder = sink[k].folder}
    <3>1. selection[k] \in found
      BY <2>3 DEF ToSet, ArchiveInv, SinkOk
    <3>2. ASSUME NEW x \in found PROVE x = selection[k]
      <4>1. PICK l \in DOMAIN selection : x = selection[l] /\ selection[l].folder = sink[k].folder
        BY DEF ToSet
      <4>2. l = k
        BY <2>3, <4>1 DEF ArchiveInv, SinkOk, SelectionOk
      <4> QED BY <4>1, <4>2
    <3> HIDE DEF found
    <3>3. Only(found) \in found
      BY <3>1 DEF Only
    <3> QED BY <3>2, <3>3 DEF found
  <2>5. \A k \in DOMAIN sink :
          LET s == Only({x \in ToSet(selection) : x.folder = sink[k].folder})
          IN /\ sink[k].ended => /\ sink[k].messages = listed[s.messages].crc.records
                                 /\ sink[k].header = listed[s.entry].crc
             /\ k < Len(sink) => sink[k].ended
    BY <2>4 DEF ArchiveInv, SinkOk
  <2>6. \A k, l \in DOMAIN sink : k # l => sink[k].folder # sink[l].folder
    BY <2>3 DEF ArchiveInv, SinkOk, SelectionOk
  <2>7. stage = "visited" => /\ Len(sink) = Len(selection)
                             /\ \A k \in DOMAIN sink : sink[k].ended
    BY DEF ArchiveInv, StagesOk, AllEnded
  <2> QED BY <2>1, <2>5, <2>6, <2>7 DEF CompletedIsInspected
<1> QED BY <1>1, ArchiveInductive, PTL
-----------------------------------------------------------------------------
(* The migration of an earlier store: what it was never changes, and what   *)
(* it became is what Migrate makes of it.                                   *)

MigrationInv ==
  /\ earlier.jobs \in LegacyJobs
  /\ migrated \in {NothingMigrated, Migrate(earlier.plans, earlier.jobs)}

LEMMA SafeCodesAre ==
  ASSUME NEW codes, DOMAIN codes = 1..Len(codes), Len(codes) \in Nat
  PROVE  /\ IsList(SafeCodes(codes)) /\ Len(SafeCodes(codes)) <= Len(codes)
         /\ ToSet(SafeCodes(codes)) = {codes[n].name : n \in Safe(codes)}
<1> DEFINE S == Safe(codes)
           N == Cardinality(S)
<1>1. IsFiniteSet(S) /\ N \in Nat /\ S \in SUBSET Int /\ N <= Len(codes)
  <2>1. IsFiniteSet(1..Len(codes)) /\ Cardinality(1..Len(codes)) = Len(codes)
    <3>1. 1 \in Int /\ Len(codes) \in Int
      OBVIOUS
    <3>2. /\ IsFiniteSet(1..Len(codes))
          /\ Cardinality(1..Len(codes)) = IF 1 > Len(codes) THEN 0 ELSE Len(codes) - 1 + 1
      BY <3>1, FS_Interval
    <3> QED BY <3>2
  <2>2. S \in SUBSET (1..Len(codes)) /\ S \in SUBSET Int
    BY DEF Safe
  <2>3. IsFiniteSet(S) /\ N <= Len(codes)
    BY <2>1, <2>2, FS_Subset
  <2> QED BY <2>2, <2>3, FS_CardinalityType
<1>2. \E s \in [1..N -> S] : ToSet(s) = S /\ \A k, l \in DOMAIN s : k < l => s[k] < s[l]
  <2>1. PICK s \in [1..N -> S] : Ascending(s) /\ ToSet(s) = S
    BY <1>1, Ordered
  <2> QED BY <2>1 DEF Ascending
<1> DEFINE places == CHOOSE s \in [1..N -> S] :
                       ToSet(s) = S /\ \A k, l \in DOMAIN s : k < l => s[k] < s[l]
<1>3. places \in [1..N -> S] /\ ToSet(places) = S
  BY <1>2
<1>4. SafeCodes(codes) = [k \in 1..N |-> codes[places[k]].name]
  BY DEF SafeCodes
<1> HIDE DEF S, N, places
<1>5. IsList(SafeCodes(codes)) /\ Len(SafeCodes(codes)) = N
  BY <1>1, <1>4, ListOf
<1>6. ToSet(SafeCodes(codes)) = {codes[n].name : n \in S}
  <2>1. S = {places[k] : k \in 1..N}
    BY <1>3 DEF ToSet
  <2> QED BY <1>4, <2>1 DEF ToSet
<1> QED BY <1>1, <1>5, <1>6 DEF S

(* What the history says of a job.                                          *)
LEMMA HistorySays ==
  ASSUME NEW was, DOMAIN was.codes = 1..Len(was.codes), Len(was.codes) \in Nat, was.deleted \in Nat,
         was.status \in {"queued", "running", "completed", "partial", "failed", "cancelled"}
  PROVE  LET entry == HistoryOf(was)
         IN /\ entry.id = was.id /\ entry.deleted = was.deleted /\ ~entry.executable
            /\ entry.plan = was.plan /\ entry.created = was.created /\ entry.updated = was.updated
            /\ entry.status \in {"completed", "partial", "failed", "cancelled"}
            /\ was.status \in Unfinished =>
                 /\ Review \in ToSet(entry.diagnostics)
                 /\ (entry.status = "partial") = (was.deleted > 0)
                 /\ entry.status \in {"failed", "partial"}
            /\ was.status \notin Unfinished =>
                 /\ entry.status = was.status /\ Len(entry.diagnostics) <= Len(was.codes)
                 /\ Review \in ToSet(entry.diagnostics) => \E n \in DOMAIN was.codes : was.codes[n].name = Review
<1> DEFINE understood == SafeCodes(was.codes)
<1>1. /\ IsList(understood) /\ Len(understood) <= Len(was.codes)
      /\ ToSet(understood) = {was.codes[n].name : n \in Safe(was.codes)}
  BY SafeCodesAre
<1> HIDE DEF understood
<1>2. was.status \in Unfinished => Review \in ToSet(Diagnostics(was))
  <2> SUFFICES ASSUME was.status \in Unfinished, Review \notin ToSet(understood)
               PROVE  Review \in ToSet(Diagnostics(was))
    BY DEF Diagnostics, understood
  <2>1. Diagnostics(was) = Append(understood, Review)
    BY DEF Diagnostics, understood
  <2>2. DOMAIN Append(understood, Review) = 1..(Len(understood) + 1) /\ Append(understood, Review)[Len(understood) + 1] = Review
    BY <1>1, ListAppended
  <2>3. Len(understood) + 1 \in 1..(Len(understood) + 1)
    BY <1>1, ListFacts
  <2> QED BY <2>1, <2>2, <2>3 DEF ToSet
<1>3. was.status \notin Unfinished => Diagnostics(was) = understood
  BY DEF Diagnostics, understood
<1>4. Review \in ToSet(understood) => \E n \in DOMAIN was.codes : was.codes[n].name = Review
  BY <1>1 DEF Safe
<1>5. /\ TerminalStatus(was) \in {"completed", "partial", "failed", "cancelled"}
      /\ was.status \in Unfinished => /\ (TerminalStatus(was) = "partial") = (was.deleted > 0)
                                      /\ TerminalStatus(was) \in {"failed", "partial"}
      /\ was.status \notin Unfinished => TerminalStatus(was) = was.status
  BY DEF TerminalStatus, Unfinished
<1> QED BY <1>1, <1>2, <1>3, <1>4, <1>5 DEF HistoryOf

LEMMA MigratedIsKept ==
  ASSUME MigrationInv, migrated.result = "migrated"
  PROVE  /\ Len(migrated.history) = Len(earlier.jobs)
         /\ \A was \in ToSet(earlier.jobs) : Cardinality(
               {n \in DOMAIN migrated.history :
                  LET entry == migrated.history[n]
                  IN /\ entry.id = was.id /\ entry.deleted = was.deleted /\ ~entry.executable
                     /\ entry.status \in {"completed", "partial", "failed", "cancelled"}
                     /\ was.status \in Unfinished =>
                          /\ Review \in ToSet(entry.diagnostics)
                          /\ (entry.status = "partial") = (was.deleted > 0)
                     /\ was.status \notin Unfinished =>
                          entry.status = was.status /\ Len(entry.diagnostics) <= Len(was.codes)}) = 1
<1> DEFINE jobs == earlier.jobs
           history == [n \in DOMAIN jobs |-> HistoryOf(jobs[n])]
           Tells(was, entry) ==
             /\ entry.id = was.id /\ entry.deleted = was.deleted /\ ~entry.executable
             /\ entry.status \in {"completed", "partial", "failed", "cancelled"}
             /\ was.status \in Unfinished =>
                  /\ Review \in ToSet(entry.diagnostics)
                  /\ (entry.status = "partial") = (was.deleted > 0)
             /\ was.status \notin Unfinished =>
                  entry.status = was.status /\ Len(entry.diagnostics) <= Len(was.codes)
<1>1. SoundJobs(earlier.plans, jobs) /\ migrated.history = history
  BY DEF MigrationInv, Migrate, NothingMigrated, Refused
<1>2. /\ DOMAIN jobs = 1..Len(jobs) /\ Len(jobs) \in Nat
      /\ \A n \in DOMAIN jobs :
           /\ jobs[n].status \in {"queued", "running", "completed", "partial", "failed", "cancelled"}
           /\ jobs[n].deleted \in Nat /\ jobs[n].created \in Int /\ jobs[n].updated \in Int
           /\ DOMAIN jobs[n].codes = 1..Len(jobs[n].codes) /\ Len(jobs[n].codes) \in Nat
  BY LegacyMigrationAssumption DEF MigrationInv
<1>3. Len(history) = Len(jobs) /\ DOMAIN history = DOMAIN jobs /\ \A n \in DOMAIN jobs : history[n] = HistoryOf(jobs[n])
  BY <1>2, ListOf
<1>4. \A n \in DOMAIN jobs : Tells(jobs[n], history[n]) /\ history[n].id = jobs[n].id
  BY <1>2, <1>3, HistorySays
<1>5. \A n, m \in DOMAIN jobs : jobs[n].id = jobs[m].id => n = m
  BY <1>1 DEF SoundJobs, Distinct, IsInjective
<1> HIDE DEF Tells, history
<1>6. ASSUME NEW m \in DOMAIN jobs
      PROVE  Cardinality({n \in DOMAIN history : Tells(jobs[m], history[n])}) = 1
  <2>1. \A n \in DOMAIN history : Tells(jobs[m], history[n]) => history[n].id = jobs[m].id
    BY DEF Tells
  <2>2. {n \in DOMAIN history : Tells(jobs[m], history[n])} = {m}
    BY <1>3, <1>4, <1>5, <2>1
  <2> QED BY <2>2, FS_Singleton
<1>7. \A was \in ToSet(jobs) : Cardinality({n \in DOMAIN history : Tells(was, history[n])}) = 1
  BY <1>6 DEF ToSet
<1> QED BY <1>1, <1>3, <1>7 DEF Tells

LEMMA RefusedForCause ==
  ASSUME MigrationInv, migrated.result = "refused"
  PROVE  \/ \E n, k \in DOMAIN earlier.plans : n # k /\ earlier.plans[n].id = earlier.plans[k].id
         \/ \E n, k \in DOMAIN earlier.jobs : n # k /\ earlier.jobs[n].id = earlier.jobs[k].id
         \/ \E p \in ToSet(earlier.plans) : p.id = 0
         \/ \E was \in ToSet(earlier.jobs) :
               \/ was.id = 0 \/ was.updated < was.created
               \/ \A p \in ToSet(earlier.plans) : <<p.id, p.operation>> # <<was.plan, was.operation>>
               \/ was.status \in {"completed", "cancelled"} /\ \E n \in DOMAIN was.codes : was.codes[n].name = Review
<1> DEFINE jobs == earlier.jobs
           history == [n \in DOMAIN jobs |-> HistoryOf(jobs[n])]
<1>1. ~SoundPlans(earlier.plans) \/ ~SoundJobs(earlier.plans, jobs) \/ ~ValidHistory(history)
  BY DEF MigrationInv, Migrate, NothingMigrated, Refused
<1>2. \A n \in DOMAIN jobs :
        /\ jobs[n].status \in {"queued", "running", "completed", "partial", "failed", "cancelled"}
        /\ jobs[n].deleted \in Nat /\ jobs[n].created \in Int /\ jobs[n].updated \in Int
        /\ DOMAIN jobs[n].codes = 1..Len(jobs[n].codes) /\ Len(jobs[n].codes) \in Nat
  BY LegacyMigrationAssumption DEF MigrationInv
<1>3. CASE ~SoundPlans(earlier.plans)
  <2>1. CASE ~Distinct(earlier.plans)
    BY <2>1 DEF Distinct, IsInjective
  <2>2. CASE \E n \in DOMAIN earlier.plans : earlier.plans[n].id = 0
    BY <2>2 DEF ToSet
  <2> QED BY <1>3, <2>1, <2>2 DEF SoundPlans
<1>4. CASE ~SoundJobs(earlier.plans, jobs)
  <2>1. CASE ~Distinct(jobs)
    BY <2>1 DEF Distinct, IsInjective
  <2>2. ASSUME NEW n \in DOMAIN jobs,
               ~(/\ jobs[n].id # 0 /\ jobs[n].plan # 0 /\ jobs[n].updated >= jobs[n].created
                 /\ \E p \in ToSet(earlier.plans) : p.id = jobs[n].plan /\ p.operation = jobs[n].operation)
        PROVE  \/ \E p \in ToSet(earlier.plans) : p.id = 0
               \/ jobs[n].id = 0 \/ jobs[n].updated < jobs[n].created
               \/ \A p \in ToSet(earlier.plans) : <<p.id, p.operation>> # <<jobs[n].plan, jobs[n].operation>>
    <3>1. jobs[n].updated >= jobs[n].created \/ jobs[n].updated < jobs[n].created
      BY <1>2
    <3> QED BY <2>2, <3>1
  <2> QED BY <1>4, <2>1, <2>2 DEF SoundJobs, ToSet
<1>5. CASE SoundJobs(earlier.plans, jobs) /\ ~ValidHistory(history)
  <2>1. \A n \in DOMAIN jobs :
          LET entry == HistoryOf(jobs[n]) IN
            /\ history[n] = entry /\ entry.id = jobs[n].id /\ entry.plan = jobs[n].plan /\ ~entry.executable
            /\ entry.created = jobs[n].created /\ entry.updated = jobs[n].updated
    BY <1>2, HistorySays
  <2>2. DOMAIN history = DOMAIN jobs
    OBVIOUS
  <2> HIDE DEF history
  <2>3. Distinct(history)
    <3>1. \A n, k \in DOMAIN jobs : jobs[n].id = jobs[k].id => n = k
      BY <1>5 DEF SoundJobs, Distinct, IsInjective
    <3>2. \A n, k \in DOMAIN history : history[n].id = history[k].id => n = k
      BY <2>1, <2>2, <3>1
    <3> QED BY <3>2 DEF Distinct, IsInjective
  <2>4. PICK n \in DOMAIN jobs : Review \in ToSet(history[n].diagnostics) /\ history[n].status \notin {"failed", "partial"}
    BY <1>5, <2>1, <2>2, <2>3 DEF SoundJobs, ValidHistory
  <2>5. /\ HistoryOf(jobs[n]).status \in {"completed", "partial", "failed", "cancelled"}
        /\ jobs[n].status \in Unfinished => HistoryOf(jobs[n]).status \in {"failed", "partial"}
        /\ jobs[n].status \notin Unfinished =>
             /\ HistoryOf(jobs[n]).status = jobs[n].status
             /\ Review \in ToSet(HistoryOf(jobs[n]).diagnostics) =>
                  \E k \in DOMAIN jobs[n].codes : jobs[n].codes[k].name = Review
    BY <1>2, HistorySays
  <2>6. jobs[n].status \in {"completed", "cancelled"} /\ \E k \in DOMAIN jobs[n].codes : jobs[n].codes[k].name = Review
    BY <2>1, <2>4, <2>5
  <2> QED BY <2>6 DEF ToSet
<1> QED BY <1>1, <1>3, <1>4, <1>5

(* A migrated history is the earlier store's, job by job, and a refused     *)
(* store contradicts itself (migration.rs: migrate_legacy).                 *)
THEOREM MigrationIsFaithful == MigrationSpec => []MigrationKeepsHistory
<1>1. MigrationInit => MigrationInv
  BY DEF MigrationInit, MigrationInv, NothingMigrated
<1>2. MigrationInv /\ [MigrationNext]_migrationVars => MigrationInv'
  BY DEF MigrationInv, MigrationNext, migrationVars
<1>3. MigrationInv => MigrationKeepsHistory
  <2> SUFFICES ASSUME MigrationInv PROVE MigrationKeepsHistory
    OBVIOUS
  <2>1. migrated.result = "migrated" \/ migrated.result # "migrated"
    OBVIOUS
  <2> QED BY MigratedIsKept, RefusedForCause DEF MigrationKeepsHistory
<1> QED BY <1>1, <1>2, <1>3, PTL DEF MigrationSpec
-----------------------------------------------------------------------------
(* Telegram planning.  Batches b cut the set S of messages into pieces of   *)
(* one chat each, none empty and none larger than a batch may be.           *)
Cut(b, S) ==
  /\ IsList(b)
  /\ \A n \in DOMAIN b : /\ IsList(b[n]) /\ Len(b[n]) \in 1..BatchSize
                         /\ \E c : \A k \in DOMAIN b[n] : b[n][k][1] = c
  /\ \A n, l \in DOMAIN b : n # l => ToSet(b[n]) \cap ToSet(b[l]) = {}
  /\ UNION {ToSet(b[n]) : n \in DOMAIN b} = S

LEMMA CutNothing == Cut(<<>>, {})
BY EmptyList DEF Cut

LEMMA CutJoined ==
  ASSUME NEW a, NEW b, NEW S, NEW T, Cut(a, S), Cut(b, T), S \cap T = {}
  PROVE  Cut(a \o b, S \cup T)
<1> DEFINE ab == a \o b
<1>1. Len(a) \in Nat /\ DOMAIN a = 1..Len(a) /\ Len(b) \in Nat /\ DOMAIN b = 1..Len(b) /\ IsList(a) /\ IsList(b)
  BY ListFacts DEF Cut
<1>2. /\ IsList(ab) /\ DOMAIN ab = 1..(Len(a) + Len(b))
      /\ \A i \in 1..Len(a) : ab[i] = a[i]
      /\ \A i \in 1..Len(b) : ab[Len(a) + i] = b[i]
  BY <1>1, ListJoined
<1> HIDE DEF ab
<1>3. \A n \in DOMAIN ab : (n \in DOMAIN a /\ ab[n] = a[n]) \/ (n - Len(a) \in DOMAIN b /\ ab[n] = b[n - Len(a)])
  <2> SUFFICES ASSUME NEW n \in DOMAIN ab
               PROVE  (n \in DOMAIN a /\ ab[n] = a[n]) \/ (n - Len(a) \in DOMAIN b /\ ab[n] = b[n - Len(a)])
    OBVIOUS
  <2>1. CASE n \in 1..Len(a)
    BY <1>1, <1>2, <2>1
  <2>2. CASE n \notin 1..Len(a)
    <3>1. n - Len(a) \in 1..Len(b) /\ Len(a) + (n - Len(a)) = n
      BY <1>1, <1>2, <2>2
    <3>2. ab[Len(a) + (n - Len(a))] = b[n - Len(a)]
      BY <1>2, <3>1
    <3> QED BY <1>1, <3>1, <3>2
  <2> QED BY <2>1, <2>2
<1>4. /\ \A n \in DOMAIN a : n \in DOMAIN ab /\ ab[n] = a[n]
      /\ \A n \in DOMAIN b : Len(a) + n \in DOMAIN ab /\ ab[Len(a) + n] = b[n]
  BY <1>1, <1>2
<1>5. /\ \A n \in DOMAIN a : ToSet(a[n]) \subseteq S
      /\ \A n \in DOMAIN b : ToSet(b[n]) \subseteq T
  BY DEF Cut
<1>6. \A n \in DOMAIN ab : /\ IsList(ab[n]) /\ Len(ab[n]) \in 1..BatchSize
                           /\ \E c : \A k \in DOMAIN ab[n] : ab[n][k][1] = c
  <2> SUFFICES ASSUME NEW n \in DOMAIN ab
               PROVE  /\ IsList(ab[n]) /\ Len(ab[n]) \in 1..BatchSize
                      /\ \E c : \A k \in DOMAIN ab[n] : ab[n][k][1] = c
    OBVIOUS
  <2> DEFINE Piece(l) == /\ IsList(l) /\ Len(l) \in 1..BatchSize
                         /\ \E c : \A k \in DOMAIN l : l[k][1] = c
  <2>1. /\ \A m \in DOMAIN a : Piece(a[m])
        /\ \A m \in DOMAIN b : Piece(b[m])
    BY DEF Cut
  <2> HIDE DEF Piece
  <2>2. Piece(ab[n])
    BY <1>3, <2>1
  <2> QED BY <2>2 DEF Piece
<1>7. ASSUME NEW n \in DOMAIN ab, NEW l \in DOMAIN ab, n # l PROVE ToSet(ab[n]) \cap ToSet(ab[l]) = {}
  <2>1. CASE n \in DOMAIN a /\ ab[n] = a[n]
    <3>1. CASE l \in DOMAIN a /\ ab[l] = a[l]
      BY <1>7, <2>1, <3>1 DEF Cut
    <3>2. CASE l - Len(a) \in DOMAIN b /\ ab[l] = b[l - Len(a)]
      BY <1>5, <2>1, <3>2
    <3> QED BY <1>3, <3>1, <3>2
  <2>2. CASE n - Len(a) \in DOMAIN b /\ ab[n] = b[n - Len(a)]
    <3>1. CASE l \in DOMAIN a /\ ab[l] = a[l]
      BY <1>5, <2>2, <3>1
    <3>2. CASE l - Len(a) \in DOMAIN b /\ ab[l] = b[l - Len(a)]
      <4>1. n - Len(a) # l - Len(a)
        BY <1>1, <1>2, <1>7
      <4> QED BY <2>2, <3>2, <4>1 DEF Cut
    <3> QED BY <1>3, <3>1, <3>2
  <2> QED BY <1>3, <2>1, <2>2
<1>8. UNION {ToSet(ab[n]) : n \in DOMAIN ab} = S \cup T
  <2>1. ASSUME NEW x \in S \cup T PROVE \E n \in DOMAIN ab : x \in ToSet(ab[n])
    <3>1. CASE x \in S
      <4>1. PICK n \in DOMAIN a : x \in ToSet(a[n])
        BY <3>1 DEF Cut
      <4> QED BY <1>4, <4>1
    <3>2. CASE x \in T
      <4>1. PICK n \in DOMAIN b : x \in ToSet(b[n])
        BY <3>2 DEF Cut
      <4> QED BY <1>4, <4>1
    <3> QED BY <3>1, <3>2
  <2>2. \A n \in DOMAIN ab : ToSet(ab[n]) \subseteq S \cup T
    BY <1>3, <1>5
  <2> QED BY <2>1, <2>2
<1> QED BY <1>2, <1>6, <1>7, <1>8 DEF Cut, ab

(* Where a place of a list falls when it is cut into pieces of a size.      *)
LEMMA PieceOf ==
  ASSUME NEW B \in Nat \ {0}, NEW i \in Nat \ {0}
  PROVE  LET k == (i + B - 1) \div B
         IN k \in Nat /\ 1 <= k /\ (k - 1) * B + 1 <= i /\ i <= k * B
<1> DEFINE k == (i + B - 1) \div B
<1>1. k \in Int /\ k * B <= i + B - 1 /\ i + B - 1 < k * B + B
  <2>1. i + B - 1 \in Int /\ B \in Int /\ B > 0
    OBVIOUS
  <2>2. k \in Int /\ i + B - 1 = B * k + ((i + B - 1) % B) /\ (i + B - 1) % B \in 0..(B - 1)
    BY <2>1
  <2> QED BY <2>2
<1> HIDE DEF k
<1>2. (k - 1) * B = k * B - B
  BY <1>1
<1>3. k >= 1
  <2> SUFFICES ASSUME k <= 0 PROVE FALSE
    BY <1>1
  <2>1. k * B <= 0
    BY <1>1
  <2> QED BY <1>1, <2>1
<1> QED BY <1>1, <1>2, <1>3 DEF k

LEMMA PiecesInOrder ==
  ASSUME NEW B \in Nat \ {0}, NEW k \in Int, NEW l \in Int, k < l
  PROVE  k * B <= (l - 1) * B
OBVIOUS

LEMMA CutChunks ==
  ASSUME NEW list, IsList(list), \A i, j \in DOMAIN list : list[i] = list[j] => i = j,
         NEW c, \A i \in DOMAIN list : list[i][1] = c
  PROVE  Cut(ChunksOf(list), ToSet(list))
<1> DEFINE B == BatchSize
           L == Len(list)
           N == (L + B - 1) \div B
           first(k) == (k - 1) * B + 1
           last(k) == IF k * B < L THEN k * B ELSE L
           chunks == ChunksOf(list)
<1>1. L \in Nat /\ DOMAIN list = 1..L /\ B \in Nat \ {0}
  BY ListFacts, TelegramPlanningAssumption
<1>2. chunks = [k \in 1..N |-> SubSeq(list, first(k), last(k))]
  BY DEF ChunksOf
<1> HIDE DEF B, L, chunks
<1>3. N \in Nat /\ N * B <= L + B - 1 /\ L <= N * B
  <2>1. CASE L = 0
    <3>1. L + B - 1 = B - 1 /\ B - 1 < B /\ B - 1 \in Nat
      BY <1>1, <2>1
    <3>2. (B - 1) \div B = 0
      BY <1>1
    <3> QED BY <1>1, <2>1, <3>1, <3>2
  <2>2. CASE L # 0
    <3>1. L \in Nat \ {0}
      BY <1>1, <2>2
    <3>2. N \in Nat /\ 1 <= N /\ (N - 1) * B + 1 <= L /\ L <= N * B
      BY <1>1, <3>1, PieceOf
    <3> HIDE DEF N
    <3>3. (N - 1) * B = N * B - B
      BY <1>1, <3>2
    <3> QED BY <1>1, <3>2, <3>3
  <2> QED BY <2>1, <2>2
<1> HIDE DEF N
<1>4. ASSUME NEW k \in 1..N
      PROVE  /\ first(k) \in 1..L /\ last(k) \in 1..L /\ first(k) <= last(k) /\ last(k) <= k * B
             /\ last(k) - first(k) + 1 \in 1..B /\ k * B \in Nat /\ (k - 1) * B \in Nat
             /\ k * B = (k - 1) * B + B
  <2>1. k * B \in Nat /\ (k - 1) * B \in Nat /\ k * B = (k - 1) * B + B
    BY <1>1, <1>3
  <2>2. (k - 1) * B <= (N - 1) * B /\ (N - 1) * B = N * B - B
    <3>1. k = N \/ k < N
      BY <1>3
    <3>2. (k - 1) * B <= (N - 1) * B
      BY <1>1, <1>3, <3>1, PiecesInOrder, <2>1
    <3> QED BY <1>1, <1>3, <3>2
  <2>3. (k - 1) * B <= L - 1
    BY <1>1, <1>3, <2>1, <2>2
  <2> QED BY <1>1, <2>1, <2>3
<1> HIDE DEF first, last
<1>5. \A k \in 1..N : first(k) \in 1..L /\ last(k) \in 1..L /\ first(k) <= last(k)
  BY <1>4
<1>6. ASSUME NEW k \in 1..N
      PROVE  /\ IsList(chunks[k]) /\ Len(chunks[k]) \in 1..B /\ DOMAIN chunks[k] = 1..Len(chunks[k])
             /\ \A m \in DOMAIN chunks[k] : first(k) + m - 1 \in first(k)..last(k) /\ chunks[k][m] = list[first(k) + m - 1]
             /\ \A i \in first(k)..last(k) : i - first(k) + 1 \in DOMAIN chunks[k] /\ chunks[k][i - first(k) + 1] = list[i]
  <2>1. first(k) \in 1..(Len(list) + 1) /\ last(k) \in 0..Len(list) /\ first(k) <= last(k) + 1
    BY <1>1, <1>5 DEF L
  <2>2. /\ IsList(chunks[k]) /\ Len(chunks[k]) = last(k) - first(k) + 1
        /\ \A i \in 1..(last(k) - first(k) + 1) : chunks[k][i] = list[first(k) + i - 1]
    BY <1>2, <2>1, ListCut
  <2>3. DOMAIN chunks[k] = 1..(last(k) - first(k) + 1)
    BY <2>2, ListFacts
  <2>4. first(k) \in Nat /\ last(k) \in Nat
    BY <1>1, <1>5
  <2>5. \A m \in DOMAIN chunks[k] : first(k) + m - 1 \in first(k)..last(k) /\ chunks[k][m] = list[first(k) + m - 1]
    BY <2>2, <2>3, <2>4
  <2>6. ASSUME NEW i \in first(k)..last(k)
        PROVE  i - first(k) + 1 \in DOMAIN chunks[k] /\ chunks[k][i - first(k) + 1] = list[i]
    <3>1. i - first(k) + 1 \in 1..(last(k) - first(k) + 1) /\ first(k) + (i - first(k) + 1) - 1 = i
      BY <2>4
    <3>2. chunks[k][i - first(k) + 1] = list[first(k) + (i - first(k) + 1) - 1]
      BY <2>2, <3>1
    <3> QED BY <2>3, <3>1, <3>2
  <2> QED BY <1>4, <2>2, <2>3, <2>5, <2>6
<1>7. IsList(chunks) /\ DOMAIN chunks = 1..N
  BY <1>2, <1>3, ListOf
<1>8. \A k \in 1..N : ToSet(chunks[k]) = {list[i] : i \in first(k)..last(k)}
  <2> SUFFICES ASSUME NEW k \in 1..N
               PROVE  ToSet(chunks[k]) = {list[i] : i \in first(k)..last(k)}
    OBVIOUS
  <2>1. ASSUME NEW m \in DOMAIN chunks[k]
        PROVE  chunks[k][m] \in {list[i] : i \in first(k)..last(k)}
    <3>1. first(k) + m - 1 \in first(k)..last(k) /\ chunks[k][m] = list[first(k) + m - 1]
      BY <1>6
    <3> QED BY <3>1
  <2>2. ASSUME NEW i \in first(k)..last(k)
        PROVE  \E m \in DOMAIN chunks[k] : chunks[k][m] = list[i]
    BY <1>6
  <2> QED BY <2>1, <2>2 DEF ToSet
<1>9. ASSUME NEW k \in 1..N PROVE \A m \in DOMAIN chunks[k] : chunks[k][m][1] = c
  <2>1. \A i \in first(k)..last(k) : i \in DOMAIN list
    BY <1>1, <1>5
  <2> QED BY <1>6, <2>1
<1>10. ASSUME NEW k \in 1..N, NEW l \in 1..N, k < l PROVE ToSet(chunks[k]) \cap ToSet(chunks[l]) = {}
  <2>1. last(k) < first(l)
    <3>1. k * B <= (l - 1) * B
      BY <1>1, <1>10, PiecesInOrder
    <3>2. last(k) <= k * B /\ first(l) = (l - 1) * B + 1 /\ k * B \in Nat /\ (l - 1) * B \in Nat
      BY <1>4 DEF first
    <3> QED BY <1>5, <3>1, <3>2
  <2>2. ASSUME NEW i \in first(k)..last(k), NEW j \in first(l)..last(l) PROVE list[i] # list[j]
    <3>1. i \in DOMAIN list /\ j \in DOMAIN list /\ i # j
      BY <1>1, <1>5, <2>1
    <3> QED BY <3>1
  <2> QED BY <1>8, <2>2
<1>11. \A k, l \in DOMAIN chunks : k # l => ToSet(chunks[k]) \cap ToSet(chunks[l]) = {}
  <2> SUFFICES ASSUME NEW k \in 1..N, NEW l \in 1..N, k # l PROVE ToSet(chunks[k]) \cap ToSet(chunks[l]) = {}
    BY <1>7
  <2>1. k < l \/ l < k
    OBVIOUS
  <2> QED BY <1>10, <2>1
<1>12. UNION {ToSet(chunks[k]) : k \in DOMAIN chunks} = ToSet(list)
  <2>1. ASSUME NEW i \in DOMAIN list PROVE \E k \in 1..N : i \in first(k)..last(k)
    <3> DEFINE k == (i + B - 1) \div B
    <3>0. i \in Nat \ {0}
      BY <1>1
    <3>1. k \in Nat /\ 1 <= k /\ (k - 1) * B + 1 <= i /\ i <= k * B
      BY <1>1, <3>0, PieceOf
    <3> HIDE DEF k
    <3>2. k <= N
      <4> SUFFICES ASSUME N < k PROVE FALSE
        BY <1>3, <3>1
      <4>1. N * B <= (k - 1) * B
        BY <1>1, <1>3, <3>1, PiecesInOrder
      <4>2. N * B \in Nat /\ (k - 1) * B \in Nat
        BY <1>1, <1>3, <3>1
      <4> QED BY <1>1, <1>3, <3>0, <3>1, <4>1, <4>2
    <3>3. i \in first(k)..last(k)
      <4>1. (k - 1) * B \in Nat /\ k * B \in Nat
        BY <1>1, <3>1
      <4> QED BY <1>1, <3>1, <4>1 DEF first, last
    <3> QED BY <1>3, <3>1, <3>2, <3>3
  <2>2. \A k \in 1..N : \A i \in first(k)..last(k) : i \in DOMAIN list
    BY <1>1, <1>5
  <2>3. ToSet(list) = {list[i] : i \in DOMAIN list}
    BY DEF ToSet
  <2>4. ASSUME NEW x \in ToSet(list) PROVE \E k \in 1..N : x \in ToSet(chunks[k])
    BY <1>8, <2>1, <2>3
  <2>5. ASSUME NEW k \in 1..N PROVE ToSet(chunks[k]) \subseteq ToSet(list)
    BY <1>8, <2>2, <2>3
  <2> QED BY <1>7, <2>4, <2>5
<1> QED BY <1>6, <1>7, <1>9, <1>11, <1>12 DEF Cut, chunks, B

(* The concatenation of a list of lists, as FlattenSeq makes it.            *)
Flattens(f, lists, n) == f = [i \in 1..n |-> IF i = 1 THEN lists[i] ELSE f[i - 1] \o lists[i]]

LEMMA FlattensExists ==
  ASSUME NEW lists, NEW m \in Nat
  PROVE  \E f : Flattens(f, lists, m)
<1> DEFINE P(n) == \E f : Flattens(f, lists, n)
           Wrong == {n \in Nat : ~P(n)}
<1> SUFFICES ASSUME Wrong # {} PROVE FALSE
  OBVIOUS
<1>1. PICK n \in Wrong : \A k \in Wrong : n <= k
  BY LeastNatural
<1>2. P(0)
  <2>1. Flattens(<<>>, lists, 0)
    BY DEF Flattens
  <2> QED BY <2>1
<1>3. n \in Nat /\ n # 0 /\ n - 1 \in Nat /\ P(n - 1) /\ ~P(n)
  BY <1>1, <1>2
<1>4. PICK f : Flattens(f, lists, n - 1)
  BY <1>3
<1> DEFINE g == [i \in 1..n |-> IF i \in 1..(n - 1) THEN f[i]
                                ELSE IF i = 1 THEN lists[i] ELSE f[i - 1] \o lists[i]]
<1>5. \A i \in 1..(n - 1) : f[i] = IF i = 1 THEN lists[i] ELSE f[i - 1] \o lists[i]
  BY <1>4 DEF Flattens
<1>6. \A i \in 1..n : g[i] = IF i = 1 THEN lists[i] ELSE g[i - 1] \o lists[i]
  <2> SUFFICES ASSUME NEW i \in 1..n PROVE g[i] = IF i = 1 THEN lists[i] ELSE g[i - 1] \o lists[i]
    OBVIOUS
  <2>1. CASE i = 1
    BY <1>5, <2>1
  <2>2. CASE i # 1
    <3>1. i - 1 \in 1..(n - 1) /\ i - 1 \in 1..n
      BY <1>3, <2>2
    <3>2. g[i - 1] = f[i - 1]
      BY <3>1
    <3>3. i \in 1..(n - 1) \/ i = n
      BY <1>3
    <3>4. n \notin 1..(n - 1)
      BY <1>3
    <3>5. CASE i \in 1..(n - 1)
      <4>1. g[i] = f[i]
        BY <3>5
      <4> QED BY <1>5, <2>2, <3>2, <3>5, <4>1
    <3>6. CASE i = n
      <4>1. g[i] = f[i - 1] \o lists[i]
        BY <2>2, <3>4, <3>6
      <4> QED BY <2>2, <3>2, <4>1
    <3> QED BY <3>3, <3>5, <3>6
  <2> QED BY <2>1, <2>2
<1>7. Flattens(g, lists, n)
  <2>1. DOMAIN g = 1..n /\ g = [i \in 1..n |-> g[i]]
    OBVIOUS
  <2> HIDE DEF g
  <2> QED BY <1>6, <2>1 DEF Flattens
<1> QED BY <1>3, <1>7

LEMMA FlattenSeqIs ==
  ASSUME NEW lists, IsList(lists), lists # <<>>
  PROVE  \E f : Flattens(f, lists, Len(lists)) /\ FlattenSeq(lists) = f[Len(lists)]
<1> DEFINE Is(f) == f = [i \in 1..Len(lists) |-> IF i = 1 THEN lists[i] ELSE f[i - 1] \o lists[i]]
           g == CHOOSE f : Is(f)
<1>1. Len(lists) \in Nat /\ Len(lists) # 0
  BY ListFacts, NoneInList
<1>2. \E f : Is(f)
  BY <1>1, FlattensExists DEF Flattens
<1>3. Is(g)
  BY <1>2
<1>4. FlattenSeq(lists) = g[Len(lists)]
  BY <1>1 DEF FlattenSeq
<1> HIDE DEF g
<1> QED BY <1>3, <1>4 DEF Flattens

(* Lists that each cut a part of their own cut the whole, one after another.*)
LEMMA CutFlattened ==
  ASSUME NEW lists, IsList(lists), NEW S,
         \A n \in DOMAIN lists : Cut(lists[n], S[n]),
         \A n, l \in DOMAIN lists : n # l => S[n] \cap S[l] = {}
  PROVE  Cut(FlattenSeq(lists), UNION {S[n] : n \in DOMAIN lists})
<1> DEFINE N == Len(lists)
<1>1. N \in Nat /\ DOMAIN lists = 1..N
  BY ListFacts
<1>2. CASE lists = <<>>
  <2>1. FlattenSeq(lists) = <<>> /\ DOMAIN lists = {}
    BY <1>2, EmptyList DEF FlattenSeq
  <2>2. UNION {S[n] : n \in DOMAIN lists} = {}
    BY <2>1
  <2> QED BY <2>1, <2>2, CutNothing
<1>3. CASE lists # <<>>
  <2>1. PICK f : Flattens(f, lists, N) /\ FlattenSeq(lists) = f[N]
    BY <1>3, FlattenSeqIs
  <2>2. N # 0
    BY <1>3, NoneInList
  <2>3. \A i \in 1..N : f[i] = IF i = 1 THEN lists[i] ELSE f[i - 1] \o lists[i]
    BY <2>1 DEF Flattens
  <2> DEFINE Part(n) == UNION {S[i] : i \in 1..n}
             Wrong == {n \in Nat : n \in 1..N /\ ~Cut(f[n], Part(n))}
  <2> HIDE DEF N
  <2>4. Wrong = {}
    <3> SUFFICES ASSUME Wrong # {} PROVE FALSE
      OBVIOUS
    <3>1. PICK n \in Wrong : \A k \in Wrong : n <= k
      BY LeastNatural
    <3>2. CASE n = 1
      <4>1. f[n] = lists[1] /\ Cut(lists[1], S[1]) /\ Part(n) = S[1]
        <5>1. 1 \in DOMAIN lists /\ f[1] = lists[1]
          BY <1>1, <2>2, <2>3
        <5>2. Part(1) = S[1]
          OBVIOUS
        <5> QED BY <3>2, <5>1, <5>2
      <4> QED BY <3>1, <4>1
    <3>3. CASE n # 1
      <4>0. n \in Nat /\ n \in 1..N
        BY <3>1
      <4>1. n \in 1..N /\ n - 1 \in 1..N /\ n - 1 \notin Wrong /\ n - 1 \in Nat
        <5>1. n - 1 \in 1..N /\ n - 1 \in Nat /\ ~(n <= n - 1)
          BY <1>1, <3>3, <4>0
        <5> HIDE DEF Wrong
        <5> QED BY <3>1, <4>0, <5>1
      <4>2. Cut(f[n - 1], Part(n - 1)) /\ Cut(lists[n], S[n]) /\ f[n] = f[n - 1] \o lists[n]
        BY <1>1, <2>3, <3>3, <4>1
      <4>3. Part(n - 1) \cap S[n] = {}
        <5>1. \A i \in 1..(n - 1) : i \in DOMAIN lists /\ i # n /\ n \in DOMAIN lists
          BY <1>1, <4>1
        <5> QED BY <5>1
      <4>4. Part(n) = Part(n - 1) \cup S[n]
        <5>1. \A i : i \in 1..n <=> i \in 1..(n - 1) \/ i = n
          BY <1>1, <4>1
        <5> QED BY <5>1
      <4>5. Cut(f[n], Part(n))
        <5> HIDE DEF Part
        <5> QED BY <4>2, <4>3, <4>4, CutJoined
      <4> QED BY <3>1, <4>5
    <3> QED BY <3>2, <3>3
  <2>5. Cut(f[N], Part(N))
    <3>1. N \in Nat /\ N \in 1..N
      BY <1>1, <2>2
    <3> HIDE DEF Part
    <3> QED BY <2>4, <3>1
  <2> QED BY <1>1, <2>1, <2>5
<1> QED BY <1>2, <1>3

-----------------------------------------------------------------------------
Reaches == {"Everyone", "SelfOnly", "None", "Gone"}

(* The items of a plan: messages, each once.                                *)
ItemsForm(items) ==
  /\ IsFiniteSet(items) /\ items \subseteq [chat : Int, id : Int, reach : Reaches]
  /\ \A x, y \in items : x.chat = y.chat /\ x.id = y.id => x = y
Keys(items) == {<<x.chat, x.id>> : x \in EveryoneOf(items)}

LEMMA InOrderIs ==
  ASSUME NEW S \in SUBSET Int, IsFiniteSet(S)
  PROVE  LET s == InOrderOf(S)
         IN /\ IsList(s) /\ Len(s) = Cardinality(S) /\ ToSet(s) = S
            /\ \A k, l \in DOMAIN s : s[k] = s[l] => k = l
<1>1. Cardinality(S) \in Nat
  BY FS_CardinalityType
<1>2. \E s \in [1..Cardinality(S) -> S] : ToSet(s) = S /\ \A k, l \in DOMAIN s : k < l => s[k] < s[l]
  <2>1. PICK s \in [1..Cardinality(S) -> S] : Ascending(s) /\ ToSet(s) = S
    BY <1>1, Ordered
  <2> QED BY <2>1 DEF Ascending
<1> DEFINE s == InOrderOf(S)
<1>3. /\ s \in [1..Cardinality(S) -> S] /\ ToSet(s) = S
      /\ \A k, l \in DOMAIN s : k < l => s[k] < s[l]
  BY <1>2 DEF InOrderOf
<1> HIDE DEF s
<1>4. IsList(s) /\ Len(s) = Cardinality(S)
  BY <1>1, <1>3, ListOf
<1>5. \A k, l \in DOMAIN s : s[k] = s[l] => k = l
  <2> SUFFICES ASSUME NEW k \in DOMAIN s, NEW l \in DOMAIN s, s[k] = s[l], k # l PROVE FALSE
    OBVIOUS
  <2>0. k \in 1..Cardinality(S) /\ l \in 1..Cardinality(S)
    BY <1>3
  <2>1. k \in Int /\ l \in Int /\ s[k] \in Int
    <3>1. s[k] \in S
      BY <1>3, <2>0
    <3>2. \A n \in 1..Cardinality(S) : n \in Int
      BY <1>1
    <3> QED BY <2>0, <3>1, <3>2
  <2>2. k < l \/ l < k
    BY <2>1
  <2> QED BY <1>3, <2>1, <2>2
<1> QED BY <1>3, <1>4, <1>5 DEF s

LEMMA EveryoneFinite ==
  ASSUME NEW items, ItemsForm(items)
  PROVE  /\ IsFiniteSet(EveryoneOf(items)) /\ Cardinality(EveryoneOf(items)) \in Nat
         /\ Cardinality(EveryoneOf(items)) <= Cardinality(items) /\ Cardinality(items) \in Nat
BY FS_Subset, FS_CardinalityType DEF ItemsForm, EveryoneOf

LEMMA MessagesOfChat ==
  ASSUME NEW items, ItemsForm(items), NEW c
  PROVE  LET s == MessagesOf(items, c)
         IN /\ IsList(s) /\ ToSet(s) = {k \in Keys(items) : k[1] = c}
            /\ \A i, j \in DOMAIN s : s[i] = s[j] => i = j
            /\ \A i \in DOMAIN s : s[i][1] = c
<1> DEFINE those == {y \in EveryoneOf(items) : y.chat = c}
           numbers == {x.id : x \in those}
           ids == InOrderOf(numbers)
           s == MessagesOf(items, c)
<1>1. IsFiniteSet(numbers) /\ numbers \in SUBSET Int
  <2>1. IsFiniteSet(those)
    BY EveryoneFinite, FS_Subset
  <2>2. IsFiniteSet(numbers)
    <3> DEFINE g == [x \in those |-> x.id]
    <3>1. g \in Surjection(those, numbers)
      BY DEF Surjection
    <3> QED BY <2>1, <3>1, FS_Surjection
  <2> QED BY <2>2 DEF ItemsForm, EveryoneOf
<1>2. /\ IsList(ids) /\ ToSet(ids) = numbers
      /\ \A k, l \in DOMAIN ids : ids[k] = ids[l] => k = l
  BY <1>1, InOrderIs
<1>3. s = [k \in DOMAIN ids |-> <<c, ids[k]>>]
  BY DEF MessagesOf
<1> HIDE DEF s, ids, numbers
<1>4. IsList(s) /\ DOMAIN s = DOMAIN ids
  BY <1>2, <1>3, ListFacts, ListOf
<1>5. ToSet(s) = {<<c, n>> : n \in numbers}
  BY <1>2, <1>3 DEF ToSet
<1>6. {<<c, n>> : n \in numbers} = {k \in Keys(items) : k[1] = c}
  BY DEF numbers, Keys
<1> QED BY <1>2, <1>3, <1>4, <1>5, <1>6 DEF s

(* The batches of a plan cut exactly what can be deleted for everyone.      *)
LEMMA BatchesCut ==
  ASSUME NEW items, ItemsForm(items)
  PROVE  Cut(EveryoneBatches(items), Keys(items))
<1> DEFINE numbers == {x.chat : x \in EveryoneOf(items)}
           chats == InOrderOf(numbers)
           lists == [n \in DOMAIN chats |-> ChunksOf(MessagesOf(items, chats[n]))]
           S == [n \in DOMAIN chats |-> {k \in Keys(items) : k[1] = chats[n]}]
<1>1. IsFiniteSet(numbers) /\ numbers \in SUBSET Int
  <2>1. IsFiniteSet(numbers)
    <3> DEFINE g == [x \in EveryoneOf(items) |-> x.chat]
    <3>1. g \in Surjection(EveryoneOf(items), numbers)
      BY DEF Surjection
    <3> QED BY <3>1, EveryoneFinite, FS_Surjection
  <2> QED BY <2>1 DEF ItemsForm, EveryoneOf
<1>2. /\ IsList(chats) /\ ToSet(chats) = numbers
      /\ \A k, l \in DOMAIN chats : chats[k] = chats[l] => k = l
  BY <1>1, InOrderIs
<1>3. EveryoneBatches(items) = FlattenSeq(lists)
  BY DEF EveryoneBatches
<1> HIDE DEF chats, numbers
<1>4. DOMAIN lists = DOMAIN chats /\ DOMAIN S = DOMAIN chats
  OBVIOUS
<1>5. IsList(lists)
  BY <1>2, ListFacts, ListOf
<1>6. ASSUME NEW n \in DOMAIN lists PROVE Cut(lists[n], S[n])
  <2> DEFINE s == MessagesOf(items, chats[n])
  <2>1. /\ IsList(s) /\ ToSet(s) = {k \in Keys(items) : k[1] = chats[n]}
        /\ \A i, j \in DOMAIN s : s[i] = s[j] => i = j
        /\ \A i \in DOMAIN s : s[i][1] = chats[n]
    BY MessagesOfChat
  <2>2. lists[n] = ChunksOf(s) /\ S[n] = ToSet(s)
    BY <2>1
  <2> HIDE DEF s, lists, S
  <2>3. Cut(ChunksOf(s), ToSet(s))
    BY <2>1, CutChunks
  <2> QED BY <2>2, <2>3
<1>7. \A n, l \in DOMAIN lists : n # l => S[n] \cap S[l] = {}
  BY <1>2
<1>8. UNION {S[n] : n \in DOMAIN lists} = Keys(items)
  <2>1. ASSUME NEW k \in Keys(items) PROVE \E n \in DOMAIN chats : k[1] = chats[n]
    <3>1. k[1] \in numbers
      BY DEF Keys, numbers
    <3> QED BY <1>2, <3>1 DEF ToSet
  <2> QED BY <1>4, <2>1
<1> HIDE DEF lists, S
<1> QED BY <1>3, <1>5, <1>6, <1>7, <1>8, CutFlattened

-----------------------------------------------------------------------------
(* A plan that one of the endpoints can have made.                          *)
Plannable(p) ==
  /\ p = Made(p.op, p.conversation, p.sender, p.items)
  /\ p.op \in Messages \cup Leavings \cup ChatWide
  /\ ItemsForm(p.items) /\ Cardinality(p.items) <= MaxTargets
  /\ p.conversation = IF p.op = "SelectedMessages" THEN {} ELSE {TargetChat}
  /\ IF p.op = "DeleteBySender" THEN \E n \in Senders : p.sender = {n} ELSE p.sender = {}
  /\ p.op \in ChatWide \cup {"ClearHistoryAndLeave"} => p.items = {}
  /\ p.op # "SelectedMessages" => \A x \in p.items : x.chat = TargetChat
  /\ p.op \in Messages => EveryoneOf(p.items) # {}

(* What a plan does in the chat as a whole.                                 *)
ActsOf(op) == CASE op \in ChatWide -> {KindOf(op)}
                [] op = "ClearHistoryAndLeave" -> {"ClearConversation", "LeaveConversation", "RemoveForCurrentAccount"}
                [] op \in {"LeaveChat", "DeleteAllMessagesAndLeave"} -> {"LeaveConversation", "RemoveForCurrentAccount"}
                [] OTHER -> {}

LEMMA JoinedMembers ==
  ASSUME NEW s, NEW t, IsList(s), IsList(t)
  PROVE  IsList(s \o t) /\ ToSet(s \o t) = ToSet(s) \cup ToSet(t)
<1> DEFINE st == s \o t
<1>1. Len(s) \in Nat /\ DOMAIN s = 1..Len(s) /\ Len(t) \in Nat /\ DOMAIN t = 1..Len(t)
  BY ListFacts
<1>2. /\ IsList(st) /\ DOMAIN st = 1..(Len(s) + Len(t))
      /\ \A i \in 1..Len(s) : st[i] = s[i]
      /\ \A i \in 1..Len(t) : st[Len(s) + i] = t[i]
  BY ListJoined
<1> HIDE DEF st
<1>3. ASSUME NEW n \in DOMAIN st PROVE st[n] \in ToSet(s) \cup ToSet(t)
  <2>1. CASE n \in 1..Len(s)
    BY <1>1, <1>2, <2>1 DEF ToSet
  <2>2. CASE n \notin 1..Len(s)
    <3>1. n - Len(s) \in 1..Len(t) /\ Len(s) + (n - Len(s)) = n
      BY <1>1, <1>2, <2>2
    <3>2. st[Len(s) + (n - Len(s))] = t[n - Len(s)]
      BY <1>2, <3>1
    <3> QED BY <1>1, <3>1, <3>2 DEF ToSet
  <2> QED BY <2>1, <2>2
<1>4. /\ \A n \in DOMAIN s : n \in DOMAIN st /\ st[n] = s[n]
      /\ \A n \in DOMAIN t : Len(s) + n \in DOMAIN st /\ st[Len(s) + n] = t[n]
  BY <1>1, <1>2
<1>5. ToSet(st) = ToSet(s) \cup ToSet(t)
  <2>1. ToSet(s) \subseteq ToSet(st)
    BY <1>4 DEF ToSet
  <2>2. ToSet(t) \subseteq ToSet(st)
    BY <1>4 DEF ToSet
  <2>3. ToSet(st) \subseteq ToSet(s) \cup ToSet(t)
    BY <1>3 DEF ToSet
  <2> QED BY <2>1, <2>2, <2>3
<1> QED BY <1>2, <1>5 DEF st

LEMMA ShortLists ==
  /\ ToSet(<<>>) = {}
  /\ \A x : IsList(<<x>>) /\ ToSet(<<x>>) = {x}
  /\ \A x, y : IsList(<<x, y>>) /\ ToSet(<<x, y>>) = {x, y}
<1>1. ToSet(<<>>) = {}
  BY EmptyList DEF ToSet
<1>2. ASSUME NEW x PROVE IsList(<<x>>) /\ ToSet(<<x>>) = {x}
  <2>1. <<x>> \in Seq({x}) /\ DOMAIN <<x>> = 1..1 /\ <<x>>[1] = x
    OBVIOUS
  <2>2. 1..1 = {1}
    OBVIOUS
  <2> QED BY <2>1, <2>2 DEF IsList, ToSet
<1>3. ASSUME NEW x, NEW y PROVE IsList(<<x, y>>) /\ ToSet(<<x, y>>) = {x, y}
  <2>1. <<x, y>> \in Seq({x, y}) /\ DOMAIN <<x, y>> = 1..2 /\ <<x, y>>[1] = x /\ <<x, y>>[2] = y
    OBVIOUS
  <2>2. 1..2 = {1, 2}
    OBVIOUS
  <2> QED BY <2>1, <2>2 DEF IsList, ToSet
<1> QED BY <1>1, <1>2, <1>3

LEMMA BatchSteps ==
  ASSUME NEW items, ItemsForm(items)
  PROVE  LET b == EveryoneBatches(items)
             s == [n \in DOMAIN b |-> [kind |-> "DeleteRemoteItem", targets |-> ToSet(b[n])]]
         IN /\ IsList(s) /\ \A x \in ToSet(s) : x.kind = "DeleteRemoteItem" /\ x.targets # {}
            /\ UNION {x.targets : x \in ToSet(s)} = Keys(items)
            /\ ToSet(s) = {} <=> EveryoneOf(items) = {}
<1> DEFINE b == EveryoneBatches(items)
           s == [n \in DOMAIN b |-> [kind |-> "DeleteRemoteItem", targets |-> ToSet(b[n])]]
<1>1. Cut(b, Keys(items))
  BY BatchesCut
<1> HIDE DEF b
<1>2. IsList(b) /\ DOMAIN b = 1..Len(b) /\ Len(b) \in Nat
  BY <1>1, ListFacts DEF Cut
<1>3. IsList(s) /\ DOMAIN s = DOMAIN b
  BY <1>2, ListOf
<1>4. \A n \in DOMAIN b : s[n].kind = "DeleteRemoteItem" /\ s[n].targets = ToSet(b[n])
  OBVIOUS
<1> HIDE DEF s
<1>5. ASSUME NEW n \in DOMAIN b PROVE ToSet(b[n]) # {}
  <2>1. IsList(b[n]) /\ Len(b[n]) \in 1..BatchSize
    BY <1>1 DEF Cut
  <2>2. 1 \in DOMAIN b[n]
    BY <2>1, ListFacts
  <2> QED BY <2>2 DEF ToSet
<1>6. UNION {ToSet(b[n]) : n \in DOMAIN b} = Keys(items)
  BY <1>1 DEF Cut
<1>7. ToSet(s) = {s[n] : n \in DOMAIN b}
  BY <1>3 DEF ToSet
<1>8. UNION {x.targets : x \in ToSet(s)} = Keys(items)
  <2>1. {x.targets : x \in ToSet(s)} = {ToSet(b[n]) : n \in DOMAIN b}
    BY <1>4, <1>7
  <2> QED BY <1>6, <2>1
<1>9. \A x \in ToSet(s) : x.kind = "DeleteRemoteItem" /\ x.targets # {}
  BY <1>4, <1>5, <1>7
<1>10. ToSet(s) = {} <=> EveryoneOf(items) = {}
  <2>1. Keys(items) = {} <=> EveryoneOf(items) = {}
    BY DEF Keys
  <2> QED BY <1>8, <1>9, <2>1
<1> QED BY <1>3, <1>8, <1>9, <1>10 DEF s, b

(* The steps of a plan: its batches, and then the chat.                     *)
LEMMA StepsAre ==
  ASSUME NEW p, Plannable(p)
  PROVE  /\ IsList(Steps(p)) /\ Len(Steps(p)) \in Nat /\ Len(Steps(p)) >= 1
         /\ \A n \in DOMAIN Steps(p) : Steps(p)[n].targets # {}
         /\ Kinds(p) = (IF EveryoneOf(p.items) # {} THEN {"DeleteRemoteItem"} ELSE {}) \cup ActsOf(p.op)
         /\ TargetsOf(Steps(p)) = Keys(p.items) \cup (IF p.op \in Messages THEN {} ELSE {<<TargetChat>>})
<1> DEFINE b == EveryoneBatches(p.items)
           s == [n \in DOMAIN b |-> [kind |-> "DeleteRemoteItem", targets |-> ToSet(b[n])]]
           t == IF p.op \in ChatWide THEN <<InChat(KindOf(p.op))>>
                ELSE IF p.op = "ClearHistoryAndLeave" THEN <<InChat("ClearConversation")>> ELSE <<>>
           u == IF p.op \in Leavings THEN <<InChat("LeaveConversation"), InChat("RemoveForCurrentAccount")>> ELSE <<>>
           steps == Steps(p)
<1>1. /\ IsList(s) /\ \A x \in ToSet(s) : x.kind = "DeleteRemoteItem" /\ x.targets # {}
      /\ UNION {x.targets : x \in ToSet(s)} = Keys(p.items)
      /\ ToSet(s) = {} <=> EveryoneOf(p.items) = {}
  BY BatchSteps DEF Plannable
<1>2. steps = s \o t \o u
  BY DEF Steps
<1>3. p.op \in {"SelectedMessages", "DeleteMyMessages", "ClearHistory", "RemoveChatForSelf", "DeleteGroup",
                "DeleteBySender", "LeaveChat", "DeleteAllMessagesAndLeave", "ClearHistoryAndLeave"}
  BY DEF Plannable, Messages, Leavings, ChatWide
<1>4. IsList(t) /\ IsList(u) /\ ToSet(t) \cup ToSet(u) = {InChat(k) : k \in ActsOf(p.op)}
  <2>1. CASE p.op \in Messages
    <3>1. t = <<>> /\ u = <<>> /\ ActsOf(p.op) = {}
      BY <2>1 DEF Messages, ChatWide, Leavings, ActsOf
    <3> HIDE DEF t, u
    <3> QED BY <3>1, EmptyList, ShortLists
  <2>2. CASE p.op \in ChatWide
    <3>1. t = <<InChat(KindOf(p.op))>> /\ u = <<>> /\ ActsOf(p.op) = {KindOf(p.op)}
      BY <2>2 DEF ChatWide, Leavings, ActsOf
    <3> HIDE DEF t, u
    <3> QED BY <3>1, EmptyList, ShortLists
  <2>3. CASE p.op = "ClearHistoryAndLeave"
    <3>1. /\ t = <<InChat("ClearConversation")>>
          /\ u = <<InChat("LeaveConversation"), InChat("RemoveForCurrentAccount")>>
          /\ ActsOf(p.op) = {"ClearConversation", "LeaveConversation", "RemoveForCurrentAccount"}
      BY <2>3 DEF ChatWide, Leavings, ActsOf
    <3> HIDE DEF t, u
    <3>2. /\ IsList(t) /\ ToSet(t) = {InChat("ClearConversation")}
          /\ IsList(u) /\ ToSet(u) = {InChat("LeaveConversation"), InChat("RemoveForCurrentAccount")}
      BY <3>1, ShortLists
    <3>3. {InChat(k) : k \in ActsOf(p.op)} =
             {InChat("ClearConversation"), InChat("LeaveConversation"), InChat("RemoveForCurrentAccount")}
      BY <3>1
    <3> QED BY <3>2, <3>3
  <2>4. CASE p.op \in {"LeaveChat", "DeleteAllMessagesAndLeave"}
    <3>1. /\ t = <<>> /\ u = <<InChat("LeaveConversation"), InChat("RemoveForCurrentAccount")>>
          /\ ActsOf(p.op) = {"LeaveConversation", "RemoveForCurrentAccount"}
      BY <2>4 DEF ChatWide, Leavings, ActsOf
    <3> HIDE DEF t, u
    <3>2. /\ IsList(t) /\ ToSet(t) = {}
          /\ IsList(u) /\ ToSet(u) = {InChat("LeaveConversation"), InChat("RemoveForCurrentAccount")}
      BY <3>1, EmptyList, ShortLists
    <3>3. {InChat(k) : k \in ActsOf(p.op)} = {InChat("LeaveConversation"), InChat("RemoveForCurrentAccount")}
      BY <3>1
    <3> QED BY <3>2, <3>3
  <2> QED BY <1>3, <2>1, <2>2, <2>3, <2>4 DEF Messages, ChatWide
<1> HIDE DEF s, t, u, steps
<1>5. IsList(steps) /\ ToSet(steps) = ToSet(s) \cup {InChat(k) : k \in ActsOf(p.op)}
  <2>1. IsList(s \o t) /\ ToSet(s \o t) = ToSet(s) \cup ToSet(t)
    BY <1>1, <1>4, JoinedMembers
  <2>2. IsList(s \o t \o u) /\ ToSet(s \o t \o u) = ToSet(s \o t) \cup ToSet(u)
    BY <1>4, <2>1, JoinedMembers
  <2> QED BY <1>2, <1>4, <2>1, <2>2
<1>6. Len(steps) \in Nat /\ DOMAIN steps = 1..Len(steps) /\ ToSet(steps) = {steps[n] : n \in DOMAIN steps}
  BY <1>5, ListFacts DEF ToSet
<1>7. \A k : InChat(k).kind = k /\ InChat(k).targets = {<<TargetChat>>}
  BY DEF InChat
<1>8. ActsOf(p.op) = {} <=> p.op \in Messages
  BY <1>3 DEF ActsOf, Messages, ChatWide
<1>9. Len(steps) >= 1
  <2>1. ToSet(steps) # {}
    <3>1. CASE p.op \in Messages
      BY <1>1, <1>5, <3>1 DEF Plannable
    <3>2. CASE p.op \notin Messages
      BY <1>5, <1>8, <3>2
    <3> QED BY <3>1, <3>2
  <2>2. PICK n \in DOMAIN steps : TRUE
    BY <1>6, <2>1
  <2> QED BY <1>6, <2>2
<1>10. \A n \in DOMAIN steps : steps[n].targets # {}
  <2>1. \A x \in ToSet(steps) : x.targets # {}
    BY <1>1, <1>5, <1>7
  <2> QED BY <1>6, <2>1
<1>11. {x.kind : x \in ToSet(steps)} =
         (IF EveryoneOf(p.items) # {} THEN {"DeleteRemoteItem"} ELSE {}) \cup ActsOf(p.op)
  <2>1. {x.kind : x \in ToSet(s)} = IF EveryoneOf(p.items) # {} THEN {"DeleteRemoteItem"} ELSE {}
    BY <1>1
  <2>2. {x.kind : x \in {InChat(k) : k \in ActsOf(p.op)}} = ActsOf(p.op)
    BY <1>7
  <2>3. {x.kind : x \in ToSet(steps)} = {x.kind : x \in ToSet(s)} \cup {x.kind : x \in {InChat(k) : k \in ActsOf(p.op)}}
    BY <1>5
  <2> QED BY <2>1, <2>2, <2>3
<1>12. UNION {x.targets : x \in ToSet(steps)} =
         Keys(p.items) \cup (IF p.op \in Messages THEN {} ELSE {<<TargetChat>>})
  <2>1. UNION {x.targets : x \in {InChat(k) : k \in ActsOf(p.op)}} = IF p.op \in Messages THEN {} ELSE {<<TargetChat>>}
    BY <1>7, <1>8
  <2>2. UNION {x.targets : x \in ToSet(steps)} =
          (UNION {x.targets : x \in ToSet(s)}) \cup (UNION {x.targets : x \in {InChat(k) : k \in ActsOf(p.op)}})
    BY <1>5
  <2> QED BY <1>1, <2>1, <2>2
<1>13. Kinds(p) = {x.kind : x \in ToSet(steps)} /\ TargetsOf(steps) = UNION {x.targets : x \in ToSet(steps)}
  <2>1. {steps[n].kind : n \in DOMAIN steps} = {x.kind : x \in ToSet(steps)}
    BY <1>6
  <2>2. {steps[n].targets : n \in DOMAIN steps} = {x.targets : x \in ToSet(steps)}
    BY <1>6
  <2> QED BY <2>1, <2>2 DEF Kinds, TargetsOf, steps
<1> QED BY <1>5, <1>6, <1>9, <1>10, <1>11, <1>12, <1>13 DEF steps

(* As many targets as messages, and the chat if the plan is about it.       *)
LEMMA TargetsCounted ==
  ASSUME NEW p, Plannable(p)
  PROVE  LET targets == TargetsOf(Steps(p))
             everyone == Cardinality(EveryoneOf(p.items))
         IN /\ IsFiniteSet(targets) /\ everyone \in Nat
            /\ Cardinality(targets) = everyone + (IF p.op \in Messages THEN 0 ELSE 1)
            /\ Cardinality({x \in targets : Len(x) = 2}) = everyone
            /\ {x[1] : x \in targets} = p.conversation \cup {x.chat : x \in EveryoneOf(p.items)}
<1> DEFINE E == EveryoneOf(p.items)
           K == Keys(p.items)
           T == TargetsOf(Steps(p))
<1>1. ItemsForm(p.items) /\ IsFiniteSet(E) /\ Cardinality(E) \in Nat
  BY EveryoneFinite DEF Plannable
<1>2. IsFiniteSet(K) /\ Cardinality(K) = Cardinality(E)
  <2> DEFINE g == [x \in E |-> <<x.chat, x.id>>]
  <2>1. \A x, y \in E : g[x] = g[y] => x = y
    BY <1>1 DEF ItemsForm, EveryoneOf
  <2>2. g \in [E -> K] /\ \A k \in K : \E x \in E : g[x] = k
    BY DEF Keys
  <2> HIDE DEF g
  <2>3. g \in Bijection(E, K)
    BY <2>1, <2>2 DEF Bijection, Injection, Surjection, IsInjective
  <2> QED BY <1>1, <2>3, FS_Bijection DEF ExistsBijection
<1>3. T = K \cup (IF p.op \in Messages THEN {} ELSE {<<TargetChat>>})
  BY StepsAre
<1>4. \A k \in K : Len(k) = 2
  BY DEF Keys
<1>5. <<TargetChat>> \notin K /\ Len(<<TargetChat>>) = 1
  BY <1>4
<1>6. IsFiniteSet(T) /\ Cardinality(T) = Cardinality(E) + (IF p.op \in Messages THEN 0 ELSE 1)
  <2>1. CASE p.op \in Messages
    BY <1>1, <1>2, <1>3, <2>1
  <2>2. CASE p.op \notin Messages
    <3>1. T = K \cup {<<TargetChat>>}
      BY <1>3, <2>2
    <3>2. IsFiniteSet(K \cup {<<TargetChat>>}) /\ Cardinality(K \cup {<<TargetChat>>}) = Cardinality(K) + 1
      BY <1>2, <1>5, FS_AddElement
    <3> QED BY <1>2, <2>2, <3>1, <3>2
  <2> QED BY <2>1, <2>2
<1>7. {x \in T : Len(x) = 2} = K
  BY <1>3, <1>4, <1>5
<1>8. {x[1] : x \in T} = p.conversation \cup {x.chat : x \in E}
  <2>1. {k[1] : k \in K} = {x.chat : x \in E}
    <3>1. \A x : <<x.chat, x.id>>[1] = x.chat
      OBVIOUS
    <3>2. K = {<<x.chat, x.id>> : x \in E}
      BY DEF Keys
    <3> HIDE DEF K, E
    <3>3. \A k \in K : \E x \in E : k[1] = x.chat
      BY <3>1, <3>2
    <3>4. \A x \in E : \E k \in K : k[1] = x.chat
      BY <3>1, <3>2
    <3> QED BY <3>3, <3>4
  <2>2. <<TargetChat>>[1] = TargetChat
    OBVIOUS
  <2>3. CASE p.op \notin Messages
    <3>1. p.conversation = {TargetChat} /\ T = K \cup {<<TargetChat>>}
      BY <1>3, <2>3 DEF Plannable, Messages
    <3> QED BY <2>1, <2>2, <3>1
  <2>4. CASE p.op = "SelectedMessages"
    <3>1. p.conversation = {} /\ T = K
      BY <1>3, <2>4 DEF Plannable, Messages
    <3> QED BY <2>1, <3>1
  <2>5. CASE p.op = "DeleteMyMessages"
    <3>1. p.conversation = {TargetChat} /\ T = K /\ E # {} /\ \A x \in E : x.chat = TargetChat
      BY <1>3, <2>5 DEF Plannable, Messages, EveryoneOf
    <3> QED BY <2>1, <3>1
  <2> QED BY <2>3, <2>4, <2>5 DEF Messages
<1> QED BY <1>1, <1>2, <1>6, <1>7, <1>8

-----------------------------------------------------------------------------
(* The recipe of a plan stands for this plan.                               *)
LEMMA Rebuilt ==
  ASSUME NEW p, Plannable(p)
  PROVE  Legacy(FromLegacy(p)) = {p}
<1> DEFINE r == FromLegacy(p)
<1>1. /\ r.op = p.op /\ r.conversation = p.conversation /\ r.items = p.items
      /\ r.actor = {[kind |-> IF n > 0 THEN "User" ELSE "Chat", id |-> n] : n \in p.sender}
  BY DEF FromLegacy
<1>2. /\ p.tier = Tier(p.op, p.items)
      /\ p = [op |-> p.op, conversation |-> p.conversation, sender |-> p.sender,
              items |-> p.items, tier |-> p.tier]
  BY DEF Plannable, Made
<1>3. p.op \in {"SelectedMessages", "DeleteMyMessages", "ClearHistory", "RemoveChatForSelf", "DeleteGroup",
                "DeleteBySender", "LeaveChat", "DeleteAllMessagesAndLeave", "ClearHistoryAndLeave"}
  BY DEF Plannable, Messages, Leavings, ChatWide
<1> HIDE DEF r
<1>4. \A a \in r.actor : (a.id > 0) = (a.kind = "User")
  BY <1>1
<1>5. {a.id : a \in r.actor} = p.sender
  <2>1. \A a \in r.actor : a.id \in p.sender
    BY <1>1
  <2>2. ASSUME NEW n \in p.sender PROVE \E a \in r.actor : a.id = n
    <3>1. [kind |-> IF n > 0 THEN "User" ELSE "Chat", id |-> n] \in r.actor
      BY <1>1
    <3> QED BY <3>1
  <2> QED BY <2>1, <2>2
<1>6. (r.op = "DeleteBySender") = (r.actor # {})
  <2>1. (p.op = "DeleteBySender") = (p.sender # {})
    BY DEF Plannable
  <2>2. (r.actor # {}) = (p.sender # {})
    BY <1>5
  <2> QED BY <1>1, <2>1, <2>2
<1>7. /\ Cardinality(r.items) <= MaxTargets
      /\ r.op # "SelectedMessages" => \A x \in r.items : x.chat \in r.conversation
      /\ (r.op = "SelectedMessages") = (r.conversation = {})
      /\ r.op \in Messages => EveryoneOf(r.items) # {}
  BY <1>1 DEF Plannable
<1>8. r.items # {} => r.op \in Messages \cup {"LeaveChat", "DeleteAllMessagesAndLeave"}
  <2>1. r.op \in ChatWide \cup {"ClearHistoryAndLeave"} => r.items = {}
    BY <1>1 DEF Plannable
  <2> QED BY <1>1, <1>3, <2>1 DEF ChatWide, Messages
<1>9. LegacyTier(r.op, r.items) = p.tier
  BY <1>1, <1>2, <1>3 DEF LegacyTier, Tier
<1>10. [op |-> r.op, conversation |-> r.conversation, sender |-> {a.id : a \in r.actor},
        items |-> r.items, tier |-> LegacyTier(r.op, r.items)] = p
  BY <1>1, <1>2, <1>5, <1>9
<1> QED BY <1>4, <1>6, <1>7, <1>8, <1>10 DEF Legacy, r

(* An envelope of a plan that is not too large passes, whichever policy its *)
(* messages were sealed with.                                               *)
LEMMA EnvelopeOf ==
  ASSUME NEW p, Plannable(p), NEW e \in {Bound(p), Historical(Bound(p))}
  PROVE  /\ e.steps = Steps(p) /\ e.targets = TargetsOf(Steps(p)) /\ e.recipe = FromLegacy(p)
         /\ e.policy = "ResumeFrozenTargets" => p.op \in Messages
<1> DEFINE b == [steps |-> Steps(p), targets |-> TargetsOf(Steps(p)), tier |-> p.tier,
                 recipe |-> FromLegacy(p), policy |-> "RequiresNewReview"]
<1>1. Bound(p) = b
  BY DEF Bound
<1>2. b.recipe.op = p.op
  BY DEF FromLegacy
<1>3. b.recipe = FromLegacy(p)
  OBVIOUS
<1>4. CASE e = b
  BY <1>4
<1>5. CASE e = [b EXCEPT !.policy = "ResumeFrozenTargets"] /\ p.op \in Messages
  BY <1>5
<1> QED BY <1>1, <1>2, <1>4, <1>5 DEF Historical

LEMMA PlanPasses ==
  ASSUME NEW p, Plannable(p), Len(Steps(p)) <= MaxSteps, Cardinality(TargetsOf(Steps(p))) <= MaxTargets,
         NEW e \in {Bound(p), Historical(Bound(p))}
  PROVE  Normal(e) /\ ValidEnvelope(e) /\ Legacy(e.recipe) = {p}
<1> DEFINE steps == Steps(p)
           T == TargetsOf(steps)
<1>1. /\ e.steps = steps /\ e.targets = T /\ e.recipe = FromLegacy(p)
      /\ e.policy = "ResumeFrozenTargets" => p.op \in Messages
  BY EnvelopeOf
<1>2. Len(steps) \in 1..MaxSteps
  BY StepsAre, TelegramPlanningAssumption
<1>3. /\ DOMAIN steps = 1..Len(steps)
      /\ \A n \in DOMAIN steps : steps[n].targets # {} /\ steps[n].targets \subseteq T
  <2>1. DOMAIN steps = 1..Len(steps)
    BY StepsAre, ListFacts
  <2>2. \A n \in DOMAIN steps : steps[n].targets # {}
    BY StepsAre
  <2> QED BY <2>1, <2>2 DEF TargetsOf
<1>4. IsFiniteSet(T) /\ Cardinality(T) \in Nat /\ Cardinality(T) <= MaxTargets
  BY TargetsCounted, FS_CardinalityType
<1>5. ASSUME NEW S \in SUBSET T, S # {} PROVE Cardinality(S) \in 1..MaxTargets
  <2>1. IsFiniteSet(S) /\ Cardinality(S) <= Cardinality(T)
    BY <1>4, FS_Subset
  <2>2. Cardinality(S) \in Nat /\ Cardinality(S) # 0
    BY <1>5, <2>1, FS_CardinalityType, FS_EmptySet
  <2> QED BY <1>4, <2>1, <2>2, TelegramPlanningAssumption
<1>6. Cardinality(T) \in 1..MaxTargets
  <2>1. 1 \in DOMAIN steps
    BY <1>2, <1>3
  <2>2. T # {}
    BY <1>3, <2>1
  <2> QED BY <1>5, <2>2
<1>7. p.op \in Messages => \A n \in DOMAIN steps : steps[n].kind \in Resumable
  <2>1. ASSUME p.op \in Messages PROVE Kinds(p) = {"DeleteRemoteItem"}
    <3>1. Kinds(p) = {"DeleteRemoteItem"} \cup ActsOf(p.op)
      BY <2>1, StepsAre DEF Plannable
    <3>2. ActsOf(p.op) = {}
      BY <2>1 DEF ActsOf, Messages, ChatWide
    <3> QED BY <3>1, <3>2
  <2> QED BY <2>1 DEF Kinds, Resumable
<1> HIDE DEF steps, T
<1>8. Normal(e)
  <2>1. \A n \in DOMAIN steps : Cardinality(steps[n].targets) \in 1..MaxTargets
    BY <1>3, <1>5
  <2>2. T = TargetsOf(steps)
    BY DEF T, steps
  <2> QED BY <1>1, <1>2, <1>6, <1>7, <2>1, <2>2 DEF Normal
<1>9. Legacy(e.recipe) = {p}
  BY <1>1, Rebuilt
<1> QED BY <1>8, <1>9 DEF ValidEnvelope

LEMMA PlanSeals ==
  ASSUME NEW p, Plannable(p)
  PROVE  Sealable(p) <=> Len(Steps(p)) <= MaxSteps /\ Cardinality(TargetsOf(Steps(p))) <= MaxTargets
<1>1. ASSUME Sealable(p)
      PROVE Len(Steps(p)) <= MaxSteps /\ Cardinality(TargetsOf(Steps(p))) <= MaxTargets
  <2>1. Normal(Bound(p)) /\ Bound(p).steps = Steps(p) /\ Bound(p).targets = TargetsOf(Steps(p))
    BY <1>1 DEF Sealable, Bound
  <2> QED BY <2>1, TelegramPlanningAssumption DEF Normal
<1>2. ASSUME Len(Steps(p)) <= MaxSteps, Cardinality(TargetsOf(Steps(p))) <= MaxTargets
      PROVE Sealable(p)
  BY <1>2, PlanPasses, Rebuilt DEF Sealable
<1> QED BY <1>1, <1>2

(* What the owner is asked is what the envelope holds.                      *)
LEMMA ReasonIs ==
  ASSUME NEW p, Plannable(p)
  PROVE  LET T == TargetsOf(Steps(p))
         IN /\ Reason(p).count = Cardinality(T)
            /\ Reason(p).deletes = Cardinality({t \in T : Len(t) = 2})
            /\ Reason(p).acts = Kinds(p) \ ({"DeleteRemoteItem"} \cup
                  IF "LeaveConversation" \in Kinds(p) THEN {"RemoveForCurrentAccount"} ELSE {})
<1> DEFINE T == TargetsOf(Steps(p))
           E == Cardinality(EveryoneOf(p.items))
           two == Cardinality({t \in T : Len(t) = 2})
<1>1. E \in Nat /\ Cardinality(T) = E + (IF p.op \in Messages THEN 0 ELSE 1) /\ two = E
  BY TargetsCounted
<1>2. p.op \in {"SelectedMessages", "DeleteMyMessages", "ClearHistory", "RemoveChatForSelf", "DeleteGroup",
                "DeleteBySender", "LeaveChat", "DeleteAllMessagesAndLeave", "ClearHistoryAndLeave"}
  BY DEF Plannable, Messages, Leavings, ChatWide
<1>3. p.op \in ChatWide \cup {"ClearHistoryAndLeave"} => E = 0
  <2>1. EveryoneOf({}) = {}
    BY DEF EveryoneOf
  <2> QED BY <2>1, FS_EmptySet DEF Plannable
<1> HIDE DEF T, E, two
<1>4. FrozenTargetCount(p) = Cardinality(T)
  BY <1>1, <1>2, <1>3 DEF FrozenTargetCount, Messages, ChatWide, E
<1>5. Reason(p).deletes = two
  BY <1>1, <1>2, <1>3 DEF Reason, Messages, ChatWide, E
<1>6. Reason(p).acts = Kinds(p) \ ({"DeleteRemoteItem"} \cup
          IF "LeaveConversation" \in Kinds(p) THEN {"RemoveForCurrentAccount"} ELSE {})
  <2>1. Kinds(p) = (IF EveryoneOf(p.items) # {} THEN {"DeleteRemoteItem"} ELSE {}) \cup ActsOf(p.op)
    BY StepsAre
  <2>2. CASE p.op \in Messages
    <3>1. ActsOf(p.op) = {} /\ Reason(p).acts = {}
      BY <2>2 DEF ActsOf, Messages, ChatWide, Reason
    <3> QED BY <2>1, <3>1
  <2>3. CASE p.op = "ClearHistoryAndLeave"
    <3>1. /\ ActsOf(p.op) = {"ClearConversation", "LeaveConversation", "RemoveForCurrentAccount"}
          /\ Reason(p).acts = {"ClearConversation", "LeaveConversation"}
      BY <2>3 DEF ActsOf, ChatWide, Reason
    <3> QED BY <2>1, <3>1
  <2>4. CASE p.op \in {"LeaveChat", "DeleteAllMessagesAndLeave"}
    <3>1. /\ ActsOf(p.op) = {"LeaveConversation", "RemoveForCurrentAccount"}
          /\ Reason(p).acts = {"LeaveConversation"}
      BY <2>4 DEF ActsOf, ChatWide, Reason
    <3> QED BY <2>1, <3>1
  <2>5. CASE p.op \in ChatWide
    <3>1. /\ ActsOf(p.op) = {KindOf(p.op)} /\ Reason(p).acts = {KindOf(p.op)}
          /\ KindOf(p.op) \notin {"DeleteRemoteItem", "LeaveConversation"}
      BY <2>5 DEF ActsOf, ChatWide, Reason, KindOf
    <3> QED BY <2>1, <3>1
  <2> QED BY <1>2, <2>2, <2>3, <2>4, <2>5 DEF Messages, ChatWide
<1>7. Reason(p).count = FrozenTargetCount(p)
  BY DEF Reason
<1> QED BY <1>4, <1>5, <1>6, <1>7 DEF T, two

(* The job of a plan counts all its items, and its chats are the targets'.  *)
LEMMA JobCounts ==
  ASSUME NEW p, Plannable(p)
  PROVE  /\ FreshJob(p).eligible + FreshJob(p).skipped = FreshJob(p).selected
         /\ FreshJob(p).eligible <= FreshJob(p).selected /\ FreshJob(p).skipped <= FreshJob(p).selected
         /\ FreshJob(p).chats = {t[1] : t \in TargetsOf(Steps(p))}
<1>1. /\ IsFiniteSet(p.items) /\ Cardinality(p.items) \in Nat /\ Cardinality(EveryoneOf(p.items)) \in Nat
  BY EveryoneFinite DEF Plannable, ItemsForm
<1>2. /\ IsFiniteSet(p.items \ EveryoneOf(p.items))
      /\ Cardinality(p.items \ EveryoneOf(p.items)) =
           Cardinality(p.items) - Cardinality(p.items \cap EveryoneOf(p.items))
  BY <1>1, FS_Difference
<1>3. p.items \cap EveryoneOf(p.items) = EveryoneOf(p.items)
  BY DEF EveryoneOf
<1>4. Cardinality(p.items \ EveryoneOf(p.items)) \in Nat
  BY <1>2, FS_CardinalityType
<1>5. FreshJob(p).chats = {t[1] : t \in TargetsOf(Steps(p))}
  BY TargetsCounted DEF FreshJob
<1> DEFINE all == Cardinality(p.items)
           some == Cardinality(EveryoneOf(p.items))
           rest == Cardinality(p.items \ EveryoneOf(p.items))
<1>6. FreshJob(p).selected = all /\ FreshJob(p).eligible = some /\ FreshJob(p).skipped = rest
  BY DEF FreshJob
<1>7. rest = all - some /\ all \in Nat /\ some \in Nat /\ rest \in Nat
  BY <1>1, <1>2, <1>3, <1>4
<1> HIDE DEF all, some, rest
<1>8. some + rest = all /\ some <= all /\ rest <= all
  BY <1>7
<1> QED BY <1>5, <1>6, <1>8

(* Batches of a plan as its property describes them.                        *)
LEMMA BatchesHold ==
  ASSUME NEW items, ItemsForm(items)
  PROVE  LET batches == EveryoneBatches(items)
         IN /\ UNION {ToSet(batches[n]) : n \in DOMAIN batches} = {<<x.chat, x.id>> : x \in EveryoneOf(items)}
            /\ \A n \in DOMAIN batches :
                  /\ Len(batches[n]) \in 1..BatchSize
                  /\ Cardinality({batches[n][k][1] : k \in DOMAIN batches[n]}) = 1
                  /\ \A l \in DOMAIN batches : n # l => ToSet(batches[n]) \cap ToSet(batches[l]) = {}
<1> DEFINE b == EveryoneBatches(items)
<1>1. Cut(b, Keys(items))
  BY BatchesCut
<1> HIDE DEF b
<1>2. ASSUME NEW n \in DOMAIN b PROVE Cardinality({b[n][k][1] : k \in DOMAIN b[n]}) = 1
  <2>1. IsList(b[n]) /\ Len(b[n]) \in 1..BatchSize /\ \E c : \A k \in DOMAIN b[n] : b[n][k][1] = c
    BY <1>1 DEF Cut
  <2>2. 1 \in DOMAIN b[n]
    BY <2>1, ListFacts
  <2>3. PICK c : \A k \in DOMAIN b[n] : b[n][k][1] = c
    BY <2>1
  <2>4. {b[n][k][1] : k \in DOMAIN b[n]} = {c}
    BY <2>2, <2>3
  <2> QED BY <2>4, FS_Singleton
<1>3. UNION {ToSet(b[n]) : n \in DOMAIN b} = {<<x.chat, x.id>> : x \in EveryoneOf(items)}
  BY <1>1 DEF Cut, Keys
<1>4. \A n \in DOMAIN b : /\ Len(b[n]) \in 1..BatchSize
                          /\ \A l \in DOMAIN b : n # l => ToSet(b[n]) \cap ToSet(b[l]) = {}
  BY <1>1 DEF Cut
<1> QED BY <1>2, <1>3, <1>4 DEF b

-----------------------------------------------------------------------------
(* The items that messages become.                                          *)
LEMMA SummariesCohere ==
  ASSUME NEW s \in Statuses
  PROVE  Coherent(Summarized(s))
<1>1. \/ s.kind \in {"BasicGroup", "Supergroup", "Channel"} /\
           s.status \in {"creator", "admin", "limited", "member", "restricted", "outside"}
      \/ s.kind \in {"Direct", "Secret"} /\ s.status = "private"
  BY TelegramPlanningAssumption
<1>2. /\ Summarized(s).group => Summarized(s).role = "Owner"
      /\ Summarized(s).sender => Summarized(s).kind = "Supergroup" /\ Summarized(s).others
  BY DEF Summarized
<1>3. Summarized(s).leave =>
        s.status \in {"admin", "limited", "member", "restricted"} /\ Summarized(s).role # "Owner"
  BY <1>1 DEF Summarized, Standing
<1>4. Summarized(s).kind = s.kind
  BY DEF Summarized
<1> QED BY <1>1, <1>2, <1>3, <1>4 DEF Coherent, GroupKinds

LEMMA MessagesFinite ==
  ASSUME NEW x \in SUBSET Letters
  PROVE  IsFiniteSet(x) /\ Cardinality(x) \in Nat
BY TelegramPlanningAssumption, FS_Subset, FS_CardinalityType

LEMMA ItemsHold ==
  ASSUME reach \in [Letters -> Reaches], NEW x \in SUBSET Letters
  PROVE  /\ ItemsForm(PlanItems(x)) /\ Cardinality(PlanItems(x)) <= Cardinality(x)
         /\ (\A m \in x : m.chat = TargetChat) => \A y \in PlanItems(x) : y.chat = TargetChat
         /\ EveryoneOf(PlanItems(x)) # {} <=> \E m \in x : reach[m] = "Everyone"
<1> DEFINE become(m) == [chat |-> m.chat, id |-> m.id, reach |-> reach[m]]
           items == PlanItems(x)
           g == [m \in x |-> become(m)]
<1>1. items = {become(m) : m \in x}
  BY DEF PlanItems
<1>2. IsFiniteSet(items) /\ Cardinality(items) <= Cardinality(x)
  <2>1. g \in Surjection(x, items)
    BY <1>1 DEF Surjection
  <2> HIDE DEF g, items
  <2> QED BY <2>1, MessagesFinite, FS_Surjection
<1>3. \A m \in x : m.chat \in Int /\ m.id \in Int /\ reach[m] \in Reaches
  BY TelegramPlanningAssumption
<1>4. items \subseteq [chat : Int, id : Int, reach : Reaches]
  BY <1>1, <1>3
<1>5. \A m, n \in x : m.chat = n.chat /\ m.id = n.id => m = n
  BY TelegramPlanningAssumption
<1>6. \A y, z \in items : y.chat = z.chat /\ y.id = z.id => y = z
  BY <1>1, <1>5
<1>7. (\A m \in x : m.chat = TargetChat) => \A y \in items : y.chat = TargetChat
  BY <1>1
<1>8. EveryoneOf(items) # {} <=> \E m \in x : reach[m] = "Everyone"
  <2>1. ASSUME NEW m \in x, reach[m] = "Everyone" PROVE become(m) \in EveryoneOf(items)
    BY <1>1, <2>1 DEF EveryoneOf
  <2>2. ASSUME NEW y \in EveryoneOf(items) PROVE \E m \in x : reach[m] = "Everyone"
    BY <1>1, <2>2 DEF EveryoneOf
  <2> QED BY <2>1, <2>2
<1> QED BY <1>2, <1>4, <1>6, <1>7, <1>8 DEF ItemsForm

LEMMA NothingIsOk == ItemsForm({}) /\ Cardinality({}) = 0
BY FS_EmptySet DEF ItemsForm

LEMMA StockIs ==
  ASSUME NEW op
  PROVE  /\ Stock(op) \in SUBSET Letters /\ \A m \in Stock(op) : m.chat = TargetChat
         /\ op = "ClearHistoryAndLeave" => Stock(op) = {}
BY DEF Stock

LEMMA MadeIs ==
  ASSUME NEW op, NEW chat, NEW sender, NEW items
  PROVE  LET p == Made(op, chat, sender, items)
         IN /\ p = Made(p.op, p.conversation, p.sender, p.items)
            /\ p.op = op /\ p.conversation = chat /\ p.sender = sender /\ p.items = items
BY DEF Made

(* What each endpoint makes of its intent.                                  *)
LEMMA ConstructedAre ==
  ASSUME reach \in [Letters -> Reaches], intent \in Intents, NEW p \in Constructed
  PROVE  /\ Plannable(p)
         /\ intent \in ChatWide => p.op = intent /\ Capable(intent, looked)
         /\ intent = "LeaveChat" => p.op = LeaveOperation(looked) /\ looked.leave
         /\ intent = "DeleteMyMessages" => p.op = intent
         /\ intent = "SelectedMessages" => p.op = intent /\ \E m \in Selection : reach[m] = "Everyone"
<1>0. intent \in {"SelectedMessages", "DeleteMyMessages", "LeaveChat", "DeleteBySender",
                  "ClearHistory", "RemoveChatForSelf", "DeleteGroup"}
  BY DEF Intents, ChatWide
<1>1. CASE intent = "SelectedMessages"
  <2> DEFINE items == PlanItems(Selection)
  <2>1. p = Made("SelectedMessages", {}, {}, items) /\ Cardinality(Selection) <= MaxTargets /\ EveryoneOf(items) # {}
    BY <1>1 DEF Constructed, SelectedPlans, Worthwhile, PlannedItems
  <2>2. Selection \in SUBSET Letters
    BY TelegramPlanningAssumption
  <2>3. ItemsForm(items) /\ Cardinality(items) <= Cardinality(Selection) /\ \E m \in Selection : reach[m] = "Everyone"
    BY <2>1, <2>2, ItemsHold
  <2>4. Cardinality(items) <= MaxTargets
    <3>1. Cardinality(items) \in Nat /\ Cardinality(Selection) \in Nat
      BY <2>2, <2>3, MessagesFinite, EveryoneFinite
    <3> QED BY <2>1, <2>3, <3>1, TelegramPlanningAssumption
  <2> HIDE DEF items
  <2>5. p = Made(p.op, p.conversation, p.sender, p.items) /\ p.op = "SelectedMessages" /\ p.conversation = {}
        /\ p.sender = {} /\ p.items = items
    BY <2>1, MadeIs
  <2>6. Plannable(p)
    BY <2>1, <2>3, <2>4, <2>5 DEF Plannable, Messages, ChatWide
  <2> QED BY <1>1, <2>3, <2>5, <2>6 DEF ChatWide
<1>2. CASE intent = "DeleteMyMessages"
  <2> DEFINE stock == Stock("DeleteMyMessages")
             items == PlanItems(stock)
  <2>1. p = Made("DeleteMyMessages", {TargetChat}, {}, items) /\ Cardinality(stock) <= MaxTargets /\ EveryoneOf(items) # {}
    BY <1>2 DEF Constructed, OwnPlans, Worthwhile, PlannedItems
  <2>2. stock \in SUBSET Letters /\ \A m \in stock : m.chat = TargetChat
    BY StockIs
  <2> HIDE DEF stock
  <2>3. ItemsForm(items) /\ Cardinality(items) <= Cardinality(stock) /\ \A y \in items : y.chat = TargetChat
    BY <2>2, ItemsHold
  <2>4. Cardinality(items) <= MaxTargets
    <3>1. Cardinality(items) \in Nat /\ Cardinality(stock) \in Nat
      BY <2>2, <2>3, MessagesFinite, EveryoneFinite
    <3> QED BY <2>1, <2>3, <3>1, TelegramPlanningAssumption
  <2> HIDE DEF items
  <2>5. p = Made(p.op, p.conversation, p.sender, p.items) /\ p.op = "DeleteMyMessages" /\ p.conversation = {TargetChat}
        /\ p.sender = {} /\ p.items = items
    BY <2>1, MadeIs
  <2>6. Plannable(p)
    BY <2>1, <2>3, <2>4, <2>5 DEF Plannable, Messages, ChatWide
  <2> QED BY <1>2, <2>5, <2>6 DEF ChatWide
<1>3. CASE intent = "LeaveChat"
  <2> DEFINE op == LeaveOperation(looked)
             stock == Stock(op)
             items == PlanItems(stock)
  <2>1. p = Made(op, {TargetChat}, {}, items) /\ Cardinality(stock) <= MaxTargets /\ looked.leave
    BY <1>3 DEF Constructed, LeavingPlans, PlannedItems
  <2>2. op \in Leavings
    BY DEF LeaveOperation, Leavings
  <2> HIDE DEF op
  <2>3. /\ stock \in SUBSET Letters /\ \A m \in stock : m.chat = TargetChat
        /\ op = "ClearHistoryAndLeave" => stock = {}
    BY StockIs
  <2> HIDE DEF stock
  <2>4. ItemsForm(items) /\ Cardinality(items) <= Cardinality(stock) /\ \A y \in items : y.chat = TargetChat
    BY <2>3, ItemsHold
  <2>5. Cardinality(items) <= MaxTargets
    <3>1. Cardinality(items) \in Nat /\ Cardinality(stock) \in Nat
      BY <2>3, <2>4, MessagesFinite, EveryoneFinite
    <3> QED BY <2>1, <2>4, <3>1, TelegramPlanningAssumption
  <2>6. op = "ClearHistoryAndLeave" => items = {}
    BY <2>3 DEF PlanItems
  <2> HIDE DEF items
  <2>7. p = Made(p.op, p.conversation, p.sender, p.items) /\ p.op = op /\ p.conversation = {TargetChat}
        /\ p.sender = {} /\ p.items = items
    BY <2>1, MadeIs
  <2>8. Plannable(p)
    BY <2>2, <2>4, <2>5, <2>6, <2>7 DEF Plannable, Messages, ChatWide, Leavings
  <2> QED BY <1>3, <2>1, <2>7, <2>8 DEF ChatWide, op
<1>4. CASE intent = "DeleteBySender"
  <2>1. PICK n \in Senders : p = Made("DeleteBySender", {TargetChat}, {n}, {}) /\ looked.sender
    BY <1>4 DEF Constructed, SenderPlans
  <2>2. p = Made(p.op, p.conversation, p.sender, p.items) /\ p.op = "DeleteBySender" /\ p.conversation = {TargetChat}
        /\ p.sender = {n} /\ p.items = {}
    BY <2>1, MadeIs
  <2>3. Plannable(p)
    BY <2>2, NothingIsOk, TelegramPlanningAssumption DEF Plannable, Messages, ChatWide, Leavings
  <2> QED BY <1>4, <2>1, <2>2, <2>3 DEF ChatWide, Capable
<1>5. CASE intent \in {"ClearHistory", "RemoveChatForSelf", "DeleteGroup"}
  <2>1. p = Made(intent, {TargetChat}, {}, {}) /\ Capable(intent, looked)
    BY <1>5 DEF Constructed, ChatPlans
  <2>2. p = Made(p.op, p.conversation, p.sender, p.items) /\ p.op = intent /\ p.conversation = {TargetChat}
        /\ p.sender = {} /\ p.items = {}
    BY <2>1, MadeIs
  <2>3. Plannable(p)
    BY <1>5, <2>2, NothingIsOk, TelegramPlanningAssumption DEF Plannable, Messages, ChatWide, Leavings
  <2> QED BY <1>5, <2>1, <2>2, <2>3 DEF ChatWide
<1> QED BY <1>0, <1>1, <1>2, <1>3, <1>4, <1>5

(* Why an endpoint makes none.                                              *)
LEMMA NoneConstructed ==
  ASSUME reach \in [Letters -> Reaches], intent \in Intents, Coherent(looked), Constructed = {}
  PROVE  /\ intent \in ChatWide => ~Capable(intent, looked)
         /\ intent = "LeaveChat" => ~looked.leave \/ Cardinality(Stock(LeaveOperation(looked))) > MaxTargets
         /\ intent = "SelectedMessages" =>
               \/ \E m \in Selection : reach[m] = "Gone"
               \/ ~\E m \in Selection : reach[m] = "Everyone"
<1>1. CASE intent = "SelectedMessages"
  <2>1. SUFFICES ASSUME \A m \in Selection : reach[m] # "Gone" PROVE ~\E m \in Selection : reach[m] = "Everyone"
    BY <1>1 DEF ChatWide
  <2>2. Worthwhile(Selection) = {}
    BY <1>1, <2>1 DEF Constructed, SelectedPlans
  <2>3. Selection \in SUBSET Letters /\ Cardinality(Selection) <= MaxTargets
    BY TelegramPlanningAssumption
  <2>4. PlannedItems(Selection) = {PlanItems(Selection)}
    BY <2>3 DEF PlannedItems
  <2>5. EveryoneOf(PlanItems(Selection)) = {}
    BY <2>2, <2>4 DEF Worthwhile
  <2> QED BY <2>3, <2>5, ItemsHold
<1>2. CASE intent = "LeaveChat"
  <2> DEFINE stock == Stock(LeaveOperation(looked))
  <2>1. SUFFICES ASSUME looked.leave PROVE Cardinality(stock) > MaxTargets
    BY <1>2 DEF ChatWide
  <2>2. PlannedItems(stock) = {}
    BY <1>2, <2>1 DEF Constructed, LeavingPlans
  <2>3. ~(Cardinality(stock) <= MaxTargets)
    BY <2>2 DEF PlannedItems
  <2>4. Cardinality(stock) \in Nat
    BY StockIs, MessagesFinite
  <2> QED BY <2>3, <2>4, TelegramPlanningAssumption
<1>3. CASE intent \in ChatWide
  <2>1. CASE intent = "DeleteBySender"
    <3>1. PICK n \in Senders : TRUE
      BY TelegramPlanningAssumption
    <3>2. looked.sender => Made("DeleteBySender", {TargetChat}, {n}, {}) \in SenderPlans
      BY <3>1 DEF SenderPlans
    <3>3. SenderPlans = {}
      BY <2>1 DEF Constructed
    <3> QED BY <2>1, <3>2, <3>3 DEF Capable
  <2>2. CASE intent \in {"ClearHistory", "RemoveChatForSelf", "DeleteGroup"}
    <3>1. Capable(intent, looked) => Made(intent, {TargetChat}, {}, {}) \in ChatPlans
      BY DEF ChatPlans
    <3>2. ChatPlans = {}
      BY <2>2 DEF Constructed
    <3> QED BY <2>2, <3>1, <3>2
  <2> QED BY <1>3, <2>1, <2>2 DEF ChatWide
<1> QED BY <1>1, <1>2, <1>3

-----------------------------------------------------------------------------
Early == {"new", "described", "offered"}
Approved == {"published", "reopened", "prompted", "started", "resolved"}

(* What the two readings of the chat have offered.                          *)
OfferedFirst ==
  /\ \A i \in ChatWide : /\ offered[i].available = Capable(i, Summarized(status))
                          /\ offered[i].kinds = {KindOf(i)}
  /\ offered["SelectedMessages"].available <=> \E m \in Selection : reach[m] = "Everyone"
  /\ offered["SelectedMessages"].kinds = {"DeleteRemoteItem"}
OfferedThen ==
  LET c == Summarized(status)
  IN /\ offered["LeaveChat"].available = c.leave
     /\ offered["LeaveChat"].kinds = {IF c.clear THEN "ClearConversation" ELSE "DeleteRemoteItem",
                                      "LeaveConversation", "RemoveForCurrentAccount"}
     /\ offered["DeleteMyMessages"].available <=> ActiveGroup(c)
     /\ offered["DeleteMyMessages"].kinds = {"DeleteRemoteItem"}

PlanningTypes ==
  /\ status \in Statuses /\ reach \in [Letters -> Reaches]
  /\ shifts \in Nat /\ offeredAt = 0 /\ offered = [i \in Intents |-> offered[i]]
  /\ step \in Early \cup {"looked", "refused", "unsealable"} \cup Approved
  /\ step \notin Early => intent \in Intents
(* As long as nothing has changed, the offers and what is looked at are of  *)
(* the chat as it is.                                                       *)
PlanningCurrent ==
  /\ step = "new" => shifts = 0
  /\ shifts = 0 =>
        /\ \A m \in Selection : reach[m] # "Gone"
        /\ step # "new" => OfferedFirst
        /\ step \notin {"new", "described"} => OfferedThen
        /\ step \notin Early => looked = Summarized(status)
PlanningLooked ==
  /\ \E s \in Statuses : looked = Summarized(s)
  /\ step = "looked" /\ intent = "DeleteMyMessages" => ActiveGroup(looked)
(* From its publication on a plan is one that an endpoint can have made,    *)
(* and its envelope is its own.                                             *)
PlanningMade ==
  /\ step \in Approved =>
        /\ Plannable(plan) /\ Sealable(plan)
        /\ envelope \in {Bound(plan), Historical(Bound(plan))}
  /\ step = "published" => envelope = Bound(plan)
  /\ step = "prompted" => prompt = Reason(plan)
  /\ step = "started" => job = FreshJob(plan)
PlanningInv == PlanningTypes /\ PlanningCurrent /\ PlanningLooked /\ PlanningMade /\ PlansAreWhatWasOffered

LEMMA SealedIs ==
  ASSUME NEW p, Plannable(p), Sealable(p), NEW e \in {Bound(p), Historical(Bound(p))}
  PROVE  ValidEnvelope(e) /\ Legacy(e.recipe) = {p} /\ e.targets = TargetsOf(Steps(p))
BY PlanSeals, PlanPasses, EnvelopeOf

LEMMA NothingSealed ==
  /\ step \in Early \cup {"looked"} => PlansAreWhatWasOffered
  /\ step' \in Early \cup {"looked"} => PlansAreWhatWasOffered'
BY DEF PlansAreWhatWasOffered, Early

LEMMA PlanningStarts == PlanningInit => PlanningInv
<1> SUFFICES ASSUME PlanningInit PROVE PlanningInv
  OBVIOUS
<1> USE DEF PlanningInit
<1>1. PlansAreWhatWasOffered
  BY NothingSealed DEF Early
<1>2. PlanningTypes
  <2>1. reach \in [Letters -> Reaches]
    BY DEF Reaches
  <2>2. offered = [i \in Intents |-> offered[i]]
    OBVIOUS
  <2> QED BY <2>1, <2>2 DEF PlanningTypes, Early
<1>3. PlanningCurrent
  BY DEF PlanningCurrent, Early
<1>4. PlanningLooked /\ PlanningMade
  BY DEF PlanningLooked, PlanningMade, Approved
<1> QED BY <1>1, <1>2, <1>3, <1>4 DEF PlanningInv

LEMMA DescribeKeeps == PlanningInv /\ Describe => PlanningInv'
<1> SUFFICES ASSUME PlanningInv, Describe PROVE PlanningInv'
  OBVIOUS
<1>1. /\ step = "new" /\ step' = "described" /\ offeredAt' = shifts /\ shifts = 0
      /\ UNCHANGED <<envelope, prompt, job, status, reach, shifts, intent, looked, plan, permitted>>
  BY DEF PlanningInv, PlanningCurrent, Describe, Unsealed
<1>2. PlansAreWhatWasOffered'
  BY <1>1, NothingSealed DEF Early
<1>3. /\ offered' = [i \in Intents |-> offered'[i]]
      /\ OfferedFirst'
  <2> DEFINE c == Summarized(status)
             o == [i \in Intents |->
                    CASE i \in ChatWide -> [available |-> Capable(i, c), kinds |-> {KindOf(i)}]
                      [] i = "SelectedMessages" ->
                           [available |-> \E m \in Selection : reach[m] = "Everyone",
                            kinds |-> {"DeleteRemoteItem"}]
                      [] OTHER -> offered[i]]
  <2>1. offered' = o
    BY DEF Describe
  <2>2. o = [i \in Intents |-> o[i]]
    OBVIOUS
  <2>3. \A i \in ChatWide : o[i] = [available |-> Capable(i, c), kinds |-> {KindOf(i)}]
    <3>1. ChatWide \subseteq Intents /\ "SelectedMessages" \notin ChatWide
      BY DEF Intents, ChatWide
    <3> HIDE DEF c
    <3> QED BY <3>1
  <2>4. o["SelectedMessages"] = [available |-> \E m \in Selection : reach[m] = "Everyone",
                                 kinds |-> {"DeleteRemoteItem"}]
    BY DEF Intents, ChatWide
  <2> HIDE DEF o
  <2>5. OfferedFirst'
    <3>1. ASSUME NEW i \in ChatWide PROVE o[i].available = Capable(i, c) /\ o[i].kinds = {KindOf(i)}
      <4> DEFINE able == Capable(i, c)
                 kinds == {KindOf(i)}
      <4>1. o[i] = [available |-> able, kinds |-> kinds]
        BY <2>3
      <4> HIDE DEF able, kinds
      <4>2. o[i].available = able /\ o[i].kinds = kinds
        BY <4>1
      <4> QED BY <4>2 DEF able, kinds
    <3>2. /\ o["SelectedMessages"].available <=> \E m \in Selection : reach[m] = "Everyone"
          /\ o["SelectedMessages"].kinds = {"DeleteRemoteItem"}
      BY <2>4
    <3> QED BY <1>1, <2>1, <3>1, <3>2 DEF OfferedFirst
  <2> QED BY <2>1, <2>2, <2>5
<1>4. PlanningTypes'
  BY <1>1, <1>3 DEF PlanningInv, PlanningTypes, Early
<1>5. PlanningCurrent'
  BY <1>1, <1>3 DEF PlanningInv, PlanningCurrent, Early
<1>6. PlanningLooked' /\ PlanningMade'
  BY <1>1 DEF PlanningInv, PlanningLooked, PlanningMade, Approved
<1> QED BY <1>2, <1>4, <1>5, <1>6 DEF PlanningInv

LEMMA DescribeLeavingKeeps == PlanningInv /\ DescribeLeaving => PlanningInv'
<1> SUFFICES ASSUME PlanningInv, DescribeLeaving PROVE PlanningInv'
  OBVIOUS
<1>1. /\ step = "described" /\ step' = "offered"
      /\ UNCHANGED <<envelope, prompt, job, status, reach, shifts, offeredAt, intent, looked, plan, permitted>>
  BY DEF DescribeLeaving, Unsealed
<1>2. PlansAreWhatWasOffered'
  BY <1>1, NothingSealed DEF Early
<1>3. /\ offered' = [i \in Intents |-> offered'[i]]
      /\ OfferedFirst => OfferedFirst'
      /\ OfferedThen'
  <2> DEFINE c == Summarized(status)
             leaving == [available |-> c.leave,
                         kinds |-> {IF c.clear THEN "ClearConversation" ELSE "DeleteRemoteItem",
                                    "LeaveConversation", "RemoveForCurrentAccount"}]
             own == [available |-> ActiveGroup(c), kinds |-> {"DeleteRemoteItem"}]
  <2>1. offered' = [offered EXCEPT !["LeaveChat"] = leaving, !["DeleteMyMessages"] = own]
    BY DEF DescribeLeaving
  <2> HIDE DEF leaving, own
  <2>2. DOMAIN offered = Intents
    BY DEF PlanningInv, PlanningTypes
  <2>3. offered' = [i \in Intents |-> IF i = "DeleteMyMessages" THEN own
                                      ELSE IF i = "LeaveChat" THEN leaving ELSE offered[i]]
    BY <2>1, <2>2
  <2>4. offered' = [i \in Intents |-> offered'[i]]
    BY <2>3
  <2>5. offered'["LeaveChat"] = leaving /\ offered'["DeleteMyMessages"] = own
    BY <2>3 DEF Intents
  <2>6. \A i \in ChatWide \cup {"SelectedMessages"} : offered'[i] = offered[i]
    BY <2>3 DEF Intents, ChatWide
  <2>7. OfferedFirst => OfferedFirst'
    BY <1>1, <2>6 DEF OfferedFirst
  <2>8. OfferedThen'
    <3>1. /\ leaving.available = c.leave
          /\ leaving.kinds = {IF c.clear THEN "ClearConversation" ELSE "DeleteRemoteItem",
                              "LeaveConversation", "RemoveForCurrentAccount"}
      BY DEF leaving
    <3>2. (own.available <=> ActiveGroup(c)) /\ own.kinds = {"DeleteRemoteItem"}
      BY DEF own
    <3> QED BY <1>1, <2>5, <3>1, <3>2 DEF OfferedThen
  <2> QED BY <2>4, <2>7, <2>8
<1>4. PlanningTypes'
  BY <1>1, <1>3 DEF PlanningInv, PlanningTypes, Early
<1>5. PlanningCurrent'
  BY <1>1, <1>3 DEF PlanningInv, PlanningCurrent, Early
<1>6. PlanningLooked' /\ PlanningMade'
  BY <1>1 DEF PlanningInv, PlanningLooked, PlanningMade, Approved
<1> QED BY <1>2, <1>4, <1>5, <1>6 DEF PlanningInv

LEMMA LookupKeeps == PlanningInv /\ LookupChat => PlanningInv'
<1> SUFFICES ASSUME PlanningInv, LookupChat PROVE PlanningInv'
  OBVIOUS
<1>1. /\ step = "offered" /\ step' \in {"looked", "refused"}
      /\ intent' \in Intents /\ looked' = Summarized(status)
      /\ step' = "refused" => intent' = "DeleteMyMessages"
      /\ step' = "looked" /\ intent' = "DeleteMyMessages" => ActiveGroup(looked')
      /\ UNCHANGED <<envelope, prompt, job, status, reach, shifts, offered, offeredAt, plan, permitted>>
  BY DEF LookupChat, Unsealed
<1>2. PlansAreWhatWasOffered'
  <2>1. CASE step' = "looked"
    BY <2>1, NothingSealed
  <2>2. CASE step' = "refused"
    BY <1>1, <2>2 DEF PlansAreWhatWasOffered
  <2> QED BY <1>1, <2>1, <2>2
<1>3. PlanningTypes'
  BY <1>1 DEF PlanningInv, PlanningTypes, Early
<1>4. PlanningCurrent'
  <2>1. OfferedFirst' <=> OfferedFirst
    BY <1>1 DEF OfferedFirst
  <2>2. OfferedThen' <=> OfferedThen
    BY <1>1 DEF OfferedThen
  <2> QED BY <1>1, <2>1, <2>2 DEF PlanningInv, PlanningCurrent, Early
<1>5. PlanningLooked'
  BY <1>1 DEF PlanningInv, PlanningTypes, PlanningLooked
<1>6. PlanningMade'
  BY <1>1 DEF PlanningMade, Approved
<1> QED BY <1>2, <1>3, <1>4, <1>5, <1>6 DEF PlanningInv

(* Nothing having changed, what is published is what was offered.           *)
LEMMA PublishedWasOffered ==
  ASSUME PlanningInv, step = "looked", shifts = 0, NEW p \in Constructed
  PROVE  /\ offered[intent].available
         /\ Kinds(p) \subseteq offered[intent].kinds
         /\ "ClearConversation" \in offered[intent].kinds => "ClearConversation" \in Kinds(p)
<1>1. /\ OfferedFirst /\ OfferedThen /\ looked = Summarized(status) /\ intent \in Intents
      /\ intent = "DeleteMyMessages" => ActiveGroup(looked)
  BY DEF PlanningInv, PlanningTypes, PlanningCurrent, PlanningLooked, Early
<1>2. /\ Plannable(p)
      /\ intent \in ChatWide => p.op = intent /\ Capable(intent, looked)
      /\ intent = "LeaveChat" => p.op = LeaveOperation(looked) /\ looked.leave
      /\ intent = "DeleteMyMessages" => p.op = intent
      /\ intent = "SelectedMessages" => p.op = intent /\ \E m \in Selection : reach[m] = "Everyone"
  BY ConstructedAre DEF PlanningInv, PlanningTypes, Early
<1>3. Kinds(p) = (IF EveryoneOf(p.items) # {} THEN {"DeleteRemoteItem"} ELSE {}) \cup ActsOf(p.op)
  BY <1>2, StepsAre
<1>4. p.op \in ChatWide \cup {"ClearHistoryAndLeave"} => EveryoneOf(p.items) = {}
  BY <1>2 DEF Plannable, EveryoneOf
<1>5. CASE intent \in ChatWide
  <2>1. Kinds(p) = {KindOf(intent)}
    <3>1. ActsOf(intent) = {KindOf(intent)}
      BY <1>5 DEF ActsOf, ChatWide
    <3>2. p.op = intent /\ EveryoneOf(p.items) = {}
      BY <1>2, <1>4, <1>5
    <3> QED BY <1>3, <3>1, <3>2
  <2>2. offered[intent].available = Capable(intent, looked) /\ offered[intent].kinds = {KindOf(intent)}
    BY <1>1, <1>5 DEF OfferedFirst
  <2> QED BY <1>2, <1>5, <2>1, <2>2
<1>6. CASE intent = "SelectedMessages"
  <2>1. Kinds(p) \subseteq {"DeleteRemoteItem"}
    BY <1>2, <1>3, <1>6 DEF ActsOf, ChatWide
  <2>2. /\ offered[intent].available <=> \E m \in Selection : reach[m] = "Everyone"
        /\ offered[intent].kinds = {"DeleteRemoteItem"}
    BY <1>1, <1>6 DEF OfferedFirst
  <2> QED BY <1>2, <1>6, <2>1, <2>2
<1>7. CASE intent = "DeleteMyMessages"
  <2>1. Kinds(p) \subseteq {"DeleteRemoteItem"}
    BY <1>2, <1>3, <1>7 DEF ActsOf, ChatWide
  <2>2. (offered[intent].available <=> ActiveGroup(looked)) /\ offered[intent].kinds = {"DeleteRemoteItem"}
    BY <1>1, <1>7 DEF OfferedThen
  <2> QED BY <1>1, <1>7, <2>1, <2>2
<1>8. CASE intent = "LeaveChat"
  <2>1. /\ offered[intent].available = looked.leave
        /\ offered[intent].kinds = {IF looked.clear THEN "ClearConversation" ELSE "DeleteRemoteItem",
                                    "LeaveConversation", "RemoveForCurrentAccount"}
    BY <1>1, <1>8 DEF OfferedThen
  <2>2. CASE looked.clear
    <3>1. p.op = "ClearHistoryAndLeave"
      BY <1>2, <1>8, <2>2 DEF LeaveOperation
    <3>2. Kinds(p) = {"ClearConversation", "LeaveConversation", "RemoveForCurrentAccount"}
      BY <1>3, <1>4, <3>1 DEF ActsOf, ChatWide
    <3> QED BY <1>2, <1>8, <2>1, <2>2, <3>2
  <2>3. CASE ~looked.clear
    <3>1. p.op \in {"LeaveChat", "DeleteAllMessagesAndLeave"}
      BY <1>2, <1>8, <2>3 DEF LeaveOperation
    <3>2. Kinds(p) \subseteq {"DeleteRemoteItem", "LeaveConversation", "RemoveForCurrentAccount"}
      BY <1>3, <3>1 DEF ActsOf, ChatWide
    <3> QED BY <1>2, <1>8, <2>1, <2>3, <3>2
  <2> QED BY <2>2, <2>3
<1> QED BY <1>1, <1>5, <1>6, <1>7, <1>8 DEF Intents

(* Nothing having changed, what is refused was not offered.                 *)
LEMMA RefusedWasNotOffered ==
  ASSUME PlanningInv, step = "looked", shifts = 0, Constructed = {}, intent # "DeleteMyMessages"
  PROVE  \/ ~offered[intent].available
         \/ intent = "LeaveChat" /\ Cardinality(Stock(LeaveOperation(looked))) > MaxTargets
<1>1. /\ OfferedFirst /\ OfferedThen /\ looked = Summarized(status) /\ intent \in Intents
      /\ \A m \in Selection : reach[m] # "Gone"
  BY DEF PlanningInv, PlanningTypes, PlanningCurrent, Early
<1>2. Coherent(looked) /\ reach \in [Letters -> Reaches]
  BY <1>1, SummariesCohere DEF PlanningInv, PlanningTypes
<1>3. /\ intent \in ChatWide => ~Capable(intent, looked)
      /\ intent = "LeaveChat" => ~looked.leave \/ Cardinality(Stock(LeaveOperation(looked))) > MaxTargets
      /\ intent = "SelectedMessages" =>
            \/ \E m \in Selection : reach[m] = "Gone"
            \/ ~\E m \in Selection : reach[m] = "Everyone"
  BY <1>1, <1>2, NoneConstructed
<1>4. CASE intent \in ChatWide
  BY <1>1, <1>3, <1>4 DEF OfferedFirst
<1>5. CASE intent = "SelectedMessages"
  <2>1. ~\E m \in Selection : reach[m] = "Everyone"
    BY <1>1, <1>3, <1>5, TelegramPlanningAssumption
  <2> QED BY <1>1, <1>5, <2>1 DEF OfferedFirst
<1>6. CASE intent = "LeaveChat"
  BY <1>1, <1>3, <1>6 DEF OfferedThen
<1> QED BY <1>1, <1>4, <1>5, <1>6 DEF Intents

LEMMA PublishKeeps == PlanningInv /\ PublishPlan => PlanningInv'
<1> SUFFICES ASSUME PlanningInv, PublishPlan PROVE PlanningInv'
  OBVIOUS
<1>1. /\ step = "looked" /\ step' \in {"refused", "published", "unsealable"}
      /\ UNCHANGED <<status, reach, shifts, offered, offeredAt, intent, looked, prompt, job, permitted>>
  BY DEF PublishPlan
<1>2. PlanningTypes'
  BY <1>1 DEF PlanningInv, PlanningTypes, Early, Approved
<1>3. PlanningCurrent'
  <2>1. (OfferedFirst' <=> OfferedFirst) /\ (OfferedThen' <=> OfferedThen)
    BY <1>1 DEF OfferedFirst, OfferedThen
  <2> QED BY <1>1, <2>1 DEF PlanningInv, PlanningCurrent, Early
<1>4. PlanningLooked'
  BY <1>1 DEF PlanningInv, PlanningLooked
<1>5. CASE Constructed = {}
  <2>1. step' = "refused" /\ UNCHANGED <<plan, envelope>>
    BY <1>5 DEF PublishPlan
  <2>2. PlanningMade'
    BY <2>1 DEF PlanningMade, Approved
  <2>3. Stock(LeaveOperation(looked))' = Stock(LeaveOperation(looked))
    BY <1>1 DEF Stock, LeaveOperation
  <2>4. shifts = 0 /\ intent # "DeleteMyMessages" =>
          \/ ~offered[intent].available
          \/ intent = "LeaveChat" /\ Cardinality(Stock(LeaveOperation(looked))) > MaxTargets
    BY <1>1, <1>5, RefusedWasNotOffered
  <2>5. Unchanged' => shifts = 0
    BY <1>1 DEF Unchanged, PlanningInv, PlanningTypes
  <2>6. PlansAreWhatWasOffered'
    BY <1>1, <2>1, <2>3, <2>4, <2>5 DEF PlansAreWhatWasOffered
  <2> QED BY <1>2, <1>3, <1>4, <2>2, <2>6 DEF PlanningInv
<1>6. CASE Constructed # {}
  <2>1. plan' \in Constructed /\ envelope' = Bound(plan')
        /\ step' = IF Sealable(plan') THEN "published" ELSE "unsealable"
    BY <1>6 DEF PublishPlan
  <2>2. Plannable(plan')
    BY <1>1, <2>1, ConstructedAre DEF PlanningInv, PlanningTypes, Early
  <2>3. PlanningMade'
    BY <2>1, <2>2 DEF PlanningMade, Approved
  <2>4. CASE Sealable(plan')
    <3>1. step' = "published"
      BY <2>1, <2>4
    <3>2. Unchanged' => /\ offered'[intent'].available
                        /\ Kinds(plan') \subseteq offered'[intent'].kinds
                        /\ "ClearConversation" \in offered'[intent'].kinds => "ClearConversation" \in Kinds(plan')
      BY <1>1, <2>1, PublishedWasOffered DEF Unchanged, PlanningInv, PlanningTypes
    <3>3. ItemsForm(plan'.items)
      BY <2>2 DEF Plannable
    <3>4. LET batches == EveryoneBatches(plan'.items)
          IN /\ UNION {ToSet(batches[n]) : n \in DOMAIN batches}
                   = {<<x.chat, x.id>> : x \in EveryoneOf(plan'.items)}
             /\ \A n \in DOMAIN batches :
                   /\ Len(batches[n]) \in 1..BatchSize
                   /\ Cardinality({batches[n][k][1] : k \in DOMAIN batches[n]}) = 1
                   /\ \A l \in DOMAIN batches : n # l => ToSet(batches[n]) \cap ToSet(batches[l]) = {}
      BY <3>3, BatchesHold
    <3>5. PlansAreWhatWasOffered'
      BY <3>1, <3>2, <3>4 DEF PlansAreWhatWasOffered
    <3> QED BY <1>2, <1>3, <1>4, <2>3, <3>5 DEF PlanningInv
  <2>5. CASE ~Sealable(plan')
    <3>1. step' = "unsealable"
      BY <2>1, <2>5
    <3>2. /\ envelope'.steps = Steps(plan') /\ envelope'.targets = TargetsOf(Steps(plan'))
          /\ Len(Steps(plan')) \in Nat /\ Cardinality(TargetsOf(Steps(plan'))) \in Nat
      BY <2>1, <2>2, StepsAre, TargetsCounted, FS_CardinalityType DEF Bound
    <3>3. Len(envelope'.steps) > MaxSteps \/ Cardinality(envelope'.targets) > MaxTargets
      BY <2>2, <2>5, <3>2, PlanSeals, TelegramPlanningAssumption
    <3>4. PlansAreWhatWasOffered'
      BY <3>1, <3>3 DEF PlansAreWhatWasOffered
    <3> QED BY <1>2, <1>3, <1>4, <2>3, <3>4 DEF PlanningInv
  <2> QED BY <2>4, <2>5
<1> QED BY <1>5, <1>6

LEMMA ReopenKeeps == PlanningInv /\ Reopen => PlanningInv'
<1> SUFFICES ASSUME PlanningInv, Reopen PROVE PlanningInv'
  OBVIOUS
<1>1. /\ step = "published" /\ envelope = Bound(plan) /\ Plannable(plan) /\ Sealable(plan)
      /\ UNCHANGED <<status, reach, shifts, offered, offeredAt, intent, looked, prompt, job, permitted>>
  BY DEF PlanningInv, PlanningMade, Approved, Reopen
<1>2. PICK e \in {envelope, Historical(envelope)} :
        /\ envelope' = e
        /\ IF ValidEnvelope(e) THEN step' = "reopened" /\ plan' \in Legacy(e.recipe)
           ELSE step' = "rejected" /\ UNCHANGED plan
  BY DEF Reopen
<1>3. e \in {Bound(plan), Historical(Bound(plan))}
  BY <1>1, <1>2
<1>4. ValidEnvelope(e) /\ Legacy(e.recipe) = {plan}
  BY <1>1, <1>3, SealedIs
<1>5. step' = "reopened" /\ plan' = plan /\ envelope' = e
  BY <1>2, <1>4
<1>6. PlanningTypes'
  BY <1>1, <1>5 DEF PlanningInv, PlanningTypes, Early, Approved
<1>7. PlanningCurrent'
  <2>1. (OfferedFirst' <=> OfferedFirst) /\ (OfferedThen' <=> OfferedThen)
    BY <1>1 DEF OfferedFirst, OfferedThen
  <2> QED BY <1>1, <1>5, <2>1 DEF PlanningInv, PlanningCurrent, Early
<1>8. PlanningLooked'
  BY <1>1, <1>5 DEF PlanningInv, PlanningLooked
<1>9. PlanningMade'
  BY <1>1, <1>3, <1>5 DEF PlanningMade
<1>10. PlansAreWhatWasOffered'
  <2>1. ItemsForm(plan'.items)
    BY <1>1, <1>5 DEF Plannable
  <2>2. LET batches == EveryoneBatches(plan'.items)
        IN /\ UNION {ToSet(batches[n]) : n \in DOMAIN batches}
                 = {<<x.chat, x.id>> : x \in EveryoneOf(plan'.items)}
           /\ \A n \in DOMAIN batches :
                 /\ Len(batches[n]) \in 1..BatchSize
                 /\ Cardinality({batches[n][k][1] : k \in DOMAIN batches[n]}) = 1
                 /\ \A l \in DOMAIN batches : n # l => ToSet(batches[n]) \cap ToSet(batches[l]) = {}
    BY <2>1, BatchesHold
  <2> QED BY <1>5, <2>2 DEF PlansAreWhatWasOffered
<1> QED BY <1>6, <1>7, <1>8, <1>9, <1>10 DEF PlanningInv

LEMMA AskKeeps == PlanningInv /\ AskOwner => PlanningInv'
<1> SUFFICES ASSUME PlanningInv, AskOwner PROVE PlanningInv'
  OBVIOUS
<1>1. /\ step \in {"published", "reopened"} /\ step' = "prompted" /\ prompt' = Reason(plan)
      /\ Plannable(plan) /\ Sealable(plan) /\ envelope \in {Bound(plan), Historical(Bound(plan))}
      /\ UNCHANGED <<status, reach, shifts, offered, offeredAt, intent, looked, plan, envelope, job, permitted>>
  BY DEF PlanningInv, PlanningMade, Approved, AskOwner
<1>2. PlanningTypes'
  BY <1>1 DEF PlanningInv, PlanningTypes, Early, Approved
<1>3. PlanningCurrent'
  <2>1. (OfferedFirst' <=> OfferedFirst) /\ (OfferedThen' <=> OfferedThen)
    BY <1>1 DEF OfferedFirst, OfferedThen
  <2> QED BY <1>1, <2>1 DEF PlanningInv, PlanningCurrent, Early
<1>4. PlanningLooked'
  BY <1>1 DEF PlanningInv, PlanningLooked
<1>5. PlanningMade'
  BY <1>1 DEF PlanningMade
<1>6. envelope.targets = TargetsOf(Steps(plan))
  BY <1>1, SealedIs
<1>7. /\ Reason(plan).count = Cardinality(envelope.targets)
      /\ Reason(plan).deletes = Cardinality({t \in envelope.targets : Len(t) = 2})
      /\ Reason(plan).acts = Kinds(plan) \ ({"DeleteRemoteItem"} \cup
            IF "LeaveConversation" \in Kinds(plan) THEN {"RemoveForCurrentAccount"} ELSE {})
  BY <1>1, <1>6, ReasonIs
<1>8. PlansAreWhatWasOffered'
  BY <1>1, <1>7 DEF PlansAreWhatWasOffered
<1> QED BY <1>2, <1>3, <1>4, <1>5, <1>8 DEF PlanningInv

LEMMA StartKeeps == PlanningInv /\ StartJob => PlanningInv'
<1> SUFFICES ASSUME PlanningInv, StartJob PROVE PlanningInv'
  OBVIOUS
<1>1. /\ step = "prompted" /\ job' = FreshJob(plan)
      /\ step' = IF job'.eligible <= job'.selected /\ job'.skipped <= job'.selected THEN "started" ELSE "rejected"
      /\ Plannable(plan) /\ Sealable(plan) /\ envelope \in {Bound(plan), Historical(Bound(plan))}
      /\ UNCHANGED <<status, reach, shifts, offered, offeredAt, intent, looked, plan, envelope, prompt, permitted>>
  BY DEF PlanningInv, PlanningMade, Approved, StartJob
<1>2. /\ job'.eligible + job'.skipped = job'.selected
      /\ job'.eligible <= job'.selected /\ job'.skipped <= job'.selected
      /\ job'.chats = {t[1] : t \in TargetsOf(Steps(plan))}
  BY <1>1, JobCounts
<1>3. step' = "started"
  BY <1>1, <1>2
<1>4. envelope.targets = TargetsOf(Steps(plan))
  BY <1>1, SealedIs
<1>5. PlanningTypes'
  BY <1>1, <1>3 DEF PlanningInv, PlanningTypes, Early, Approved
<1>6. PlanningCurrent'
  <2>1. (OfferedFirst' <=> OfferedFirst) /\ (OfferedThen' <=> OfferedThen)
    BY <1>1 DEF OfferedFirst, OfferedThen
  <2> QED BY <1>1, <1>3, <2>1 DEF PlanningInv, PlanningCurrent, Early
<1>7. PlanningLooked'
  BY <1>1, <1>3 DEF PlanningInv, PlanningLooked
<1>8. PlanningMade'
  BY <1>1, <1>3 DEF PlanningMade
<1>9. PlansAreWhatWasOffered'
  BY <1>1, <1>2, <1>3, <1>4 DEF PlansAreWhatWasOffered
<1> QED BY <1>5, <1>6, <1>7, <1>8, <1>9 DEF PlanningInv

(* What an operation demands of the chat is what Telegram then allows.      *)
LEMMA DemandsAreAllowed ==
  ASSUME status \in Statuses, NEW p, Plannable(p), p.op \notin Messages, Demands(p.op, Summarized(status))
  PROVE  /\ Kinds(p) \ {"DeleteRemoteItem", "RemoveForCurrentAccount"} \subseteq Allowed
         /\ p.op = "RemoveChatForSelf" => "RemoveForCurrentAccount" \in Allowed
<1> DEFINE c == Summarized(status)
<1>1. Kinds(p) \ {"DeleteRemoteItem"} \subseteq ActsOf(p.op)
  BY StepsAre
<1>2. /\ c.clear = status.clear /\ c.self = status.self /\ c.kind = status.kind
      /\ c.group => status.clear /\ c.role = "Owner" /\ status.kind \in GroupKinds
      /\ c.sender => status.kind = "Supergroup" /\ c.others
      /\ c.role = Standing(status.status).role /\ c.others = Standing(status.status).others
      /\ c.leave = Standing(status.status).leave
  BY DEF Summarized
<1>3. status.status \in {"creator", "admin", "limited", "member", "restricted", "outside", "private"}
  BY TelegramPlanningAssumption
<1>4. /\ Standing(status.status).role = "Owner" => status.status = "creator"
      /\ Standing(status.status).others => status.status \in {"creator", "admin"}
      /\ Standing(status.status).leave => status.status \in {"admin", "limited", "member", "restricted"}
  BY <1>3 DEF Standing
<1>5. p.op \in {"ClearHistory", "RemoveChatForSelf", "DeleteGroup",
                "DeleteBySender", "LeaveChat", "DeleteAllMessagesAndLeave", "ClearHistoryAndLeave"}
  BY DEF Plannable, Messages, Leavings, ChatWide
<1> HIDE DEF c
<1>6. /\ c.clear => "ClearConversation" \in Allowed
      /\ c.self => "RemoveForCurrentAccount" \in Allowed
      /\ c.group => "DeleteConversation" \in Allowed
      /\ c.sender => "DeleteByActor" \in Allowed
      /\ c.leave => "LeaveConversation" \in Allowed
  BY <1>2, <1>4 DEF Allowed
<1>7. Demands(p.op, c)
  BY DEF c
<1>8. CASE p.op \in ChatWide
  BY <1>1, <1>6, <1>7, <1>8 DEF ChatWide, ActsOf, Demands, Capable, KindOf
<1>9. CASE p.op = "ClearHistoryAndLeave"
  BY <1>1, <1>6, <1>7, <1>9 DEF ChatWide, ActsOf, Demands
<1>10. CASE p.op \in {"LeaveChat", "DeleteAllMessagesAndLeave"}
  BY <1>1, <1>6, <1>7, <1>10 DEF ChatWide, ActsOf, Demands
<1> QED BY <1>5, <1>8, <1>9, <1>10 DEF ChatWide

LEMMA ResolveKeeps == PlanningInv /\ ResolveChat => PlanningInv'
<1> SUFFICES ASSUME PlanningInv, ResolveChat PROVE PlanningInv'
  OBVIOUS
<1>1. /\ step = "started" /\ plan.op \notin Messages /\ permitted' = Allowed
      /\ step' = IF Demands(plan.op, Summarized(status)) THEN "resolved" ELSE "refused"
      /\ Plannable(plan) /\ Sealable(plan) /\ envelope \in {Bound(plan), Historical(Bound(plan))}
      /\ UNCHANGED <<envelope, prompt, job, status, reach, shifts, offered, offeredAt, intent, looked, plan>>
  BY DEF PlanningInv, PlanningMade, Approved, ResolveChat, Unsealed
<1>2. step' \in {"resolved", "refused"}
  BY <1>1
<1>3. PlanningTypes'
  BY <1>1, <1>2 DEF PlanningInv, PlanningTypes, Early, Approved
<1>4. PlanningCurrent'
  <2>1. (OfferedFirst' <=> OfferedFirst) /\ (OfferedThen' <=> OfferedThen)
    BY <1>1 DEF OfferedFirst, OfferedThen
  <2> QED BY <1>1, <1>2, <2>1 DEF PlanningInv, PlanningCurrent, Early
<1>5. PlanningLooked'
  BY <1>1, <1>2 DEF PlanningInv, PlanningLooked
<1>6. PlanningMade'
  BY <1>1, <1>2 DEF PlanningMade, Approved
<1>7. CASE step' = "refused"
  <2>1. plan # NoPlan
    BY <1>1 DEF Plannable, NoPlan, Messages, Leavings, ChatWide
  <2>2. PlansAreWhatWasOffered'
    BY <1>1, <1>7, <2>1 DEF PlansAreWhatWasOffered, NoPlan
  <2> QED BY <1>3, <1>4, <1>5, <1>6, <2>2 DEF PlanningInv
<1>8. CASE step' = "resolved"
  <2>1. Demands(plan.op, Summarized(status)) /\ status \in Statuses
    BY <1>1, <1>8 DEF PlanningInv, PlanningTypes
  <2>2. /\ Kinds(plan) \ {"DeleteRemoteItem", "RemoveForCurrentAccount"} \subseteq Allowed
        /\ plan.op = "RemoveChatForSelf" => "RemoveForCurrentAccount" \in Allowed
    BY <1>1, <2>1, DemandsAreAllowed
  <2>3. PlansAreWhatWasOffered'
    BY <1>1, <1>8, <2>2 DEF PlansAreWhatWasOffered
  <2> QED BY <1>3, <1>4, <1>5, <1>6, <2>3 DEF PlanningInv
<1> QED BY <1>2, <1>7, <1>8

LEMMA ShiftKeeps == PlanningInv /\ Shift => PlanningInv'
<1> SUFFICES ASSUME PlanningInv, Shift PROVE PlanningInv'
  OBVIOUS
<1>1. /\ step \in {"described", "offered", "looked", "started"} /\ shifts' = shifts + 1 /\ shifts \in Nat
      /\ UNCHANGED <<envelope, prompt, job, step, offered, offeredAt, intent, looked, plan, permitted>>
  BY DEF PlanningInv, PlanningTypes, Shift, Unsealed
<1>2. shifts' # 0 /\ shifts' \in Nat
  BY <1>1
<1>3. status' \in Statuses /\ reach' \in [Letters -> Reaches]
  <2>1. status \in Statuses /\ reach \in [Letters -> Reaches]
    BY DEF PlanningInv, PlanningTypes
  <2>2. CASE status' \in {s \in Statuses : s.kind = status.kind} /\ UNCHANGED reach
    BY <2>1, <2>2
  <2>3. CASE UNCHANGED status /\ \E m \in Letters :
               reach' \in {[reach EXCEPT ![m] = r] : r \in {"Everyone", "SelfOnly", "Gone"}}
    BY <2>1, <2>3 DEF Reaches
  <2> QED BY <2>2, <2>3 DEF Shift
<1>4. PlanningTypes'
  BY <1>1, <1>2, <1>3 DEF PlanningInv, PlanningTypes
<1>5. PlanningCurrent'
  BY <1>1, <1>2 DEF PlanningCurrent
<1>6. PlanningLooked' /\ PlanningMade'
  BY <1>1 DEF PlanningInv, PlanningLooked, PlanningMade, Approved
<1>7. PlansAreWhatWasOffered'
  <2>1. CASE step \in {"described", "offered", "looked"}
    BY <1>1, <2>1, NothingSealed DEF Early
  <2>2. CASE step = "started"
    BY <1>1, <2>2 DEF PlansAreWhatWasOffered, PlanningInv
  <2> QED BY <1>1, <2>1, <2>2
<1> QED BY <1>4, <1>5, <1>6, <1>7 DEF PlanningInv

LEMMA PlanningIdles == PlanningInv /\ UNCHANGED planningVars => PlanningInv'
<1> SUFFICES ASSUME PlanningInv, UNCHANGED planningVars PROVE PlanningInv'
  OBVIOUS
<1>1. UNCHANGED <<status, reach, shifts, step, offered, offeredAt, intent, looked, plan, envelope,
                  prompt, job, permitted>>
  BY DEF planningVars
<1>2. PlanningTypes' /\ PlanningLooked' /\ PlanningMade'
  BY <1>1 DEF PlanningInv, PlanningTypes, PlanningLooked, PlanningMade
<1>3. (OfferedFirst' <=> OfferedFirst) /\ (OfferedThen' <=> OfferedThen)
  BY <1>1 DEF OfferedFirst, OfferedThen
<1>4. PlanningCurrent'
  BY <1>1, <1>3 DEF PlanningInv, PlanningCurrent
<1>5. Stock(LeaveOperation(looked))' = Stock(LeaveOperation(looked)) /\ (Unchanged' <=> Unchanged)
  BY <1>1 DEF Stock, LeaveOperation, Unchanged
<1>6. PlansAreWhatWasOffered'
  BY <1>1, <1>5 DEF PlanningInv, PlansAreWhatWasOffered
<1> QED BY <1>2, <1>4, <1>6 DEF PlanningInv

(* What holds between any two steps from the offer of an intent to the call *)
(* its plan is about (planning.rs, recipe.rs, retract-domain/plans.rs).     *)
THEOREM PlanningInductive == PlanningSpec => []PlanningInv
<1>1. PlanningInv /\ [PlanningNext]_planningVars => PlanningInv'
  BY DescribeKeeps, DescribeLeavingKeeps, LookupKeeps, PublishKeeps, ReopenKeeps, AskKeeps, StartKeeps,
     ResolveKeeps, ShiftKeeps, PlanningIdles DEF PlanningNext
<1> QED BY <1>1, PlanningStarts, PTL DEF PlanningSpec

(* What is prepared is what was offered, what is sealed can be rebuilt, and *)
(* what the owner approves is what runs and what Telegram then allows, for  *)
(* any rights, messages and limits (planning.rs, recipe.rs, cleaner-domain).*)
THEOREM PlansAreOffered == PlanningSpec => []PlansAreWhatWasOffered
<1>1. PlanningInv => PlansAreWhatWasOffered
  BY DEF PlanningInv
<1> QED BY <1>1, PlanningInductive, PTL
=============================================================================
