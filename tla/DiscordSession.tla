---------------------------- MODULE DiscordSession ----------------------------
(***************************************************************************)
(* The Discord session owner of providers/discord/session.rs over the       *)
(* credential vault of secure_store/vault.rs.  Sign-ins, restores of the    *)
(* remembered credential, forget, and requests that learn their token is no *)
(* longer accepted share one session; a generation tells an attempt that is *)
(* still current from one that was superseded while it waited for a token,  *)
(* the Keychain or the identity service.                                    *)
(*                                                                          *)
(* Each critical section of the session mutex, and each operation under the *)
(* vault's, is one step.  A credential is named by the sign-in that brought *)
(* it; Old is the one an earlier process left.  The generation counts to    *)
(* 2^64, so it does not wrap here.  Discord and the Keychain are external.  *)
(*                                                                          *)
(* An operator named X_Y, with X the definition that follows it, is X with  *)
(* a mistake: the mutants that show each property is able to fail.          *)
(***************************************************************************)
EXTENDS Naturals

CONSTANTS
  Call,        \* commands and requests, each made once
  Account,     \* owners of the selected archives
  Old,         \* the credential an earlier process remembered
  OldAccount,  \* the account it belongs to
  None,        \* no credential
  MaxFaults    \* bound: writes of the Keychain that report a failure

ASSUME SessionAssumption ==
  /\ None \notin Call \cup {Old} /\ Old \notin Call
  /\ OldAccount \in Account /\ MaxFaults \in Nat

VARIABLES
  session,   \* DiscordSessionOwner.data; by: the credential, which fixes the identity
  restored,  \* restore_attempts
  vault,     \* what the cache knows, what the Keychain has, needs_read
  call,      \* progress of each command
  faults,    \* failures left
  latest,    \* observer: the attempt no later one and no disconnect has superseded
  erased     \* observer: forget succeeded and no save was tried since

vars == <<session, restored, vault, call, faults, latest, erased>>

Credential == Call \cup {Old, None}
Pc == {"idle", "drop", "register", "first", "load", "token", "verify",
       "complete", "erase", "request", "done"}
Attempting == {"first", "load", "token", "verify", "complete"}
CallRecord == [pc : Pc, account : Account, generation : Nat, token : Credential,
               remember : BOOLEAN, persist : BOOLEAN]

At(c, pc) == call[c].pc = pc
Goto(c, pc) == call' = [call EXCEPT ![c].pc = pc]
AccountOf(k) == IF k = Old THEN OldAccount ELSE call[k].account
KeepVault == UNCHANGED <<vault, faults, erased>>

-----------------------------------------------------------------------------
(* The session, under its mutex.                                            *)

(* set_verifying: whatever was there, ready or verifying, is superseded.    *)
SetVerifying(c, r) ==
  /\ session' = [state |-> "Verifying", generation |-> session.generation + 1,
                 by |-> None, remembered |-> FALSE]
  /\ call' = [call EXCEPT ![c] = [r EXCEPT !.generation = session.generation + 1]]
  /\ latest' = c

Cleared == [state |-> "Disconnected", generation |-> session.generation + 1,
            by |-> None, remembered |-> FALSE]
Disconnect == session' = Cleared /\ latest' = None

(* disconnect_if_current.                                                   *)
Current(c) == call[c].generation = session.generation

Abandon(c) ==
  /\ IF Current(c) THEN session' = Cleared ELSE UNCHANGED session
  /\ latest' = IF latest = c THEN None ELSE latest
  /\ Goto(c, "done")

-----------------------------------------------------------------------------
(* The vault: mutations read the Keychain again when a write may have       *)
(* landed without being seen to; reads trust the cache.                     *)

Reconciled_Cached == vault
Reconciled ==
  IF vault.unread THEN [vault EXCEPT !.known = vault.kept, !.unread = FALSE] ELSE vault

(* A read or write that fails before the Keychain has changed.              *)
Unreadable == faults > 0 /\ faults' = faults - 1 /\ UNCHANGED vault

VaultWrite(k, ok) ==
  \/ /\ ok
     /\ vault' = [known |-> k, kept |-> k, unread |-> FALSE]
     /\ UNCHANGED faults
  \/ ~ok /\ Unreadable
  \/ /\ ~ok /\ faults > 0
     /\ faults' = faults - 1
     /\ \E kept \in {vault.kept, k} :
          vault' = [Reconciled EXCEPT !.kept = kept, !.unread = TRUE]

VaultErase(ok) ==
  \/ Reconciled.known # None /\ VaultWrite(None, ok)
  \/ Reconciled.known = None /\ ok /\ vault' = Reconciled /\ UNCHANGED faults
  \/ Reconciled.known = None /\ ~ok /\ Unreadable

-----------------------------------------------------------------------------
(* Commands.                                                                *)

(* submit_manual, and the browser capture's begin_install.                  *)
SignIn(c, a, remember) ==
  /\ At(c, "idle")
  /\ SetVerifying(c, [call[c] EXCEPT !.pc = "token", !.account = a, !.token = c,
                                     !.remember = remember, !.persist = TRUE])
  /\ UNCHANGED restored /\ KeepVault

(* The token was captured or typed; or it is malformed, or no one came.     *)
TokenArrives(c) ==
  /\ At(c, "token")
  /\ \/ Goto(c, "verify") /\ UNCHANGED <<session, latest>>
     \/ Abandon(c)
  /\ UNCHANGED restored /\ KeepVault

(* load_remembered: a ready session is kept or disconnected ...             *)
Restore(c, a) ==
  /\ At(c, "idle")
  /\ call' = [call EXCEPT ![c] =
       [@ EXCEPT !.account = a, !.remember = TRUE,
                 !.pc = IF session.state # "Ready" THEN "register"
                        ELSE IF AccountOf(session.by) = a THEN "done" ELSE "drop"]]
  /\ UNCHANGED <<session, latest, restored>> /\ KeepVault

DropOther(c) ==
  /\ At(c, "drop")
  /\ Disconnect
  /\ Goto(c, "register")
  /\ UNCHANGED restored /\ KeepVault

Register(c) ==
  /\ At(c, "register")
  /\ SetVerifying(c, [call[c] EXCEPT !.pc = "first"])
  /\ UNCHANGED restored /\ KeepVault

(* ... and the Keychain is asked once per account and process.              *)
IfRepeated_Left(c) == Goto(c, "done") /\ UNCHANGED <<session, latest>>
IfRepeated(c) == Abandon(c)

FirstRestore(c) ==
  /\ At(c, "first")
  /\ restored' = restored \cup {call[c].account}
  /\ IF call[c].account \in restored
     THEN IfRepeated(c)
     ELSE Goto(c, "load") /\ UNCHANGED <<session, latest>>
  /\ KeepVault

Load(c) ==
  /\ At(c, "load")
  /\ \/ /\ vault.known # None /\ AccountOf(vault.known) = call[c].account
        /\ call' = [call EXCEPT ![c].pc = "verify", ![c].token = vault.known]
        /\ UNCHANGED <<session, latest>>
     \/ Abandon(c)
  /\ UNCHANGED restored /\ KeepVault

(* complete_install: the identity service confirms the account or does not  *)
(* (another account, a refusal, a timeout) ...                              *)
Verify(c) ==
  /\ At(c, "verify")
  /\ \/ Goto(c, "complete") /\ UNCHANGED <<session, latest>>
     \/ Abandon(c)
  /\ UNCHANGED restored /\ KeepVault

(* ... and the attempt that is still current becomes the session, saving    *)
(* its credential first when it was asked to.                               *)
Superseded_ByState(c) == session.state # "Verifying"
Superseded(c) ==
  \/ session.generation # call[c].generation
  \/ session.state # "Verifying"

Become(c) ==
  /\ session' = [session EXCEPT !.state = "Ready", !.by = call[c].token,
                                !.remembered = call[c].remember]
  /\ UNCHANGED latest

Complete(c) ==
  /\ At(c, "complete")
  /\ Goto(c, "done")
  /\ CASE Superseded(c) ->
            UNCHANGED <<session, latest>> /\ KeepVault
       [] ~Superseded(c) /\ ~(call[c].remember /\ call[c].persist) ->
            Become(c) /\ KeepVault
       [] OTHER ->
            /\ \E ok \in BOOLEAN :
                 /\ VaultWrite(call[c].token, ok)
                 /\ IF ok THEN Become(c) ELSE Disconnect
            /\ erased' = FALSE
  /\ UNCHANGED restored

(* forget: the session first, then the vault.                               *)
Forget(c) ==
  /\ At(c, "idle")
  /\ Disconnect
  /\ Goto(c, "erase")
  /\ UNCHANGED restored /\ KeepVault

Erase(c) ==
  /\ At(c, "erase")
  /\ Goto(c, "done")
  /\ \E ok \in BOOLEAN :
       /\ VaultErase(ok)
       /\ erased' = (ok \/ erased)
  /\ UNCHANGED <<session, latest, restored>>

(* A request copies the token of a ready session; when Discord refuses it   *)
(* the session of that moment is shut down, whichever token it has by then. *)
Request(c) ==
  /\ At(c, "idle") /\ session.state = "Ready"
  /\ Goto(c, "request")
  /\ UNCHANGED <<session, latest, restored>> /\ KeepVault

RequestAnswered(c) ==
  /\ At(c, "request")
  /\ Goto(c, "done")
  /\ UNCHANGED <<session, latest>> \/ Disconnect
  /\ UNCHANGED restored /\ KeepVault

Invoke(c) ==
  \/ \E a \in Account : Restore(c, a) \/ \E remember \in BOOLEAN : SignIn(c, a, remember)
  \/ Forget(c) \/ Request(c)

Advance(c) ==
  \/ TokenArrives(c) \/ DropOther(c) \/ Register(c) \/ FirstRestore(c)
  \/ Load(c) \/ Verify(c) \/ Complete(c) \/ Erase(c) \/ RequestAnswered(c)

Rest == (\A c \in Call : At(c, "done")) /\ UNCHANGED vars

Init ==
  /\ session = [state |-> "Disconnected", generation |-> 0, by |-> None,
                remembered |-> FALSE]
  /\ restored = {}
  /\ \E k \in {Old, None} : vault = [known |-> k, kept |-> k, unread |-> FALSE]
  /\ call = [c \in Call |-> [pc |-> "idle", account |-> OldAccount, generation |-> 0,
                             token |-> None, remember |-> FALSE, persist |-> FALSE]]
  /\ faults = MaxFaults
  /\ latest = None /\ erased = FALSE

Next == (\E c \in Call : Invoke(c) \/ Advance(c)) \/ Rest

Spec == Init /\ [][Next]_vars

(* A command that was made is polled until it returns; a capture and a      *)
(* verification have their timeouts.                                        *)
FairSpec == Spec /\ \A c \in Call : WF_vars(Advance(c))

-----------------------------------------------------------------------------
(* Properties.                                                              *)

(* The variables have the shapes their comments give; a ready session, and  *)
(* only a ready one, has a credential.                                      *)
TypeOK ==
  /\ session \in [state : {"Disconnected", "Verifying", "Ready"}, generation : Nat,
                  by : Credential, remembered : BOOLEAN]
  /\ session.state = "Ready" <=> session.by # None
  /\ restored \in SUBSET Account
  /\ vault \in [known : Credential, kept : Credential, unread : BOOLEAN]
  /\ call \in [Call -> CallRecord]
  /\ faults \in Nat
  /\ latest \in Call \cup {None} /\ erased \in BOOLEAN

(* An attempt that a later one, a forget or a shutdown has superseded       *)
(* changes neither the session nor the Keychain any more, whether it is     *)
(* confirmed, refused or given up.                                          *)
SupersededChangesNothing ==
  [][\A c \in Call :
       call[c].pc \in Attempting /\ latest # c /\ call'[c] # call[c]
         => UNCHANGED <<session, vault>>]_vars

(* After a forget that succeeded the Keychain has no credential, also when  *)
(* an earlier save was reported as failed and had landed.                   *)
ForgetErases == erased => vault.kept = None

(* Under FairSpec: the session does not stay in verification.               *)
VerifyingEnds == (session.state = "Verifying") ~> (session.state # "Verifying")

(* What makes these inductive: an attempt carries the session's generation  *)
(* only while it is the latest, one that is verified has a token, and the   *)
(* cache is right when no read is due.                                      *)
SessionInv ==
  /\ \A c \in Call : call[c].pc \in Attempting =>
       /\ call[c].generation <= session.generation
       /\ call[c].generation = session.generation => latest = c
  /\ \A c \in Call : call[c].pc \in {"token", "verify", "complete"} => call[c].token # None
  /\ ~vault.unread => vault.known = vault.kept

=============================================================================
