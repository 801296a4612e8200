------------------------- MODULE DiscordSessionProofs -------------------------
(***************************************************************************)
(* Proofs about DiscordSession, for any calls, accounts and faults.         *)
(***************************************************************************)
EXTENDS DiscordSession, TLAPS

(* The invariant that every step preserves.                                 *)
IInv == TypeOK /\ ForgetErases /\ SessionInv

(* A step of call c leaves every other call as it was.                      *)
CallStep(c) ==
  /\ call' \in [Call -> CallRecord]
  /\ \A d \in Call \ {c} : call'[d] = call[d]

(* A session that is cleared is typed and has the next generation.          *)
LEMMA ClearedForm ==
  ASSUME TypeOK
  PROVE  /\ Cleared.generation = session.generation + 1
         /\ Cleared.generation \in Nat
         /\ Cleared \in [state : {"Disconnected", "Verifying", "Ready"}, generation : Nat,
                         by : Credential, remembered : BOOLEAN]
         /\ Cleared.state # "Ready" /\ Cleared.by = None
BY DEF TypeOK, Cleared, Credential

(* Beginning an attempt leaves everything typed.                            *)
LEMMA VerifyingTyped ==
  ASSUME TypeOK, NEW c \in Call, NEW r \in CallRecord, SetVerifying(c, r)
  PROVE  /\ session' \in [state : {"Disconnected", "Verifying", "Ready"}, generation : Nat,
                          by : Credential, remembered : BOOLEAN]
         /\ session'.state # "Ready" /\ session'.by = None
         /\ session'.generation = session.generation + 1
         /\ CallStep(c)
         /\ call'[c] = [r EXCEPT !.generation = session.generation + 1]
         /\ latest' = c
<1>1. session.generation \in Nat
  BY DEF TypeOK
<1>2. [r EXCEPT !.generation = session.generation + 1] \in CallRecord
  BY <1>1 DEF CallRecord
<1>3. call' = [call EXCEPT ![c] = [r EXCEPT !.generation = session.generation + 1]]
  BY DEF SetVerifying
<1>4. CallStep(c) /\ call'[c] = [r EXCEPT !.generation = session.generation + 1]
  BY <1>2, <1>3 DEF TypeOK, CallStep
<1> QED BY <1>1, <1>4 DEF TypeOK, SetVerifying, Credential

(* Moving the program counter of a call.                                    *)
LEMMA GotoTyped ==
  ASSUME TypeOK, NEW c \in Call, NEW pc \in Pc, Goto(c, pc)
  PROVE  CallStep(c) /\ call'[c] = [call[c] EXCEPT !.pc = pc]
<1>1. call[c] \in CallRecord
  BY DEF TypeOK
<1>2. [call[c] EXCEPT !.pc = pc] \in CallRecord
  BY <1>1 DEF CallRecord
<1>3. call' = [call EXCEPT ![c] = [call[c] EXCEPT !.pc = pc]]
  BY DEF Goto
<1> QED BY <1>2, <1>3 DEF TypeOK, CallStep

-----------------------------------------------------------------------------
(* What a step may do to the attempts.                                      *)

AttemptsOk ==
  \A c \in Call : call[c].pc \in Attempting =>
    /\ call[c].generation <= session.generation
    /\ call[c].generation = session.generation => latest = c

(* A step of c that begins an attempt keeps the attempts in order.          *)
LEMMA AttemptsBegin ==
  ASSUME TypeOK, AttemptsOk, NEW c \in Call, CallStep(c), latest' = c,
         session'.generation = session.generation + 1,
         call'[c].generation = session.generation + 1
  PROVE  AttemptsOk'
<1>1. session.generation \in Nat /\ \A d \in Call : call[d].generation \in Nat
  BY DEF TypeOK, CallRecord
<1> QED BY <1>1 DEF AttemptsOk, CallStep

(* So does a step of c after which c is not attempting and the session is   *)
(* disconnected or as it was; what was the latest attempt may be given up.  *)
LEMMA AttemptsEnd ==
  ASSUME TypeOK, AttemptsOk, NEW c \in Call, CallStep(c), call'[c].pc \notin Attempting,
         \/ session'.generation = session.generation + 1
         \/ /\ session'.generation = session.generation
            /\ \/ latest' = latest
               \/ latest = c
  PROVE  AttemptsOk'
<1>1. session.generation \in Nat /\ \A d \in Call : call[d].generation \in Nat
  BY DEF TypeOK, CallRecord
<1> QED BY <1>1 DEF AttemptsOk, CallStep

(* So does a step of an attempt that goes on.                               *)
LEMMA AttemptsGoOn ==
  ASSUME TypeOK, AttemptsOk, NEW c \in Call, CallStep(c), call[c].pc \in Attempting,
         call'[c].generation = call[c].generation,
         UNCHANGED <<session, latest>>
  PROVE  AttemptsOk'
BY DEF AttemptsOk, CallStep

(* Giving up an attempt, from wherever it is.                               *)
LEMMA AbandonStep ==
  ASSUME TypeOK, AttemptsOk, NEW c \in Call, Abandon(c)
  PROVE  /\ CallStep(c) /\ AttemptsOk'
         /\ session' \in {session, Cleared} /\ latest' \in {latest, None}
<1>1. CallStep(c) /\ call'[c] = [call[c] EXCEPT !.pc = "done"]
  BY GotoTyped DEF Abandon, Pc
<1>2. call'[c].pc = "done"
  BY <1>1 DEF TypeOK, CallRecord
<1>3. session' \in {session, Cleared} /\ latest' = IF latest = c THEN None ELSE latest
  BY DEF Abandon
<1>4. session'.generation \in {session.generation, session.generation + 1}
  BY <1>3, ClearedForm
<1>5. AttemptsOk'
  BY <1>1, <1>2, <1>3, <1>4, AttemptsEnd DEF Attempting
<1> QED BY <1>1, <1>3, <1>5

(* Confirmed attempts: superseded, become the session, or fail to be saved. *)
LEMMA CompleteStep ==
  ASSUME TypeOK, AttemptsOk, NEW c \in Call, Complete(c)
  PROVE  /\ CallStep(c) /\ AttemptsOk'
         /\ latest' \in {latest, None}
         /\ \/ session' = session
            \/ session' = Cleared
            \/ session' = [session EXCEPT !.state = "Ready", !.by = call[c].token,
                                          !.remembered = call[c].remember]
<1>1. CallStep(c) /\ call'[c] = [call[c] EXCEPT !.pc = "done"]
  BY GotoTyped DEF Complete, Pc
<1>2. call'[c].pc = "done"
  BY <1>1 DEF TypeOK, CallRecord
<1>3. \/ UNCHANGED <<session, latest>>
      \/ Become(c)
      \/ Disconnect
  BY DEF Complete
<1>4. session.generation \in Nat
  BY DEF TypeOK
<1>5. CASE UNCHANGED <<session, latest>>
  BY <1>1, <1>2, <1>5, AttemptsEnd DEF Attempting
<1>6. CASE Become(c)
  <2>1. session'.generation = session.generation /\ latest' = latest
    BY <1>6 DEF Become, TypeOK
  <2> QED BY <1>1, <1>2, <1>6, <2>1, AttemptsEnd DEF Attempting, Become
<1>7. CASE Disconnect
  <2>1. session'.generation = session.generation + 1
    BY <1>7, ClearedForm DEF Disconnect
  <2> QED BY <1>1, <1>2, <1>7, <2>1, AttemptsEnd DEF Attempting, Disconnect
<1> QED BY <1>3, <1>5, <1>6, <1>7

-----------------------------------------------------------------------------
(* The vault.                                                               *)

VaultRecord == [known : Credential, kept : Credential, unread : BOOLEAN]
VaultOk == ~vault.unread => vault.known = vault.kept

(* Reading the Keychain again leaves a vault that knows what is kept.       *)
LEMMA ReconciledForm ==
  ASSUME TypeOK, VaultOk
  PROVE  /\ Reconciled \in VaultRecord /\ ~Reconciled.unread
         /\ Reconciled.kept = vault.kept /\ Reconciled.known = vault.kept
<1>1. vault \in VaultRecord
  BY DEF TypeOK, VaultRecord
<1>2. CASE vault.unread
  BY <1>1, <1>2 DEF Reconciled, VaultRecord
<1>3. CASE ~vault.unread
  BY <1>1, <1>3 DEF Reconciled, VaultRecord, VaultOk
<1> QED BY <1>2, <1>3

(* A write leaves a vault that is right or to be read, and what the         *)
(* Keychain keeps is what was there or what was written.                    *)
LEMMA WriteStep ==
  ASSUME TypeOK, VaultOk, NEW k \in Credential, NEW ok \in BOOLEAN, VaultWrite(k, ok)
  PROVE  /\ vault' \in VaultRecord /\ VaultOk' /\ faults' \in Nat
         /\ vault'.kept \in {vault.kept, k}
         /\ ok => vault'.kept = k
<1>1. vault \in VaultRecord /\ faults \in Nat
  BY DEF TypeOK, VaultRecord
<1>2. CASE ok /\ vault' = [known |-> k, kept |-> k, unread |-> FALSE] /\ UNCHANGED faults
  BY <1>1, <1>2 DEF VaultRecord, VaultOk
<1>3. CASE ~ok /\ Unreadable
  BY <1>1, <1>3 DEF Unreadable, VaultOk
<1>4. ASSUME ~ok, faults > 0, faults' = faults - 1, NEW kept \in {vault.kept, k},
             vault' = [Reconciled EXCEPT !.kept = kept, !.unread = TRUE]
      PROVE  /\ vault' \in VaultRecord /\ VaultOk' /\ faults' \in Nat
             /\ vault'.kept \in {vault.kept, k}
  <2>1. Reconciled \in VaultRecord /\ kept \in Credential
    BY <1>1, <1>4, ReconciledForm DEF VaultRecord
  <2>2. vault' \in VaultRecord /\ vault'.kept = kept /\ vault'.unread
    BY <1>4, <2>1 DEF VaultRecord
  <2> QED BY <1>1, <1>4, <2>2 DEF VaultOk
<1> QED BY <1>2, <1>3, <1>4 DEF VaultWrite

-----------------------------------------------------------------------------
(* The invariant, in the part about the vault and the part about attempts.  *)

VaultPart == /\ vault \in VaultRecord /\ faults \in Nat
             /\ erased \in BOOLEAN
             /\ VaultOk /\ ForgetErases

SessionRecord == [state : {"Disconnected", "Verifying", "Ready"}, generation : Nat,
                  by : Credential, remembered : BOOLEAN]
TokensOk == \A c \in Call :
  call[c].pc \in {"token", "verify", "complete"} => call[c].token # None
SessionPart == /\ session \in SessionRecord
               /\ session.state = "Ready" <=> session.by # None
               /\ restored \in SUBSET Account
               /\ call \in [Call -> CallRecord]
               /\ latest \in Call \cup {None}
               /\ AttemptsOk /\ TokensOk

(* The two parts are the invariant.                                         *)
LEMMA Parts == IInv <=> VaultPart /\ SessionPart
BY DEF IInv, TypeOK, SessionInv, VaultPart, SessionPart, VaultOk, TokensOk, AttemptsOk,
       VaultRecord, SessionRecord

(* And they are of the next state.                                          *)
LEMMA PartsNext == VaultPart' /\ SessionPart' => IInv'
BY DEF IInv, TypeOK, SessionInv, VaultPart, SessionPart, VaultOk, TokensOk, AttemptsOk,
       VaultRecord, SessionRecord

(* The steps that leave the vault alone keep its part.                      *)
LEMMA KeepVaultPart ==
  ASSUME VaultPart, KeepVault
  PROVE  VaultPart'
BY DEF VaultPart, KeepVault, VaultOk, ForgetErases

(* A confirmed attempt that is saved, and everything else it may do.        *)
LEMMA CompleteVault ==
  ASSUME IInv, NEW c \in Call, Complete(c)
  PROVE  VaultPart'
<1>1. VaultPart /\ TypeOK /\ VaultOk
  BY Parts DEF IInv, VaultPart
<1>2. call[c].token \in Credential
  BY <1>1 DEF TypeOK, CallRecord
<1>3. CASE KeepVault
  BY <1>1, <1>3, KeepVaultPart
<1>4. CASE /\ \E ok \in BOOLEAN : VaultWrite(call[c].token, ok)
           /\ erased' = FALSE
  <2>1. PICK ok \in BOOLEAN : VaultWrite(call[c].token, ok)
    BY <1>4
  <2> QED BY <1>1, <1>2, <1>4, <2>1, WriteStep DEF VaultPart, ForgetErases
<1> QED BY <1>3, <1>4 DEF Complete

(* A forget that succeeds leaves the Keychain without a credential, and one *)
(* that fails does not bring one back.                                      *)
LEMMA EraseVault ==
  ASSUME IInv, NEW c \in Call, Erase(c)
  PROVE  VaultPart'
<1>1. VaultPart /\ TypeOK /\ VaultOk
  BY Parts DEF IInv, VaultPart
<1>2. PICK ok \in BOOLEAN :
        /\ VaultErase(ok)
        /\ erased' = (ok \/ erased)
  BY DEF Erase
<1>3. /\ Reconciled \in VaultRecord /\ ~Reconciled.unread
      /\ Reconciled.kept = vault.kept /\ Reconciled.known = vault.kept
  BY <1>1, ReconciledForm
<1>4. erased' \in BOOLEAN
  BY <1>1, <1>2 DEF VaultPart, VaultRecord
<1>5. CASE ok /\ Reconciled.known = None
  BY <1>1, <1>2, <1>3, <1>4, <1>5 DEF VaultErase, VaultPart, VaultOk, ForgetErases
<1>6. CASE ~(ok /\ Reconciled.known = None)
  <2>1. None \in Credential /\ VaultWrite(None, ok)
    BY <1>2, <1>6 DEF VaultErase, VaultWrite, Credential
  <2>2. /\ vault' \in VaultRecord /\ VaultOk' /\ faults' \in Nat
        /\ vault'.kept \in {vault.kept, None}
        /\ ok => vault'.kept = None
    BY <1>1, <2>1, WriteStep
  <2> QED BY <1>1, <1>2, <1>4, <2>2 DEF VaultPart, ForgetErases
<1> QED BY <1>5, <1>6

-----------------------------------------------------------------------------
(* Every step keeps the part about attempts.                                *)

(* The ways the session changes keep it typed.                              *)
LEMMA SessionForms ==
  ASSUME IInv, session' \in {session, Cleared}, latest' \in {latest, None}
  PROVE  /\ session' \in SessionRecord
         /\ session'.state = "Ready" <=> session'.by # None
         /\ latest' \in Call \cup {None}
BY ClearedForm, Parts DEF IInv, SessionPart, SessionRecord

(* A step of c that gives its attempt up, or goes on without one.           *)
LEMMA QuitPart ==
  ASSUME IInv, NEW c \in Call, CallStep(c), AttemptsOk', call'[c].pc \notin Attempting,
         session' \in {session, Cleared}, latest' \in {latest, None},
         restored' \in SUBSET Account
  PROVE  SessionPart'
<1>1. TokensOk'
  BY Parts DEF SessionPart, TokensOk, CallStep, Attempting
<1> QED BY <1>1, SessionForms DEF SessionPart, CallStep

(* A step of c that begins an attempt.                                      *)
LEMMA BeginPart ==
  ASSUME IInv, NEW c \in Call, NEW r \in CallRecord, SetVerifying(c, r), UNCHANGED restored,
         r.pc \in {"token", "verify", "complete"} => r.token # None
  PROVE  SessionPart'
<1>0. TypeOK /\ SessionPart
  BY Parts DEF IInv
<1>1. /\ session' \in SessionRecord /\ session'.state # "Ready" /\ session'.by = None
      /\ session'.generation = session.generation + 1
      /\ CallStep(c) /\ latest' = c
      /\ call'[c] = [r EXCEPT !.generation = session.generation + 1]
  BY <1>0, VerifyingTyped DEF SessionRecord
<1>2. /\ call'[c].generation = session.generation + 1
      /\ call'[c].pc = r.pc /\ call'[c].token = r.token
  BY <1>1 DEF CallRecord
<1>3. AttemptsOk'
  BY <1>0, <1>1, <1>2, AttemptsBegin DEF SessionPart
<1>4. TokensOk'
  BY <1>0, <1>1, <1>2 DEF SessionPart, TokensOk, CallStep
<1> QED BY <1>0, <1>1, <1>3, <1>4 DEF SessionPart, CallStep

(* A step of an attempt that goes on.                                       *)
LEMMA GoOnPart ==
  ASSUME IInv, NEW c \in Call, CallStep(c), call[c].pc \in Attempting,
         call'[c].generation = call[c].generation,
         UNCHANGED <<session, latest>>, restored' \in SUBSET Account,
         call'[c].pc \in {"token", "verify", "complete"} => call'[c].token # None
  PROVE  SessionPart'
<1>0. TypeOK /\ SessionPart
  BY Parts DEF IInv
<1>1. AttemptsOk'
  BY <1>0, AttemptsGoOn DEF SessionPart
<1>2. TokensOk'
  BY <1>0 DEF SessionPart, TokensOk, CallStep
<1> QED BY <1>0, <1>1, <1>2 DEF SessionPart, CallStep

(* A disconnect, or nothing, by a call that has no attempt of its own.      *)
LEMMA AsidePart ==
  ASSUME IInv, NEW c \in Call, CallStep(c), call'[c].pc \notin Attempting,
         Disconnect \/ UNCHANGED <<session, latest>>, UNCHANGED restored
  PROVE  SessionPart'
<1>0. TypeOK /\ SessionPart
  BY Parts DEF IInv
<1>1. /\ session' \in {session, Cleared} /\ latest' \in {latest, None}
      /\ \/ session'.generation = session.generation + 1
         \/ session'.generation = session.generation /\ latest' = latest
  BY <1>0, ClearedForm DEF Disconnect
<1>2. AttemptsOk'
  BY <1>0, <1>1, AttemptsEnd DEF SessionPart
<1> QED BY <1>0, <1>1, <1>2, QuitPart DEF SessionPart

(* An abandoned attempt.                                                    *)
LEMMA AbandonPart ==
  ASSUME IInv, NEW c \in Call, Abandon(c), restored' \in SUBSET Account
  PROVE  SessionPart'
<1>0. TypeOK /\ SessionPart
  BY Parts DEF IInv
<1>1. /\ CallStep(c) /\ AttemptsOk'
      /\ session' \in {session, Cleared} /\ latest' \in {latest, None}
  BY <1>0, AbandonStep DEF SessionPart
<1>2. call'[c].pc = "done"
  BY <1>0 DEF Abandon, Goto, TypeOK, CallRecord
<1> QED BY <1>1, <1>2, QuitPart DEF Attempting

(* Whatever a command does, the part about attempts is kept.                *)
LEMMA SessionStep ==
  ASSUME IInv, NEW c \in Call, Invoke(c) \/ Advance(c)
  PROVE  SessionPart'
<1>0. /\ TypeOK /\ SessionPart /\ call[c] \in CallRecord
      /\ restored \in SUBSET Account
  BY Parts DEF IInv, TypeOK
<1>1. ASSUME NEW a \in Account, NEW remember \in BOOLEAN, SignIn(c, a, remember)
      PROVE  SessionPart'
  <2> DEFINE r == [call[c] EXCEPT !.pc = "token", !.account = a, !.token = c,
                                  !.remember = remember, !.persist = TRUE]
  <2>1. r \in CallRecord /\ r.token = c
    BY <1>0 DEF CallRecord, Pc, Credential
  <2>2. SetVerifying(c, r) /\ UNCHANGED restored
    BY <1>1 DEF SignIn
  <2>3. c # None
    BY SessionAssumption
  <2> QED BY <2>1, <2>2, <2>3, BeginPart
<1>2. CASE TokenArrives(c) \/ Verify(c)
  <2>1. CASE Abandon(c)
    BY <1>0, <1>2, <2>1, AbandonPart DEF TokenArrives, Verify
  <2>2. ASSUME NEW pc \in {"verify", "complete"}, Goto(c, pc), UNCHANGED <<session, latest>>
        PROVE  SessionPart'
    <3>1. CallStep(c) /\ call'[c] = [call[c] EXCEPT !.pc = pc]
      BY <1>0, <2>2, GotoTyped DEF Pc
    <3>2. /\ call'[c].pc = pc /\ call'[c].token = call[c].token
          /\ call'[c].generation = call[c].generation
      BY <1>0, <3>1 DEF CallRecord
    <3>3. call[c].pc \in {"token", "verify"} /\ restored' = restored
      BY <1>2 DEF TokenArrives, Verify, At
    <3>4. call[c].token # None
      BY <1>0, <3>3 DEF SessionPart, TokensOk
    <3> QED BY <1>0, <2>2, <3>1, <3>2, <3>3, <3>4, GoOnPart DEF Attempting
  <2> QED BY <1>2, <2>1, <2>2 DEF TokenArrives, Verify
<1>3. ASSUME NEW a \in Account, Restore(c, a)
      PROVE  SessionPart'
  <2>1. PICK pc \in {"register", "done", "drop"} :
          call' = [call EXCEPT ![c] = [call[c] EXCEPT !.account = a, !.remember = TRUE,
                                                      !.pc = pc]]
    BY <1>3 DEF Restore
  <2> DEFINE r == [call[c] EXCEPT !.account = a, !.remember = TRUE, !.pc = pc]
  <2>2. r \in CallRecord /\ r.pc = pc
    BY <1>0 DEF CallRecord, Pc
  <2>3. CallStep(c) /\ call'[c] = r
    BY <1>0, <2>1, <2>2 DEF SessionPart, CallStep
  <2>4. call'[c].pc \notin Attempting
    BY <2>2, <2>3 DEF Attempting
  <2> QED BY <1>3, <2>3, <2>4, AsidePart DEF Restore
<1>4. ASSUME NEW pc \in {"register", "erase", "request", "done"}, Goto(c, pc),
             Disconnect \/ UNCHANGED <<session, latest>>, UNCHANGED restored
      PROVE  SessionPart'
  <2>1. CallStep(c) /\ call'[c] = [call[c] EXCEPT !.pc = pc]
    BY <1>0, <1>4, GotoTyped DEF Pc
  <2>2. call'[c].pc \notin Attempting
    BY <1>0, <2>1 DEF CallRecord, Attempting
  <2> QED BY <1>4, <2>1, <2>2, AsidePart
<1>5. CASE Register(c)
  <2>1. [call[c] EXCEPT !.pc = "first"] \in CallRecord /\ [call[c] EXCEPT !.pc = "first"].pc = "first"
    BY <1>0 DEF CallRecord, Pc
  <2> QED BY <1>5, <2>1, BeginPart DEF Register
<1>6. CASE FirstRestore(c)
  <2>1. restored' \in SUBSET Account
    BY <1>0, <1>6 DEF FirstRestore, CallRecord
  <2>2. CASE Abandon(c)
    BY <2>1, <2>2, AbandonPart
  <2>3. CASE Goto(c, "load") /\ UNCHANGED <<session, latest>>
    <3>1. CallStep(c) /\ call'[c] = [call[c] EXCEPT !.pc = "load"]
      BY <1>0, <2>3, GotoTyped DEF Pc
    <3>2. call'[c].pc = "load" /\ call'[c].generation = call[c].generation
      BY <1>0, <3>1 DEF CallRecord
    <3> QED BY <1>6, <2>1, <2>3, <3>1, <3>2, GoOnPart DEF FirstRestore, At, Attempting
  <2> QED BY <1>6, <2>2, <2>3 DEF FirstRestore, IfRepeated
<1>7. CASE Load(c)
  <2>1. CASE Abandon(c)
    BY <1>0, <1>7, <2>1, AbandonPart DEF Load
  <2>2. CASE /\ vault.known # None
             /\ call' = [call EXCEPT ![c].pc = "verify", ![c].token = vault.known]
             /\ UNCHANGED <<session, latest>>
    <3> DEFINE r == [call[c] EXCEPT !.pc = "verify", !.token = vault.known]
    <3>1. vault.known \in Credential
      BY <1>0 DEF TypeOK
    <3>2. /\ r \in CallRecord /\ r.token = vault.known
          /\ r.generation = call[c].generation
      BY <1>0, <3>1 DEF CallRecord, Pc
    <3>3. CallStep(c) /\ call'[c] = r
      BY <1>0, <2>2, <3>2 DEF SessionPart, CallStep
    <3>4. call[c].pc \in Attempting /\ restored' = restored
      BY <1>7 DEF Load, At, Attempting
    <3> QED BY <1>0, <2>2, <3>2, <3>3, <3>4, GoOnPart
  <2> QED BY <1>7, <2>1, <2>2 DEF Load
<1>8. CASE Complete(c)
  <2>1. /\ CallStep(c) /\ AttemptsOk' /\ latest' \in {latest, None}
        /\ \/ session' \in {session, Cleared}
           \/ session' = [session EXCEPT !.state = "Ready", !.by = call[c].token,
                                         !.remembered = call[c].remember]
    BY <1>0, <1>8, CompleteStep DEF SessionPart
  <2>2. call'[c].pc = "done" /\ call[c].pc = "complete" /\ restored' = restored
    BY <1>0, <1>8 DEF Complete, Goto, At, TypeOK, CallRecord
  <2>3. CASE session' \in {session, Cleared}
    BY <1>0, <2>1, <2>2, <2>3, QuitPart DEF Attempting
  <2>4. CASE session' = [session EXCEPT !.state = "Ready", !.by = call[c].token,
                                        !.remembered = call[c].remember]
    <3>1. call[c].token # None /\ call[c].token \in Credential /\ call[c].remember \in BOOLEAN
      BY <1>0, <2>2 DEF SessionPart, TokensOk, CallRecord
    <3>2. session' \in SessionRecord /\ session'.state = "Ready" /\ session'.by # None
      BY <1>0, <2>4, <3>1 DEF SessionPart, SessionRecord
    <3>3. TokensOk'
      BY <1>0, <2>1, <2>2 DEF SessionPart, TokensOk, CallStep
    <3> QED BY <1>0, <2>1, <2>2, <3>2, <3>3 DEF SessionPart, CallStep
  <2> QED BY <2>1, <2>3, <2>4
<1> QED BY <1>1, <1>2, <1>3, <1>4, <1>5, <1>6, <1>7, <1>8
  DEF Invoke, Advance, DropOther, Forget, Erase, Request, RequestAnswered

(* And so is the part about the vault.                                      *)
LEMMA VaultStep ==
  ASSUME IInv, NEW c \in Call, Invoke(c) \/ Advance(c)
  PROVE  VaultPart'
<1>1. KeepVault \/ Complete(c) \/ Erase(c)
  BY DEF Invoke, Advance, SignIn, TokenArrives, Restore, DropOther, Register, FirstRestore,
         Load, Verify, Forget, Request, RequestAnswered
<1> QED BY <1>1, Parts, KeepVaultPart, CompleteVault, EraseVault

-----------------------------------------------------------------------------
(* The theorems.                                                            *)

(* A new process: no session, no attempt, a vault that was just read.       *)
LEMMA InitIInv == Init => IInv
<1> SUFFICES ASSUME Init PROVE IInv
  OBVIOUS
<1>1. PICK k \in {Old, None} : vault = [known |-> k, kept |-> k, unread |-> FALSE]
  BY DEF Init
<1>2. VaultPart
  BY <1>1, SessionAssumption DEF Init, VaultPart, VaultRecord, VaultOk, ForgetErases, Credential
<1>3. call \in [Call -> CallRecord] /\ \A c \in Call : call[c].pc = "idle"
  BY SessionAssumption DEF Init, CallRecord, Pc, Credential
<1>4. SessionPart
  BY <1>3 DEF Init, SessionPart, SessionRecord, AttemptsOk, TokensOk, Attempting, Credential
<1> QED BY <1>2, <1>4, Parts

(* Every step keeps the invariant, and so does a stutter.                   *)
LEMMA NextIInv == IInv /\ [Next]_vars => IInv'
<1> SUFFICES ASSUME IInv, [Next]_vars PROVE IInv'
  OBVIOUS
<1>1. ASSUME NEW c \in Call, Invoke(c) \/ Advance(c) PROVE IInv'
  BY <1>1, SessionStep, VaultStep, PartsNext
<1>2. CASE UNCHANGED vars
  BY <1>2 DEF vars, IInv, TypeOK, SessionInv, ForgetErases
<1> QED BY <1>1, <1>2 DEF Next, Rest

(* The invariant holds in every reachable state.                            *)
LEMMA Inductive == Spec => []IInv
BY InitIInv, NextIInv, PTL DEF Spec

(* The variables keep their shapes, and a session is ready exactly when it  *)
(* has a credential.                                                        *)
THEOREM TypeCorrect == Spec => []TypeOK
<1>1. IInv => TypeOK
  BY DEF IInv
<1> QED BY <1>1, Inductive, PTL

(* A forget that succeeded leaves no credential in the Keychain.            *)
THEOREM ForgetIsDurable == Spec => []ForgetErases
<1>1. IInv => ForgetErases
  BY DEF IInv, SessionInv
<1> QED BY <1>1, Inductive, PTL

(* An attempt that was superseded changes neither session nor Keychain.     *)
THEOREM LateAttemptsAreHarmless == Spec => SupersededChangesNothing
<1> DEFINE Harmless == \A c \in Call :
      call[c].pc \in Attempting /\ latest # c /\ call'[c] # call[c]
        => UNCHANGED <<session, vault>>
<1>1. ASSUME IInv, NEW d \in Call, Invoke(d) \/ Advance(d),
             NEW c \in Call, call[c].pc \in Attempting, latest # c, call'[c] # call[c]
      PROVE  UNCHANGED <<session, vault>>
  <2>1. c = d
    <3>1. ASSUME NEW r, call' = [call EXCEPT ![d] = r] PROVE c = d
      BY <1>1, <3>1 DEF IInv, TypeOK
    <3> QED BY <1>1, <3>1
      DEF Invoke, Advance, SignIn, TokenArrives, Restore, DropOther, Register, FirstRestore,
          IfRepeated, Load, Verify, Complete, Forget, Erase, Request, RequestAnswered,
          Abandon, SetVerifying, Goto
  <2>2. ~Current(c) /\ Superseded(c)
    BY <1>1 DEF IInv, SessionInv, Current, Superseded
  <2>3. \/ TokenArrives(c) \/ FirstRestore(c) \/ Load(c) \/ Verify(c) \/ Complete(c)
    BY <1>1, <2>1 DEF Invoke, Advance, SignIn, Restore, Forget, Request, DropOther, Register,
                      Erase, RequestAnswered, At, Attempting
  <2> QED BY <2>2, <2>3
    DEF TokenArrives, FirstRestore, IfRepeated, Load, Verify, Complete, Abandon, KeepVault
<1>2. IInv /\ [Next]_vars => [Harmless]_vars
  BY <1>1 DEF Next, Rest, vars
<1> QED BY <1>2, Inductive, PTL DEF SupersededChangesNothing, Spec
=============================================================================
