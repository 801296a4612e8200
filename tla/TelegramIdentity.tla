--------------------------- MODULE TelegramIdentity ---------------------------
(***************************************************************************)
(* Who the Telegram engine is signed in as: LiveGateway's identity state    *)
(* (providers/telegram/native/live_gateway.rs) and the SessionBinding that  *)
(* publishes it as the active context (providers/telegram/identity.rs).     *)
(*                                                                          *)
(* Two tasks hand authorization states to the gateway: the update loop, and *)
(* the task that asks for the first state when the gateway connects.  Every *)
(* Ready state that is news begins a generation, and a verification attempt *)
(* asks TDLib who it is, records the account and publishes the context.     *)
(*                                                                          *)
(* TDLib is external: `login` is its truth and `updates` its broadcast, in  *)
(* order and without loss (a receiver that lags 512 updates is left out).   *)
(*                                                                          *)
(* An operator named X_Y, with X the definition that follows it, is X with  *)
(* a mistake: the mutants that show each property is able to fail.          *)
(***************************************************************************)
EXTENDS Integers, Sequences, FiniteSets

CONSTANTS
  Account,         \* the accounts TDLib may be signed in as
  None,            \* no account, generation, context or lifecycle
  MaxLogins,       \* bound: changes of TDLib's login
  MaxGenerations,  \* bound: generations begun
  MaxUpsets        \* bound: failed requests, failed store transactions, and
                   \* replacements of the gateway

ASSUME IdentityBounds == {MaxLogins, MaxGenerations, MaxUpsets} \subseteq Nat

VARIABLES
  login,     \* TDLib: the account it is signed in as
  updates,   \* TDLib: authorization updates broadcast and not yet received
  version,   \* version_compatible, and that the wrong version was found
  task,      \* the two callers of process_authorization_state
  identity,  \* LiveGateway.identity
  binding,   \* SessionBinding.state
  attempt,   \* the verify_ready_identity of each generation
  sources,   \* the accounts with a ready live source in the foundation store
  left       \* what is left of the bounds

Tasks == {"initial", "loop"}
Generation == 1..MaxGenerations
Context == [account : Account, gen : Generation]
ASSUME NoneAssumption == None \notin Account \cup Generation \cup Context
Begun == Cardinality({g \in Generation : attempt[g].pc # "unborn"})

TypeOK ==
  /\ login \in Account \cup {None}
  /\ updates \in Seq({"ready", "other"})
  /\ version \in {"unknown", "compatible", "refused"}
  /\ task \in [Tasks ->
       [pc : {"version", "asked", "idle", "take", "unbind", "ended"},
        state : {"ready", "other"}]]
  /\ identity \in [ready : BOOLEAN, gen : Generation \cup {None},
       verified : Context \cup {None},
       status : {"Unavailable", "Pending", "Ready", "Failed"}]
  /\ binding \in [expected : Generation \cup {None},
                  active : Context \cup {None}]
  /\ attempt \in [Generation ->
       [pc : {"unborn", "asked", "answered", "checked", "stored", "published",
              "ended"}, account : Account \cup {None}]]
  /\ sources \subseteq Account
  /\ left \in [logins : 0..MaxLogins, upsets : 0..MaxUpsets]

Unidentified == [ready |-> FALSE, gen |-> None, verified |-> None,
                 status |-> "Unavailable"]
Unbound == [expected |-> None, active |-> None]

(* A gateway that has just been connected waits for the version.            *)
NewTasks == [t \in Tasks |-> [pc |-> IF t = "initial" THEN "version" ELSE "idle",
                             state |-> "other"]]

IdentityInit ==
  /\ login = None
  /\ updates = <<>>
  /\ version = "unknown"
  /\ task = NewTasks
  /\ identity = Unidentified
  /\ binding = Unbound
  /\ attempt = [g \in Generation |-> [pc |-> "unborn", account |-> None]]
  /\ sources = {}
  /\ left = [logins |-> MaxLogins, upsets |-> MaxUpsets]

Upset == left.upsets > 0 /\ left' = [left EXCEPT !.upsets = @ - 1]

-----------------------------------------------------------------------------
(* TDLib.                                                                   *)

ChangeLogin(a) ==
  /\ left.logins > 0
  /\ IF login = None THEN a # None ELSE a = None
  /\ login' = a
  /\ updates' = Append(updates, IF a = None THEN "other" ELSE "ready")
  /\ left' = [left EXCEPT !.logins = @ - 1]
  /\ UNCHANGED <<version, task, identity, binding, attempt, sources>>

-----------------------------------------------------------------------------
(* connect: the version, then the first authorization state.                *)

LearnVersion ==
  /\ task["initial"].pc = "version"
  /\ \/ /\ version' = "compatible"
        /\ task' = [task EXCEPT !["initial"].pc = "asked"]
        /\ left' = left
     \/ /\ Upset
        /\ version' = "refused"
        /\ task' = [task EXCEPT !["initial"].pc = "ended"]
  /\ UNCHANGED <<login, updates, identity, binding, attempt, sources>>

(* The answer to getAuthorizationState is the state when TDLib answers, and *)
(* may be processed after updates that were broadcast later.                *)
LearnState ==
  /\ task["initial"].pc = "asked"
  /\ \/ /\ task' = [task EXCEPT !["initial"] =
             [pc |-> "take", state |-> IF login = None THEN "other"
                                       ELSE "ready"]]
        /\ left' = left
     \/ /\ Upset
        /\ task' = [task EXCEPT !["initial"].pc = "ended"]
  /\ UNCHANGED <<login, updates, version, identity, binding, attempt, sources>>

Receive ==
  /\ task["loop"].pc = "idle"
  /\ updates # <<>>
  /\ updates' = Tail(updates)
  /\ task' = [task EXCEPT !["loop"] = [pc |-> "take", state |-> Head(updates)]]
  /\ UNCHANGED <<login, version, identity, binding, attempt, sources, left>>

-----------------------------------------------------------------------------
(* process_authorization_state.                                             *)

Handled(t) == [task EXCEPT ![t].pc = IF t = "loop" THEN "idle" ELSE "ended"]

(* Until the version is known to be compatible every state is ignored.      *)
IgnoreState(t) ==
  /\ task[t].pc = "take"
  /\ version # "compatible"
  /\ task' = Handled(t)
  /\ UNCHANGED <<login, updates, version, identity, binding, attempt, sources,
                 left>>

(* begin_identity_generation: under the identity lock, and only when the    *)
(* gateway was not ready; verification of the new generation is spawned.    *)
BeginGeneration(t) ==
  /\ task[t].pc = "take" /\ task[t].state = "ready"
  /\ version = "compatible"
  /\ IF identity.ready
     THEN UNCHANGED <<identity, binding, attempt>>
     ELSE LET g == Begun + 1 IN
          /\ g \in Generation
          /\ identity' = [ready |-> TRUE, gen |-> g, verified |-> None,
                          status |-> "Pending"]
          /\ binding' = [expected |-> g, active |-> None]
          /\ attempt' = [attempt EXCEPT ![g].pc = "asked"]
  /\ task' = Handled(t)
  /\ UNCHANGED <<login, updates, version, sources, left>>

(* invalidate_identity: the identity under its lock, then the binding.      *)
InvalidateIdentity(t) ==
  /\ task[t].pc = "take" /\ task[t].state = "other"
  /\ version = "compatible"
  /\ identity' = Unidentified
  /\ task' = [task EXCEPT ![t].pc = "unbind"]
  /\ UNCHANGED <<login, updates, version, binding, attempt, sources, left>>

InvalidateBinding(t) ==
  /\ task[t].pc = "unbind"
  /\ binding' = Unbound
  /\ task' = Handled(t)
  /\ UNCHANGED <<login, updates, version, identity, attempt, sources, left>>

-----------------------------------------------------------------------------
(* verify_ready_identity and SessionBinding::publish.                       *)

Current(g) == identity.ready /\ identity.gen = g
(* fail_identity_verification: of the current generation only.              *)
Fail(g) ==
  /\ identity' = IF Current(g) THEN [identity EXCEPT !.status = "Failed"]
                 ELSE identity
  /\ attempt' = [attempt EXCEPT ![g] = [pc |-> "ended", account |-> None]]

(* getMe: an error while signed out.                                        *)
Answer(g) ==
  /\ attempt[g].pc = "asked"
  /\ \/ /\ login # None
        /\ attempt' = [attempt EXCEPT ![g] = [pc |-> "answered",
                                              account |-> login]]
        /\ UNCHANGED <<identity, left>>
     \/ login = None /\ Fail(g) /\ left' = left
     \/ login # None /\ Upset /\ Fail(g)
  /\ UNCHANGED <<login, updates, version, task, binding, sources>>

(* identity_generation_is_current, and the first check of publish.          *)
CheckGeneration(g) ==
  /\ attempt[g].pc = "answered"
  /\ \/ /\ ~Current(g)
        /\ attempt' = [attempt EXCEPT ![g] = [pc |-> "ended", account |-> None]]
        /\ UNCHANGED identity
     \/ Current(g) /\ binding.expected # g /\ Fail(g)
     \/ /\ Current(g) /\ binding.expected = g
        /\ attempt' = [attempt EXCEPT ![g].pc = "checked"]
        /\ UNCHANGED identity
  /\ UNCHANGED <<login, updates, version, task, binding, sources, left>>

StoreAccount(g) ==
  /\ attempt[g].pc = "checked"
  /\ \/ /\ sources' = sources \cup {attempt[g].account}
        /\ attempt' = [attempt EXCEPT ![g].pc = "stored"]
        /\ UNCHANGED <<identity, left>>
     \/ Upset /\ Fail(g) /\ UNCHANGED sources
  /\ UNCHANGED <<login, updates, version, task, binding>>

(* The generation may have ended while the store was written.               *)
Activate(g) ==
  /\ attempt[g].pc = "stored"
  /\ IF binding.expected = g
     THEN /\ binding' = [binding EXCEPT !.active =
                           [account |-> attempt[g].account, gen |-> g]]
          /\ attempt' = [attempt EXCEPT ![g].pc = "published"]
          /\ UNCHANGED identity
     ELSE Fail(g) /\ UNCHANGED binding
  /\ UNCHANGED <<login, updates, version, task, sources, left>>

Verified(g) ==
  /\ attempt[g].pc = "published"
  /\ identity' = IF Current(g)
       THEN [identity EXCEPT !.status = "Ready",
               !.verified = [account |-> attempt[g].account, gen |-> g]]
       ELSE identity
  /\ attempt' = [attempt EXCEPT ![g] = [pc |-> "ended", account |-> None]]
  /\ UNCHANGED <<login, updates, version, task, binding, sources, left>>

(* retry_identity_verification: the same generation is verified again.      *)
RetryIdentity ==
  /\ identity.ready /\ identity.status = "Failed"
  /\ binding' = IF binding.expected = identity.gen THEN binding
                ELSE [expected |-> identity.gen, active |-> None]
  /\ identity' = [identity EXCEPT !.status = "Pending"]
  /\ attempt' = [attempt EXCEPT ![identity.gen].pc = "asked"]
  /\ UNCHANGED <<login, updates, version, task, sources, left>>

GatewayStep ==
  \/ LearnVersion \/ LearnState \/ Receive
  \/ \E t \in Tasks : \/ IgnoreState(t) \/ BeginGeneration(t)
                      \/ InvalidateIdentity(t) \/ InvalidateBinding(t)
  \/ \E g \in Generation : \/ Answer(g) \/ CheckGeneration(g)
                           \/ StoreAccount(g) \/ Activate(g) \/ Verified(g)
IdentityNext ==
  \/ \E a \in Account \cup {None} : ChangeLogin(a)
  \/ GatewayStep
  \/ RetryIdentity

-----------------------------------------------------------------------------
(* Every authorization state TDLib sent has been handled.                   *)
Settled ==
  /\ updates = <<>>
  /\ task["initial"].pc = "ended" /\ task["loop"].pc = "idle"

(* Once that is so, the account the program acts for is the account TDLib   *)
(* is signed in as, in the generation the gateway believes in: no           *)
(* verification of an earlier session, however late, leaves its account.    *)
ContextIsVerified ==
  Settled /\ binding.active # None =>
    /\ binding.active.account = login
    /\ binding.active.gen = binding.expected
    /\ identity.verified \in {None, binding.active}
=============================================================================
