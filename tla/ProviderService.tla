--------------------------- MODULE ProviderService ---------------------------
(***************************************************************************)
(* The application service over the Telegram connection: provider_service.rs*)
(* checks every command against the active context and keeps one registered *)
(* provider; connection.rs builds the provider of the context in force from *)
(* the verified identity, the scoped repository and the cleanup lifecycle;  *)
(* commands_v2.rs replaces the whole service when settings are saved.       *)
(*                                                                          *)
(* A lifecycle is what its ScopedRepository (providers/lifecycle.rs) lets it*)
(* do: it publishes a whole projection of its scope, compared with the one  *)
(* it published last.  Reviews, owner prompts, batches and cancellations    *)
(* are the business of TelegramCleanup; here a plan is recorded, started,   *)
(* run and ended.                                                           *)
(***************************************************************************)
EXTENDS TelegramIdentity

CONSTANTS
  Command,      \* concurrent command handlers
  Plan,         \* plans that may be recorded
  MaxCommands   \* bound: commands issued

ASSUME ServiceBounds == MaxCommands \in Nat /\ IsFiniteSet(Command)

VARIABLES
  store,      \* plans and jobs in the foundation store
  slot,       \* ProviderService.registered
  holder,     \* the command that holds the lock of `registered`
  lifecycle,  \* the lifecycles that have been built
  command,    \* the commands in progress
  worker,     \* the task in run_job of each plan
  stopped,    \* ProviderService.stopped
  spent       \* commands issued

serviceVars == <<store, slot, holder, lifecycle, command, worker, stopped, spent>>
vars == <<login, updates, version, task, identity, binding, attempt, sources,
          left, store, slot, holder, lifecycle, command, worker, stopped,
          spent>>

Life == 1..(Cardinality(Command) + 1)
ASSUME NoOneAssumption == None \notin Command \cup Life \cup [ctx : Context, life : Life]
Rank == [Absent |-> 0, Planned |-> 1, Queued |-> 2, Blocked |-> 3,
         Running |-> 3, Ended |-> 4]
NoRecord == [scope |-> None, status |-> "Absent"]
Projection == [Plan -> [scope : Account \cup {None}, status : DOMAIN Rank]]
Empty == [p \in Plan |-> NoRecord]

NoLife == [ctx |-> None, user |-> None, last |-> Empty, quarantined |-> FALSE]
Idle == [pc |-> "idle", kind |-> "read", ctx |-> None, built |-> None,
         life |-> None]
NoWorker == [pc |-> "off", life |-> None, cancelled |-> FALSE]

Init ==
  /\ IdentityInit
  /\ store = Empty
  /\ slot = None
  /\ holder = None
  /\ lifecycle = [l \in Life |-> NoLife]
  /\ command = [c \in Command |-> Idle]
  /\ worker = [p \in Plan |-> NoWorker]
  /\ stopped = FALSE
  /\ spent = 0

-----------------------------------------------------------------------------
(* Checks.                                                                  *)

(* ProviderService::check.                                                  *)
Check(ctx) == ~stopped /\ binding.active = ctx
(* EngineContext::check.                                                    *)
EngineCheck(l) ==
  /\ ~lifecycle[l].quarantined
  /\ binding.active = lifecycle[l].ctx
  /\ identity.verified = lifecycle[l].user

-----------------------------------------------------------------------------
(* ScopedRepository.                                                        *)

Of(scope) == [p \in Plan |-> IF store[p].scope = scope THEN store[p]
                             ELSE NoRecord]

(* A history that vanishes or goes back is refused, and the transaction     *)
(* compares the projection with the one published last.                     *)
Publishable_Blind(l, new) ==
  \A p \in Plan : Rank[new[p].status] >= Rank[lifecycle[l].last[p].status]
Publishable(l, new) ==
  /\ \A p \in Plan : Rank[new[p].status] >= Rank[lifecycle[l].last[p].status]
  /\ Of(lifecycle[l].ctx.account) = lifecycle[l].last
Written(l, new) ==
  [p \in Plan |-> IF new[p].status # "Absent" THEN new[p]
                  ELSE IF store[p].scope = lifecycle[l].ctx.account
                  THEN NoRecord ELSE store[p]]

(* TelegramCleanup::transition: a publication that fails quarantines.       *)
Publish(l, new, ok) ==
  \/ /\ ok /\ ~lifecycle[l].quarantined /\ Publishable(l, new)
     /\ store' = Written(l, new)
     /\ lifecycle' = [lifecycle EXCEPT ![l].last = new]
     /\ left' = left
  \/ /\ ~ok
     /\ \/ /\ lifecycle[l].quarantined \/ ~Publishable(l, new)
           /\ left' = left
        \/ /\ ~lifecycle[l].quarantined /\ Publishable(l, new)
           /\ Upset
     /\ lifecycle' = [lifecycle EXCEPT ![l].quarantined = TRUE]
     /\ UNCHANGED store

(* block_foreign_jobs: what the new scope's owner does to the jobs of other *)
(* scopes.                                                                  *)
BlockForeign(scope) ==
  [p \in Plan |->
     IF store[p].scope \in {None, scope} THEN store[p]
     ELSE CASE store[p].status = "Running" -> [store[p] EXCEPT !.status = "Ended"]
            [] store[p].status = "Queued" -> [store[p] EXCEPT !.status = "Blocked"]
            [] OTHER -> store[p]]

(* FoundationTelegramRepository::load: no recorded job resumes.             *)
Recovered(projection) ==
  [p \in Plan |-> IF projection[p].status \in {"Queued", "Running", "Blocked"}
                  THEN [projection[p] EXCEPT !.status = "Ended"]
                  ELSE projection[p]]

-----------------------------------------------------------------------------
(* Commands: ProviderService::active, bootstrap and registration.           *)

gatewayVars == <<login, updates, version, task, identity, binding, attempt,
                 sources>>
To(c, pc) == command' = [command EXCEPT ![c].pc = pc]
Refuse(c) ==
  /\ command' = [command EXCEPT ![c] = Idle]
  /\ holder' = IF holder = c THEN None ELSE holder

(* An interface that holds another context than the active one is refused at*)
(* once.                                                                    *)
Issue(c, kind) ==
  /\ command[c].pc = "idle"
  /\ spent < MaxCommands
  /\ ~stopped /\ binding.active # None
  /\ command' = [command EXCEPT ![c] =
       [Idle EXCEPT !.pc = "lock", !.kind = kind, !.ctx = binding.active]]
  /\ spent' = spent + 1
  /\ UNCHANGED <<gatewayVars, left, store, slot, holder, lifecycle, worker,
                 stopped>>

(* The registered provider is used while it is of the command's context;    *)
(* otherwise it is taken out and stopped before a new one is built, all     *)
(* under the lock.                                                          *)
Lock(c) ==
  /\ command[c].pc = "lock" /\ holder = None
  /\ IF ~Check(command[c].ctx) THEN Refuse(c) /\ UNCHANGED slot
     ELSE IF slot # None /\ slot.ctx = command[c].ctx
     THEN /\ command' = [command EXCEPT ![c].pc = "use", ![c].life = slot.life]
          /\ UNCHANGED <<slot, holder>>
     ELSE /\ holder' = c
          /\ slot' = None
          /\ command' = [command EXCEPT
               ![c].pc = IF slot = None THEN "build" ELSE "stop",
               ![c].life = IF slot = None THEN None ELSE slot.life]
  /\ UNCHANGED <<gatewayVars, left, store, lifecycle, worker, stopped, spent>>

(* stop_workers: a start that is being published holds the cancellation map.*)
Starting(l) == \E c \in Command :
  command[c].pc = "commit" /\ command[c].kind = "start" /\ command[c].life = l
CancelWorkers(l) ==
  [p \in Plan |-> IF worker[p].life = l
                  THEN [worker[p] EXCEPT !.cancelled = TRUE] ELSE worker[p]]
StopOld(c) ==
  /\ command[c].pc = "stop"
  /\ ~Starting(command[c].life)
  /\ worker' = CancelWorkers(command[c].life)
  /\ To(c, "drain")
  /\ UNCHANGED <<gatewayVars, left, store, slot, holder, lifecycle, stopped, spent>>
Drained(c) ==
  /\ command[c].pc = "drain"
  /\ \A p \in Plan : worker[p].life # command[c].life
  /\ command' = [command EXCEPT ![c].pc = "build", ![c].life = None]
  /\ lifecycle' = [lifecycle EXCEPT ![command[c].life] =
       IF \E d \in Command \ {c} : command[d].life = command[c].life
       THEN @ ELSE NoLife]
  /\ UNCHANGED <<gatewayVars, left, store, slot, holder, worker, stopped, spent>>

(* TelegramConnection::registration reads the active context...             *)
BuildContext(c) ==
  /\ command[c].pc = "build"
  /\ IF binding.active = None THEN Refuse(c)
     ELSE /\ command' = [command EXCEPT ![c].pc = "verify",
                           ![c].built = binding.active]
          /\ UNCHANGED holder
  /\ UNCHANGED <<gatewayVars, left, store, slot, lifecycle, worker, stopped, spent>>

Unused == CHOOSE l \in Life :
  /\ slot # None => slot.life # l
  /\ \A c \in Command : command[c].life # l
  /\ \A p \in Plan : worker[p].life # l

(* ... and then the verified identity: EngineContext::new takes the two only*)
(* when they are of one generation and the context is still in force.       *)
BuildEngine(c) ==
  /\ command[c].pc = "verify"
  /\ IF /\ identity.verified # None
        /\ binding.active = command[c].built
        /\ identity.verified.gen = command[c].built.gen
     THEN /\ command' = [command EXCEPT ![c] =
               [@ EXCEPT !.pc = "foreign", !.life = Unused, !.built = None]]
          /\ lifecycle' = [lifecycle EXCEPT ![Unused] =
               [NoLife EXCEPT !.ctx = command[c].built,
                              !.user = identity.verified]]
          /\ UNCHANGED holder
     ELSE Refuse(c) /\ UNCHANGED lifecycle
  /\ UNCHANGED <<gatewayVars, left, store, slot, worker, stopped, spent>>

(* ScopedRepository::new.  If its transaction fails the command is refused  *)
(* and nothing has changed, as when the check of BuildLoad fails.           *)
BuildRepository(c) ==
  /\ command[c].pc = "foreign"
  /\ LET scope == lifecycle[command[c].life].ctx.account IN
     IF scope \in sources
     THEN /\ store' = BlockForeign(scope)
          /\ To(c, "load")
          /\ UNCHANGED holder
     ELSE Refuse(c) /\ UNCHANGED store
  /\ UNCHANGED <<gatewayVars, left, slot, lifecycle, worker, stopped, spent>>

(* TelegramCleanup::new_scoped checks, loads, and seals what it recovered.  *)
BuildLoad(c) ==
  /\ command[c].pc = "load"
  /\ LET l == command[c].life IN
     IF EngineCheck(l)
     THEN /\ lifecycle' = [lifecycle EXCEPT ![l].last =
                             Of(lifecycle[l].ctx.account)]
          /\ To(c, "seal")
          /\ UNCHANGED holder
     ELSE Refuse(c) /\ UNCHANGED lifecycle
  /\ UNCHANGED <<gatewayVars, left, store, slot, worker, stopped, spent>>
BuildSeal(c) ==
  /\ command[c].pc = "seal"
  /\ \E ok \in BOOLEAN :
       /\ Publish(command[c].life, Recovered(lifecycle[command[c].life].last), ok)
       /\ IF ok THEN To(c, "recheck") /\ UNCHANGED holder ELSE Refuse(c)
  /\ UNCHANGED <<gatewayVars, slot, worker, stopped, spent>>

(* The provider was built for the context in force then: it is installed    *)
(* only if that is still the command's.                                     *)
Register_Unchecked(c) ==
  /\ command[c].pc = "recheck"
  /\ slot' = [ctx |-> command[c].ctx, life |-> command[c].life]
  /\ To(c, "use")
  /\ holder' = None
  /\ UNCHANGED <<gatewayVars, left, store, lifecycle, worker, stopped, spent>>
Register(c) ==
  /\ command[c].pc = "recheck"
  /\ IF Check(command[c].ctx)
     THEN /\ slot' = [ctx |-> command[c].ctx, life |-> command[c].life]
          /\ To(c, "use")
          /\ holder' = None
     ELSE Refuse(c) /\ UNCHANGED slot
  /\ UNCHANGED <<gatewayVars, left, store, lifecycle, worker, stopped, spent>>

(* The lifecycle is called: its own check precedes its publication.         *)
Use(c) ==
  /\ command[c].pc = "use"
  /\ IF Check(command[c].ctx) /\ EngineCheck(command[c].life)
     THEN To(c, "commit") /\ UNCHANGED holder
     ELSE Refuse(c)
  /\ UNCHANGED <<gatewayVars, left, store, slot, lifecycle, worker, stopped, spent>>

(* What the command publishes: recover the state as it is, prepare a new    *)
(* plan, start the job of a plan that has none.                             *)
Candidates(c) ==
  LET l == command[c].life
      last == lifecycle[l].last
      With(p, status) == [last EXCEPT ![p] =
        [scope |-> lifecycle[l].ctx.account, status |-> status]]
  IN CASE command[c].kind = "read" -> {last}
       [] command[c].kind = "prepare" ->
            {With(p, "Planned") :
               p \in {q \in Plan : {store[q], last[q]} = {NoRecord}}}
       [] command[c].kind = "start" ->
            {With(p, "Queued") : p \in {q \in Plan : last[q].status = "Planned"}}
Started(l, new) == {p \in Plan : new[p].status = "Queued"
                                 /\ lifecycle[l].last[p].status = "Planned"}
CommitChange(c) ==
  /\ command[c].pc = "commit"
  /\ LET l == command[c].life IN
     \/ /\ Candidates(c) = {}
        /\ Refuse(c)
        /\ UNCHANGED <<store, lifecycle, worker, left>>
     \/ \E new \in Candidates(c), ok \in BOOLEAN :
          /\ Publish(l, new, ok)
          /\ worker' = [p \in Plan |->
               IF ok /\ p \in Started(l, new)
               THEN [pc |-> "claim", life |-> l, cancelled |-> FALSE]
               ELSE worker[p]]
          /\ IF ok THEN To(c, "answer") /\ UNCHANGED holder ELSE Refuse(c)
  /\ UNCHANGED <<gatewayVars, slot, stopped, spent>>

(* The answer leaves only while its context is in force.                    *)
AnswerCommand(c) ==
  /\ command[c].pc = "answer"
  /\ command' = [command EXCEPT ![c] = Idle]
  /\ UNCHANGED <<gatewayVars, left, store, slot, holder, lifecycle, worker,
                 stopped, spent>>

-----------------------------------------------------------------------------
(* run_job.                                                                 *)

WorkerClaim(p) ==
  /\ worker[p].pc = "claim"
  /\ LET l == worker[p].life IN
     IF EngineCheck(l) /\ ~worker[p].cancelled
     THEN \E ok \in BOOLEAN :
            /\ Publish(l, [lifecycle[l].last EXCEPT ![p].status = "Running"], ok)
            /\ worker' = [worker EXCEPT ![p] =
                 IF ok THEN [@ EXCEPT !.pc = "finish"] ELSE NoWorker]
     ELSE /\ worker' = [worker EXCEPT ![p].pc = "finish"]
          /\ UNCHANGED <<store, lifecycle, left>>
  /\ UNCHANGED <<gatewayVars, slot, holder, command, stopped, spent>>
WorkerFinish(p) ==
  /\ worker[p].pc = "finish"
  /\ LET l == worker[p].life IN
     \E ok \in BOOLEAN :
       Publish(l, [lifecycle[l].last EXCEPT ![p].status = "Ended"], ok)
  /\ worker' = [worker EXCEPT ![p] = NoWorker]
  /\ UNCHANGED <<gatewayVars, slot, holder, command, stopped, spent>>

-----------------------------------------------------------------------------
(* Replacement, shutdown and death.                                         *)

Leased == \E c \in Command : command[c].pc # "idle"
Restarted ==
  /\ Upset
  /\ updates' = <<>>
  /\ version' = "unknown"
  /\ task' = NewTasks
  /\ identity' = Unidentified
  /\ binding' = Unbound
  /\ attempt' = [g \in Generation |->
       IF attempt[g].pc = "unborn" THEN attempt[g]
       ELSE [pc |-> "ended", account |-> None]]
  /\ slot' = None
  /\ holder' = None
  /\ lifecycle' = [l \in Life |-> NoLife]
  /\ command' = [c \in Command |-> Idle]
  /\ worker' = [p \in Plan |-> NoWorker]
  /\ stopped' = FALSE
  /\ UNCHANGED <<login, sources, store, spent>>

(* save_settings takes the service for itself, refuses while jobs run, and  *)
(* connects anew; what the old gateway's tasks still do reaches nobody.     *)
SaveSettings ==
  /\ ~Leased /\ ~stopped
  /\ \A p \in Plan : worker[p].pc = "off"
  /\ Restarted
Die == Restarted

(* RuntimeState::shutdown: the registered lifecycle is drained, then TDLib  *)
(* closed.                                                                  *)
Shutdown ==
  /\ ~Leased /\ ~stopped
  /\ stopped' = TRUE
  /\ slot' = None
  /\ worker' = IF slot = None THEN worker ELSE CancelWorkers(slot.life)
  /\ UNCHANGED <<gatewayVars, left, store, holder, lifecycle, command, spent>>

Next ==
  \/ IdentityNext /\ UNCHANGED serviceVars
  \/ \E c \in Command, kind \in {"read", "prepare", "start"} : Issue(c, kind)
  \/ \E c \in Command :
       \/ Lock(c) \/ StopOld(c) \/ Drained(c)
       \/ BuildContext(c) \/ BuildEngine(c) \/ BuildRepository(c)
       \/ BuildLoad(c) \/ BuildSeal(c) \/ Register(c)
       \/ Use(c) \/ CommitChange(c) \/ AnswerCommand(c)
  \/ \E p \in Plan : WorkerClaim(p) \/ WorkerFinish(p)
  \/ SaveSettings \/ Die \/ Shutdown

Spec == Init /\ [][Next]_vars

-----------------------------------------------------------------------------
(* A command is served by the lifecycle of its own context, whose account is*)
(* the one verified in that very generation, however the login and the      *)
(* registered provider change while the command waits; and the program      *)
(* settles on no account but the one TDLib is signed in as.                 *)
ServedByItsContext ==
  /\ ContextIsVerified
  /\ slot # None => lifecycle[slot.life].ctx = slot.ctx
  /\ \A c \in Command : command[c].pc \in {"use", "commit", "answer"} =>
       /\ lifecycle[command[c].life].ctx = command[c].ctx
       /\ lifecycle[command[c].life].user = command[c].ctx

(* A plan or a job that was recorded is never lost, moved to another scope  *)
(* or taken back to an earlier status by a lifecycle that did not know of   *)
(* it: one that was replaced, or one of another account.                    *)
RecordedJobsSurvive ==
  [][\A p \in Plan : store[p] # NoRecord =>
       /\ store'[p].scope = store[p].scope
       /\ Rank[store'[p].status] >= Rank[store[p].status]]_vars
=============================================================================
