--------------------------- MODULE FrozenLifecycle ---------------------------
(***************************************************************************)
(* The shared reviewed-cleanup lifecycle of providers/frozen_lifecycle.rs   *)
(* with the primitives of providers/lifecycle.rs: one-use owner grants, the *)
(* compare-and-swap publication of plans and jobs, the frozen batch loop,   *)
(* and the protocol by which start, recover, cancel and stop share a job    *)
(* with the worker that executes it.                                        *)
(*                                                                          *)
(* One FrozenLifecycle instance of one scope runs at a time.  The process   *)
(* may die between any two steps; opening it again loads the published      *)
(* projection.  The provider is external: a preflight and a mutation answer *)
(* anything FrozenProviderIo allows.                                        *)
(*                                                                          *)
(* An operator named X_Y, with X the definition that follows it, is X with  *)
(* a mistake: the mutants that show each property is able to fail.          *)
(***************************************************************************)
EXTENDS Integers, Sequences, FiniteSets

CONSTANTS
  Plan,           \* identities a prepared plan may get
  Job,            \* identities a started job may get
  Client,         \* concurrent command handlers
  None,           \* no plan, no job
  Ends,           \* Ends[p][n] : targets in the first n batches plan p freezes
  MaxApprovals,   \* bound: owner prompts a plan may have approved
  MaxRateLimits,  \* bound: rate-limited answers a job may get
  MaxFaults,      \* bound: publications the store may fail
  MaxCrashes      \* bound: deaths of the process

ASSUME NoneAssumption    == None \notin Plan \cup Job
ASSUME EndsAssumption    ==
  /\ Ends \in [Plan -> Seq(Nat \ {0})]
  /\ \A p \in Plan : \A m, n \in 1..Len(Ends[p]) : m < n => Ends[p][m] < Ends[p][n]
ASSUME BoundsAssumption  ==
  /\ MaxApprovals \in Nat
  /\ MaxRateLimits \in Nat
  /\ MaxFaults \in Nat
  /\ MaxCrashes \in Nat

VARIABLES
  store,      \* the projection of this scope in the foundation store
  state,      \* Inner.state, which is also the repository's `last`
  failed,     \* Inner.failed: publication is quarantined
  stopped,    \* Inner.stopped
  grants,     \* Inner.grants
  control,    \* Inner.workers and the WorkerControl it holds for a job
  worker,     \* the task that executes a job: program counter and locals
  call,       \* the commands in progress
  woken,      \* clients whose Notified future has been woken
  up,         \* the process is running
  budget,     \* what is left of the bounds on faults, crashes, rate limits
  applied,    \* observer: targets of a job that calls of an open end removed
  denied,     \* observer: targets it removed in calls that told of a refusal
  approvals,  \* observer: owner prompts approved for a plan in this process
  started,    \* observer: jobs started by an owner in this process
  acked       \* observer: jobs whose cancellation was reported to a caller

lifecycleVars == <<store, state, failed, stopped, grants>>
taskVars      == <<control, worker, call, woken>>
observers     == <<approvals, started, acked>>
vars == <<store, state, failed, stopped, grants, control, worker, call, woken,
          up, budget, applied, denied, approvals, started, acked>>

-----------------------------------------------------------------------------
(* Records.                                                                 *)

TerminalStatus == {"Completed", "Partial", "Failed", "Cancelled"}
JobStatus == {"Absent", "Queued", "Running"} \cup TerminalStatus

JobRecord ==
  [status : JobStatus, plan : Plan \cup {None}, next : Nat, deleted : Nat,
   skipped : Nat, failed : Nat, uncertain : Nat, retry : BOOLEAN]

NoJob == [status |-> "Absent", plan |-> None, next |-> 0, deleted |-> 0,
          skipped |-> 0, failed |-> 0, uncertain |-> 0, retry |-> FALSE]

Projection == [plans : SUBSET Plan, jobs : [Job -> JobRecord]]

Terminal(job) == job.status \in TerminalStatus
Present(job)  == job.status # "Absent"
Unfinished(job) == Present(job) /\ ~Terminal(job)

(* Everything of a job but the loop that runs it.                           *)
Result == {"ok", "ambiguous", "rate", "soft", "fatal"}
WorkerPc == {"off", "start", "claim", "top", "reach", "reached", "mutate",
             "gate", "flight", "settle", "post", "wait", "resume", "final",
             "fail", "finish", "notify", "unmap"}
Idle == [at |-> "idle", plan |-> None, job |-> None, spawn |-> 0, todo |-> {}]
CallPc == {"idle", "describe", "prompt", "startCommit", "schedule",
           "cancelCommit", "cancelSignal", "cancelGate", "cancelArm",
           "cancelCheck", "cancelParked", "recover", "stopFlag", "stopDrain",
           "stopClear"}
NoWorker == [pc |-> "off", next |-> 0, allowed |-> 0, skipped |-> 0,
             result |-> "ok"]
NoDenial == [batch |-> 0, here |-> 0, before |-> 0]
NoControl == [mapped |-> FALSE, spawn |-> 0, cancelled |-> FALSE,
              finished |-> FALSE]

(* The targets of a plan are cut into batches: how many there are, the      *)
(* targets in the first n, in the one after them, and in all.               *)
Count(p)     == Len(Ends[p])
Before(p, n) == IF n = 0 THEN 0 ELSE Ends[p][n]
SizeOf(p, n) == Before(p, n + 1) - Before(p, n)
Total(p)     == Before(p, Count(p))
Size(j)      == SizeOf(state.jobs[j].plan, worker[j].next)

-----------------------------------------------------------------------------
(* Publication: FrozenLifecycle::transition over ScopedRepository::commit.  *)

(* FrozenLifecycle::check.  The provider's own check compares the scope the *)
(* instance was built for, so it adds nothing to a call of that scope.      *)
Check == ~failed /\ ~stopped

(* The code of the error check returns, as FrozenBatchDriver::fatal sees it. *)
CheckError == IF failed THEN "soft" ELSE "fatal"

(* The per-job monotonicity ScopedRepository::commit demands.               *)
Follows(old, new) ==
  Present(old) => /\ Present(new)
                  /\ new.next >= old.next
                  /\ new.deleted >= old.deleted
                  /\ new.skipped >= old.skipped
                  /\ new.failed >= old.failed
                  /\ new.uncertain >= old.uncertain
                  /\ Terminal(old) => Terminal(new)

(* ScopedJobRecord::validate and the adapter's validate_job, on the fields  *)
(* kept here.  FoundationStore::transaction runs it on every candidate.     *)
Valid(job) ==
  Present(job) => /\ job.plan \in Plan
                  /\ job.next <= Count(job.plan)
                  /\ job.skipped <= Total(job.plan)
                  /\ job.deleted + job.failed + job.uncertain <= Total(job.plan)
                  /\ job.status = "Completed" => job.failed = 0 /\ job.uncertain = 0
                  /\ job.uncertain > 0 => Terminal(job)
                  /\ Terminal(job) => ~job.retry

(* What ScopedRepository::commit accepts before the store writes anything.  *)
Publishable(new) ==
  /\ store = state
  /\ state.plans \subseteq new.plans
  /\ \A j \in Job : Follows(state.jobs[j], new.jobs[j]) /\ Valid(new.jobs[j])

(* One transition to the projection `new`; ok is what the caller is told.   *)
(* A store that fails after it replaced the file has published `new` while  *)
(* the instance keeps its old state.                                        *)
(* A fault that leaves the file also stands for a record refused because    *)
(* the wall clock was set back behind its updated_at (commit compares them, *)
(* and every transition of a job stamps it).                                *)
Publish(new, ok) ==
  \/ /\ ok /\ ~failed /\ Publishable(new)
     /\ state' = new /\ store' = new
     /\ UNCHANGED <<failed, budget>>
  \/ /\ ~ok /\ failed
     /\ UNCHANGED <<state, store, failed, budget>>
  \/ /\ ~ok /\ ~failed /\ ~Publishable(new)
     /\ failed' = TRUE
     /\ UNCHANGED <<state, store, budget>>
  \/ /\ ~ok /\ ~failed /\ Publishable(new) /\ budget.faults > 0
     /\ failed' = TRUE
     /\ store' \in {store, new}
     /\ budget' = [budget EXCEPT !.faults = @ - 1]
     /\ UNCHANGED state

WithJob(j, job) == [state EXCEPT !.jobs = [@ EXCEPT ![j] = job]]

(* A transition of job j alone; the statement after it is `then` or `else`. *)
PublishJob(j, job, then, else) ==
  \E ok \in BOOLEAN :
    /\ Publish(WithJob(j, job), ok)
    /\ worker' = [worker EXCEPT ![j].pc = IF ok THEN then ELSE else]

Stopped(job) ==
  [job EXCEPT !.status = IF job.deleted > 0 THEN "Partial" ELSE "Failed",
              !.retry = FALSE]
Cancelled(job) == [job EXCEPT !.status = "Cancelled", !.retry = FALSE]

-----------------------------------------------------------------------------
(* The worker of a job: FrozenLifecycle::run, the Driver and                *)
(* run_frozen_batches.                                                      *)

At(j, pc) == up /\ worker[j].pc = pc
Goto(j, pc) == worker' = [worker EXCEPT ![j].pc = pc]
Flagged(j) == control[j].cancelled \/ ~control[j].mapped
InFlight(j) == worker[j].pc = "flight"
WorkerFrame == UNCHANGED <<stopped, grants, call, up, observers>>

(* run: check, then read the job and its plan.  retry_at is never set on a  *)
(* job without a worker (WaitingJobHasWorker), so run has nothing to wait   *)
(* for here.                                                                *)
RunStart(j) ==
  /\ At(j, "start")
  /\ Goto(j, IF Check THEN "claim" ELSE "fail")
  /\ UNCHANGED <<store, state, failed, control, woken, budget, applied, denied>>
  /\ WorkerFrame

(* run_frozen_batches skips the batches the record is past.                 *)
FirstBatch(j) == state.jobs[j].next

(* run: the job becomes Running whatever its status is by now.              *)
RunClaim(j) ==
  /\ At(j, "claim")
  /\ \E ok \in BOOLEAN :
       /\ Publish(WithJob(j, [state.jobs[j] EXCEPT !.status = "Running"]), ok)
       /\ worker' = [worker EXCEPT ![j].pc = IF ok THEN "top" ELSE "fail",
                                   ![j].next = FirstBatch(j)]
  /\ UNCHANGED <<control, woken, applied, denied>>
  /\ WorkerFrame

(* Driver::cancelled answering TRUE, wherever the loop asks: the job is     *)
(* published as Cancelled and the worker returns.                           *)
SeeCancelled(j) ==
  /\ \/ At(j, "top") /\ ~(worker[j].next >= Count(state.jobs[j].plan))
     \/ At(j, "reached")
     \/ At(j, "post")
     \/ At(j, "wait")
  /\ Flagged(j)
  /\ PublishJob(j, Cancelled(state.jobs[j]), "finish", "fail")
  /\ UNCHANGED <<control, woken, applied, denied>>
  /\ WorkerFrame

(* The head of the batch loop: leave it, or begin this batch afresh.        *)
PastLastBatch_Early(j) == worker[j].next + 1 >= Count(state.jobs[j].plan)
PastLastBatch(j) == worker[j].next >= Count(state.jobs[j].plan)

NextBatch(j) ==
  /\ At(j, "top")
  /\ IF PastLastBatch(j)
     THEN Goto(j, "final")
     ELSE /\ ~Flagged(j)
          /\ worker' = [worker EXCEPT ![j].pc = "reach", ![j].allowed = 0,
                                      ![j].skipped = 0, ![j].result = "ok"]
  /\ UNCHANGED <<store, state, failed, control, woken, budget, applied, denied>>
  /\ WorkerFrame

(* Driver::reach for one target.  An error of the preflight is returned at  *)
(* once; its yes or no is dropped when the check after it fails.  External: *)
(* the targets a denied call removed fail it (Gone), as verify_live_owned   *)
(* does for a message it cannot read.                                       *)
Gone(j) == IF denied[j].batch = worker[j].next THEN denied[j].here ELSE 0

Reach(j, answer) ==
  /\ At(j, "reach")
  /\ answer = "rate" => budget.rateLimits[j] > 0
  /\ answer \in {"yes", "no"} =>
       worker[j].allowed + worker[j].skipped + Gone(j) < Size(j)
  /\ LET w == worker[j]
         last == w.allowed + w.skipped + 1 = Size(j)
         on == IF last THEN "reached" ELSE "reach"
     IN worker' = [worker EXCEPT ![j] =
          CASE answer \in {"rate", "soft", "fatal"} ->
                 [w EXCEPT !.pc = "reached", !.result = answer]
            [] answer \in {"yes", "no"} /\ ~Check ->
                 [w EXCEPT !.pc = "reached", !.result = CheckError]
            [] answer = "yes" /\ Check ->
                 [w EXCEPT !.pc = on, !.allowed = @ + 1]
            [] answer = "no" /\ Check ->
                 [w EXCEPT !.pc = on, !.skipped = @ + 1]]
  /\ budget' = IF answer = "rate"
               THEN [budget EXCEPT !.rateLimits[j] = @ - 1] ELSE budget
  /\ UNCHANGED <<store, state, failed, control, woken, applied, denied>>
  /\ WorkerFrame

(* After the preflights: mutate what they allowed, unless one failed or     *)
(* nothing is left to do.                                                   *)
Reached(j) ==
  /\ At(j, "reached") /\ ~Flagged(j)
  /\ Goto(j, IF worker[j].result = "ok" /\ worker[j].allowed > 0
              THEN "mutate" ELSE "settle")
  /\ UNCHANGED <<store, state, failed, control, woken, budget, applied, denied>>
  /\ WorkerFrame

(* Driver::mutate up to the mutation gate.                                  *)
MutateCheck(j) ==
  /\ At(j, "mutate")
  /\ worker' = [worker EXCEPT ![j].pc = IF Check THEN "gate" ELSE "settle",
                              ![j].result = IF Check THEN @ ELSE CheckError]
  /\ UNCHANGED <<store, state, failed, control, woken, budget, applied, denied>>
  /\ WorkerFrame

(* The gate is taken and the cancellation read under it; the worker keeps   *)
(* the gate while it is in flight.  A canceller takes it only to drop it.   *)
GateOpen_Unread(j) == TRUE
GateOpen(j) == ~control[j].cancelled

EnterGate(j) ==
  /\ At(j, "gate")
  /\ worker' = [worker EXCEPT ![j].pc = IF GateOpen(j) THEN "flight" ELSE "settle",
                              ![j].result = IF GateOpen(j) THEN @ ELSE "fatal"]
  /\ UNCHANGED <<store, state, failed, control, woken, budget, applied, denied>>
  /\ WorkerFrame

(* The provider answers a mutation.  External: it removed the batch when it *)
(* says so, and any other answer tells nothing: the Discord client sends a  *)
(* deletion that got lost again, finds the message gone or is refused, and  *)
(* returns a plain error.  A check that fails afterwards makes any answer   *)
(* ambiguous.  A removal the lifecycle is told was refused is `denied`.     *)
Believed(answer) == IF Check THEN answer ELSE "ambiguous"

Denied(j) == [batch |-> worker[j].next, here |-> worker[j].allowed,
              before |-> denied[j].before + denied[j].here]

Answer(j, answer, removed) ==
  /\ At(j, "flight")
  /\ answer = "ok" => removed
  /\ answer = "rate" => budget.rateLimits[j] > 0
  /\ worker' = [worker EXCEPT ![j].pc = "settle",
                              ![j].result = Believed(answer)]
  /\ IF removed /\ Believed(answer) \in {"rate", "soft", "fatal"}
     THEN denied' = [denied EXCEPT ![j] = Denied(j)] /\ UNCHANGED applied
     ELSE /\ applied' = [applied EXCEPT ![j] = @ + IF removed THEN worker[j].allowed ELSE 0]
          /\ UNCHANGED denied
  /\ budget' = IF answer = "rate"
               THEN [budget EXCEPT !.rateLimits[j] = @ - 1] ELSE budget
  /\ UNCHANGED <<store, state, failed, control, woken>>
  /\ WorkerFrame

(* Driver::wait: a rate-limited batch is published as queued until the      *)
(* deadline, and will be tried again as a whole.                            *)
WaitForRetry(j) ==
  /\ At(j, "settle") /\ worker[j].result = "rate"
  /\ PublishJob(j, [state.jobs[j] EXCEPT !.status = "Queued", !.retry = TRUE],
                "wait", "fail")
  /\ UNCHANGED <<control, woken, applied, denied>>
  /\ WorkerFrame

(* What run_frozen_batches reports of the batch just settled.  When every   *)
(* target was reached, all but the skipped ones were sent.                  *)
IsFatal(result) == result \in {"fatal", "ambiguous"}

Cursor_Same(j) == worker[j].next
Cursor(j) == worker[j].next + 1

Affected(j) == Size(j) - worker[j].skipped

DeletedNow_Hopeful(j) ==
  IF worker[j].result \in {"ok", "ambiguous"} THEN worker[j].allowed ELSE 0
DeletedNow(j) == IF worker[j].result = "ok" THEN worker[j].allowed ELSE 0

(* Driver::progress.                                                        *)
Progressed(j) ==
  LET w == worker[j]
      job == state.jobs[j]
      counted == [job EXCEPT
        !.next = Cursor(j),
        !.skipped = @ + w.skipped,
        !.deleted = @ + DeletedNow(j),
        !.failed = @ + IF w.result \in {"soft", "fatal"} THEN Affected(j) ELSE 0,
        !.uncertain = @ + IF w.result = "ambiguous" THEN Affected(j) ELSE 0,
        !.retry = FALSE]
  IN IF IsFatal(w.result) /\ job.status # "Cancelled"
     THEN Stopped(counted) ELSE counted

Progress(j) ==
  /\ At(j, "settle") /\ worker[j].result # "rate"
  /\ PublishJob(j, Progressed(j), "post", "fail")
  /\ UNCHANGED <<control, woken, applied, denied>>
  /\ WorkerFrame

(* After progress: a fatal outcome ends the loop, else the next batch.      *)
AfterBatch(j) ==
  /\ At(j, "post") /\ ~Flagged(j)
  /\ worker' = IF IsFatal(worker[j].result)
               THEN [worker EXCEPT ![j].pc = "finish"]
               ELSE [worker EXCEPT ![j].pc = "top", ![j].next = @ + 1]
  /\ UNCHANGED <<store, state, failed, control, woken, budget, applied, denied>>
  /\ WorkerFrame

(* Driver::wait_until: it leaves on a failed check, or when the deadline    *)
(* has passed and the cancellation read after the last check is clear ...   *)
WaitOver(j) ==
  /\ At(j, "wait")
  /\ \/ ~Check /\ Goto(j, "fail")
     \/ ~Flagged(j) /\ Goto(j, "resume")
  /\ UNCHANGED <<store, state, failed, control, woken, budget, applied, denied>>
  /\ WorkerFrame

(* ... and then publishes the job as running again.                         *)
Resume(j) ==
  /\ At(j, "resume")
  /\ PublishJob(j, [state.jobs[j] EXCEPT !.status = "Running", !.retry = FALSE],
                "top", "fail")
  /\ UNCHANGED <<control, woken, applied, denied>>
  /\ WorkerFrame

(* run, after the last batch.                                               *)
Finalize(j) ==
  /\ At(j, "final")
  /\ PublishJob(j, [state.jobs[j] EXCEPT
                      !.status = IF state.jobs[j].failed > 0
                                 THEN "Partial" ELSE "Completed",
                      !.retry = FALSE], "finish", "fail")
  /\ UNCHANGED <<control, woken, applied, denied>>
  /\ WorkerFrame

(* schedule: run returned an error, and whether or not the outcome can be   *)
(* published the task goes on to finish.                                    *)
Closed_Left(job) == job
Closed(job) == IF Terminal(job) THEN job ELSE Stopped(job)

IfUnpublished == "finish"

RunFailed(j) ==
  /\ At(j, "fail")
  /\ PublishJob(j, Closed(state.jobs[j]), "finish", IfUnpublished)
  /\ UNCHANGED <<control, woken, applied, denied>>
  /\ WorkerFrame

(* schedule: finished, then notify_waiters, then out of the worker map.     *)
Finish(j) ==
  /\ At(j, "finish")
  /\ control' = [control EXCEPT ![j].finished = TRUE]
  /\ Goto(j, "notify")
  /\ UNCHANGED <<store, state, failed, woken, budget, applied, denied>>
  /\ WorkerFrame

WaitsFor(c, j) == /\ call[c].at \in {"cancelCheck", "cancelParked"}
                  /\ call[c].job = j
                  /\ call[c].spawn = control[j].spawn

NotifyWaiters(j) ==
  /\ At(j, "notify")
  /\ woken' = woken \cup {c \in Client : WaitsFor(c, j)}
  /\ Goto(j, "unmap")
  /\ UNCHANGED <<store, state, failed, control, budget, applied, denied>>
  /\ WorkerFrame

Unmapped_Kept(j) == control
Unmapped(j) == [control EXCEPT ![j].mapped = FALSE]

Unmap(j) ==
  /\ At(j, "unmap")
  /\ control' = Unmapped(j)
  /\ worker' = [worker EXCEPT ![j] = NoWorker]
  /\ UNCHANGED <<store, state, failed, woken, budget, applied, denied>>
  /\ WorkerFrame

Work(j) ==
  \/ RunStart(j) \/ RunClaim(j) \/ SeeCancelled(j) \/ NextBatch(j)
  \/ \E answer \in {"yes", "no", "rate", "soft", "fatal"} : Reach(j, answer)
  \/ Reached(j) \/ MutateCheck(j) \/ EnterGate(j)
  \/ \E answer \in Result, removed \in BOOLEAN : Answer(j, answer, removed)
  \/ WaitForRetry(j) \/ Progress(j) \/ AfterBatch(j) \/ WaitOver(j)
  \/ Resume(j) \/ Finalize(j) \/ RunFailed(j)
  \/ Finish(j) \/ NotifyWaiters(j) \/ Unmap(j)

-----------------------------------------------------------------------------
(* Command handlers.                                                        *)

Calling(c, at) == up /\ call[c].at = at
Begin(c, r)  == call' = [call EXCEPT ![c] = r]
Return(c)    == call' = [call EXCEPT ![c] = Idle]
Step(c, at)  == call' = [call EXCEPT ![c].at = at]
CallFrame    == UNCHANGED <<worker, up, applied, denied>>

(* prepare: a fresh identity is described by the provider, then published.  *)
PrepareCall(c, p) ==
  /\ Calling(c, "idle") /\ Check
  /\ p \notin state.plans \cup store.plans
  /\ \A d \in Client : call[d].at = "describe" => call[d].plan # p
  /\ Begin(c, [Idle EXCEPT !.at = "describe", !.plan = p])
  /\ UNCHANGED <<lifecycleVars, control, woken, budget, observers>>
  /\ CallFrame

PrepareCommit(c) ==
  /\ Calling(c, "describe")
  /\ \/ /\ Check
        /\ \E ok \in BOOLEAN :
             Publish([state EXCEPT !.plans = @ \cup {call[c].plan}], ok)
     \/ /\ ~Check
        /\ UNCHANGED <<store, state, failed, budget>>
  /\ Return(c)
  /\ UNCHANGED <<stopped, grants, control, woken, observers>>
  /\ CallFrame

(* authorize: the plan is read, the owner is prompted, a grant is issued.   *)
AuthorizeCall(c, p) ==
  /\ Calling(c, "idle") /\ Check
  /\ p \in store.plans
  /\ Begin(c, [Idle EXCEPT !.at = "prompt", !.plan = p])
  /\ UNCHANGED <<lifecycleVars, control, woken, budget, observers>>
  /\ CallFrame

PromptApproved(c) ==
  /\ Calling(c, "prompt")
  /\ approvals[call[c].plan] < MaxApprovals
  /\ approvals' = [approvals EXCEPT ![call[c].plan] = @ + 1]
  /\ grants' = IF Check THEN [grants EXCEPT ![call[c].plan] = "live"] ELSE grants
  /\ Return(c)
  /\ UNCHANGED <<store, state, failed, stopped, control, woken, budget,
                 started, acked>>
  /\ CallFrame

(* A refused prompt, or a provider that cannot describe the plan.           *)
CallRefused(c) ==
  /\ Calling(c, "prompt") \/ Calling(c, "describe")
  /\ Return(c)
  /\ UNCHANGED <<lifecycleVars, control, woken, budget, observers>>
  /\ CallFrame

(* A grant is good for sixty seconds; one that has expired is refused as if *)
(* there were none.                                                         *)
GrantExpires(p) ==
  /\ up /\ grants[p] = "live"
  /\ grants' = [grants EXCEPT ![p] = "none"]
  /\ UNCHANGED <<store, state, failed, stopped, taskVars, up, budget, applied, denied,
                 observers>>

(* start, under the lock of the grants: consume takes the grant out of the  *)
(* book, whatever start decides afterwards.                                 *)
Consumed_Kept(p) == grants
Consumed(p) == [grants EXCEPT ![p] = "none"]

StartConsume(c, p) ==
  /\ Calling(c, "idle") /\ Check
  /\ p \in store.plans
  /\ grants' = Consumed(p)
  /\ IF grants[p] = "live"
     THEN Begin(c, [Idle EXCEPT !.at = "startCommit", !.plan = p])
     ELSE UNCHANGED call
  /\ UNCHANGED <<store, state, failed, stopped, control, woken, budget, observers>>
  /\ CallFrame

NewJob(p) == [NoJob EXCEPT !.status = "Queued", !.plan = p]
HasJob(p) == \E j \in Job : Present(state.jobs[j]) /\ state.jobs[j].plan = p

(* start: the job is published unless the plan has one already or the       *)
(* instance has been stopped since.  Bound: Job has an identity left.       *)
MayStart(c) == Check /\ ~HasJob(call[c].plan)

StartCommit(c, j) ==
  /\ Calling(c, "startCommit") /\ MayStart(c)
  /\ ~Present(state.jobs[j]) /\ ~Present(store.jobs[j])
  /\ \E ok \in BOOLEAN :
       /\ Publish(WithJob(j, NewJob(call[c].plan)), ok)
       /\ IF ok THEN /\ Begin(c, [Idle EXCEPT !.at = "schedule", !.job = j])
                     /\ started' = started \cup {j}
                ELSE Return(c) /\ UNCHANGED started
  /\ UNCHANGED <<stopped, grants, control, woken, approvals, acked>>
  /\ CallFrame

StartRefused(c) ==
  /\ Calling(c, "startCommit") /\ ~MayStart(c)
  /\ Return(c)
  /\ UNCHANGED <<lifecycleVars, control, woken, budget, observers>>
  /\ CallFrame

(* schedule: one worker per job; a second caller finds the first's.         *)
Spawn(j) ==
  IF control[j].mapped
  THEN UNCHANGED <<control, worker>>
  ELSE /\ control' = [control EXCEPT ![j] =
            [mapped |-> TRUE, spawn |-> control[j].spawn + 1,
             cancelled |-> FALSE, finished |-> FALSE]]
       /\ worker' = [worker EXCEPT ![j] = [NoWorker EXCEPT !.pc = "start"]]

StartSchedule(c) ==
  /\ Calling(c, "schedule")
  /\ Spawn(call[c].job)
  /\ Return(c)
  /\ UNCHANGED <<lifecycleVars, woken, up, budget, applied, denied, observers>>

(* recover: unfinished jobs are read once and scheduled one by one.         *)
RecoverCall(c) ==
  /\ Calling(c, "idle") /\ Check
  /\ Begin(c, [Idle EXCEPT !.at = "recover",
                           !.todo = {j \in Job : Unfinished(state.jobs[j])}])
  /\ UNCHANGED <<lifecycleVars, control, woken, budget, observers>>
  /\ CallFrame

RecoverSchedule(c, j) ==
  /\ Calling(c, "recover") /\ j \in call[c].todo
  /\ Spawn(j)
  /\ call' = [call EXCEPT ![c].todo = @ \ {j}]
  /\ UNCHANGED <<lifecycleVars, woken, up, budget, applied, denied, observers>>

RecoverReturn(c) ==
  /\ Calling(c, "recover") /\ call[c].todo = {}
  /\ Return(c)
  /\ UNCHANGED <<lifecycleVars, control, woken, budget, observers>>
  /\ CallFrame

(* cancel: the job needs a worker; its control is kept for the whole call.  *)
CancelCall(c, j) ==
  /\ Calling(c, "idle") /\ Check
  /\ control[j].mapped
  /\ Begin(c, [Idle EXCEPT !.at = "cancelCommit", !.job = j,
                           !.spawn = control[j].spawn])
  /\ UNCHANGED <<lifecycleVars, control, woken, budget, observers>>
  /\ CallFrame

(* The cancellation is published first, whatever the status is by now.      *)
CancelCommit(c) ==
  /\ Calling(c, "cancelCommit")
  /\ \E ok \in BOOLEAN :
       /\ Publish(WithJob(call[c].job, Cancelled(state.jobs[call[c].job])), ok)
       /\ IF ok THEN Step(c, "cancelSignal") ELSE Return(c)
  /\ UNCHANGED <<stopped, grants, control, woken, observers>>
  /\ CallFrame

(* Holds(c): the control the call took is still the one of the worker.      *)
Holds(c) == call[c].spawn = control[call[c].job].spawn

CancelSignal(c) ==
  /\ Calling(c, "cancelSignal")
  /\ control' = IF Holds(c)
                THEN [control EXCEPT ![call[c].job].cancelled = TRUE] ELSE control
  /\ Step(c, "cancelGate")
  /\ UNCHANGED <<lifecycleVars, woken, budget, observers>>
  /\ CallFrame

(* The gate is free unless that worker is in flight; it is dropped at once. *)
CancelGate(c) ==
  /\ Calling(c, "cancelGate")
  /\ ~(Holds(c) /\ InFlight(call[c].job))
  /\ Step(c, "cancelArm")
  /\ UNCHANGED <<lifecycleVars, control, woken, budget, observers>>
  /\ CallFrame

(* wait_finished: the Notified future exists before finished is read, so a  *)
(* notification between the two is not lost.                                *)
CancelArm(c) ==
  /\ Calling(c, "cancelArm")
  /\ woken' = woken \ {c}
  /\ Step(c, "cancelCheck")
  /\ UNCHANGED <<lifecycleVars, control, budget, observers>>
  /\ CallFrame

CancelCheck(c) ==
  /\ Calling(c, "cancelCheck")
  /\ IF control[call[c].job].finished \/ ~Holds(c)
     THEN Return(c) /\ acked' = acked \cup {call[c].job}
     ELSE Step(c, "cancelParked") /\ UNCHANGED acked
  /\ UNCHANGED <<lifecycleVars, control, woken, budget, approvals, started>>
  /\ CallFrame

CancelWake(c) ==
  /\ Calling(c, "cancelParked") /\ c \in woken
  /\ Step(c, "cancelArm")
  /\ UNCHANGED <<lifecycleVars, control, woken, budget, observers>>
  /\ CallFrame

(* stop: no check; the flag, the workers it can see, the drain, the grants. *)
(* Bound: an instance is stopped once.                                      *)
StopCall(c) ==
  /\ Calling(c, "idle") /\ ~stopped
  /\ stopped' = TRUE
  /\ Begin(c, [Idle EXCEPT !.at = "stopFlag"])
  /\ UNCHANGED <<store, state, failed, grants, control, woken, budget, observers>>
  /\ CallFrame

StopFlag(c) ==
  /\ Calling(c, "stopFlag")
  /\ control' = [j \in Job |-> [control[j] EXCEPT !.cancelled = @ \/ control[j].mapped]]
  /\ Step(c, "stopDrain")
  /\ UNCHANGED <<lifecycleVars, woken, budget, observers>>
  /\ CallFrame

Drained_Unawaited == TRUE
Drained == \A j \in Job : ~control[j].mapped

StopDrained(c) ==
  /\ Calling(c, "stopDrain") /\ Drained
  /\ Step(c, "stopClear")
  /\ UNCHANGED <<lifecycleVars, control, woken, budget, observers>>
  /\ CallFrame

(* The drain sleeps ten milliseconds and looks again.                       *)
StopPolls(c) ==
  /\ Calling(c, "stopDrain") /\ ~Drained
  /\ UNCHANGED vars

StopClear(c) ==
  /\ Calling(c, "stopClear")
  /\ grants' = [p \in Plan |-> "none"]
  /\ Return(c)
  /\ UNCHANGED <<store, state, failed, stopped, control, woken, budget, observers>>
  /\ CallFrame

(* What a handler does once it is called, and what a caller may call.       *)
Handle(c) ==
  \/ PrepareCommit(c)
  \/ \E j \in Job : StartCommit(c, j)
  \/ StartRefused(c)
  \/ StartSchedule(c)
  \/ \E j \in Job : RecoverSchedule(c, j)
  \/ RecoverReturn(c)
  \/ CancelCommit(c) \/ CancelSignal(c) \/ CancelGate(c)
  \/ CancelArm(c) \/ CancelCheck(c) \/ CancelWake(c)
  \/ StopFlag(c) \/ StopDrained(c) \/ StopPolls(c) \/ StopClear(c)

Invoke(c) ==
  \/ \E p \in Plan : PrepareCall(c, p) \/ AuthorizeCall(c, p) \/ StartConsume(c, p)
  \/ PromptApproved(c) \/ CallRefused(c)
  \/ RecoverCall(c) \/ StopCall(c)
  \/ \E j \in Job : CancelCall(c, j)

-----------------------------------------------------------------------------
(* Death of the process and a new instance.                                 *)

Volatile ==
  /\ failed' = FALSE /\ stopped' = FALSE
  /\ grants' = [p \in Plan |-> "none"]
  /\ control' = [j \in Job |-> NoControl]
  /\ worker' = [j \in Job |-> NoWorker]
  /\ call' = [c \in Client |-> Idle]
  /\ woken' = {}
  /\ approvals' = [p \in Plan |-> 0]
  /\ started' = {}

(* Whatever was in flight may still reach the provider.                     *)
Crash(landed) ==
  /\ up /\ budget.crashes > 0
  /\ \A j \in landed : InFlight(j)
  /\ applied' = [j \in Job |-> applied[j] + IF j \in landed THEN worker[j].allowed ELSE 0]
  /\ up' = FALSE
  /\ budget' = [budget EXCEPT !.crashes = @ - 1]
  /\ state' = store
  /\ UNCHANGED <<store, denied, acked>>
  /\ Volatile

(* FrozenLifecycle::new: resumable is FALSE for every job, so an unfinished *)
(* one is closed for a new review before anything can be called.            *)
Recovered_Resumable(s) == s
Recovered(s) ==
  [s EXCEPT !.jobs = [j \in Job |-> IF Unfinished(s.jobs[j])
                                    THEN Stopped(s.jobs[j]) ELSE s.jobs[j]]]

Open ==
  /\ ~up
  /\ state' = Recovered(state) /\ store' = Recovered(state)
  /\ up' = TRUE
  /\ UNCHANGED <<failed, stopped, grants, taskVars, budget, applied, denied, observers>>

(* The store fails to publish what new() closed: there is no instance yet.  *)
OpenFails ==
  /\ ~up /\ budget.faults > 0
  /\ budget' = [budget EXCEPT !.faults = @ - 1]
  /\ store' \in {store, Recovered(state)}
  /\ state' = store'
  /\ UNCHANGED <<failed, stopped, grants, taskVars, up, applied, denied, observers>>

(* Nothing left to do and nobody allowed to call: the instance is over.     *)
AtRest ==
  /\ up /\ ~Check
  /\ \A c \in Client : call[c].at = "idle"
  /\ \A j \in Job : worker[j].pc = "off"
  /\ UNCHANGED vars

Empty == [plans |-> {}, jobs |-> [j \in Job |-> NoJob]]

Init ==
  /\ store = Empty /\ state = Empty
  /\ failed = FALSE /\ stopped = FALSE
  /\ grants = [p \in Plan |-> "none"]
  /\ control = [j \in Job |-> NoControl]
  /\ worker = [j \in Job |-> NoWorker]
  /\ call = [c \in Client |-> Idle]
  /\ woken = {}
  /\ up = TRUE
  /\ budget = [faults |-> MaxFaults, crashes |-> MaxCrashes,
               rateLimits |-> [j \in Job |-> MaxRateLimits]]
  /\ applied = [j \in Job |-> 0]
  /\ denied = [j \in Job |-> NoDenial]
  /\ approvals = [p \in Plan |-> 0]
  /\ started = {} /\ acked = {}

Next ==
  \/ \E j \in Job : Work(j)
  \/ \E c \in Client : Invoke(c) \/ Handle(c)
  \/ \E p \in Plan : GrantExpires(p)
  \/ \E landed \in SUBSET Job : Crash(landed)
  \/ Open \/ OpenFails \/ AtRest

Spec == Init /\ [][Next]_vars

(* Tasks are polled by the runtime until they end: a worker always takes    *)
(* its next step (the provider's answers arrive, its requests time out),    *)
(* and so does a handler that was called.  Callers, owners at a prompt,     *)
(* crashes and reopening owe nothing.                                       *)
FairSpec ==
  /\ Spec
  /\ \A j \in Job : WF_vars(Work(j))
  /\ \A c \in Client : WF_vars(Handle(c))

-----------------------------------------------------------------------------
(* Properties.                                                              *)

WorkerRecord == [pc : WorkerPc, next : Nat, allowed : Nat, skipped : Nat,
                 result : Result]
ControlRecord == [mapped : BOOLEAN, spawn : Nat, cancelled : BOOLEAN,
                  finished : BOOLEAN]
CallRecord == [at : CallPc, plan : Plan \cup {None}, job : Job \cup {None},
               spawn : Nat, todo : SUBSET Job]
Denial == [batch : Nat, here : Nat, before : Nat]
Budget == [faults : Nat, crashes : Nat, rateLimits : [Job -> Nat]]

(* The variables have the shapes their comments give.                       *)
TypeOK ==
  /\ store \in Projection /\ state \in Projection
  /\ failed \in BOOLEAN /\ stopped \in BOOLEAN
  /\ grants \in [Plan -> {"none", "live"}]
  /\ control \in [Job -> ControlRecord]
  /\ worker \in [Job -> WorkerRecord]
  /\ call \in [Client -> CallRecord]
  /\ woken \in SUBSET Client
  /\ up \in BOOLEAN
  /\ budget \in Budget
  /\ applied \in [Job -> Nat] /\ denied \in [Job -> Denial]
  /\ approvals \in [Plan -> Nat]
  /\ started \in SUBSET Job /\ acked \in SUBSET Job

(* Cancellation is final.  Once a cancel call is through the mutation gate  *)
(* of a job no mutation of that job is in flight, and none begins after the *)
(* call has answered, whatever recover schedules meanwhile.                 *)
PastGate(j) == \E c \in Client : /\ call[c].at \in {"cancelArm", "cancelCheck", "cancelParked"}
                                 /\ call[c].job = j
CancelIsFinal == \A j \in Job : j \in acked \/ PastGate(j) => ~InFlight(j)

(* A mutation is in flight only for a job its owner started in this process *)
(* after approving its plan here; a recovered job never replays.            *)
NoReplay ==
  \A j \in Job : InFlight(j) => /\ j \in started
                                /\ approvals[state.jobs[j].plan] > 0

(* An approval is spent once: unused grants, starts that consumed one and   *)
(* jobs they started never outnumber the owner prompts approved.            *)
ApprovalSpentOnce ==
  \A p \in Plan :
    Cardinality({c \in Client : call[c].at = "startCommit" /\ call[c].plan = p})
      + Cardinality({j \in started : state.jobs[j].plan = p})
      + (IF grants[p] = "live" THEN 1 ELSE 0) <= approvals[p]

(* A plan is executed by one job at most, over all processes.               *)
PlanRunsOnce ==
  \A i, j \in Job :
    /\ Present(store.jobs[i]) /\ Present(store.jobs[j])
    /\ store.jobs[i].plan = store.jobs[j].plan
    => i = j

(* A confirmed deletion is one the provider made.                           *)
DeletedIsReal == \A j \in Job : store.jobs[j].deleted <= applied[j]

(* However the process or the store fails, the record is honest: before a   *)
(* mutation leaves, the file names the batch it is for; the counters add up *)
(* to the batches gone through; what the provider removed in calls it       *)
(* confirmed, left open or died in is counted as deleted or uncertain, but  *)
(* for one batch at most, and for none without a fault; what it removed and *)
(* told of as a refusal is counted as failed once the record is past its    *)
(* batch, so that a plan shown as completed had no such call; and that plan *)
(* went through all its batches.  A denied removal is the one a reader of   *)
(* the record takes for a target left alone.                                *)
Interrupted == budget.faults < MaxFaults \/ budget.crashes < MaxCrashes
Unrecorded(j) == IF worker[j].pc = "settle" /\ worker[j].result \in {"ok", "ambiguous"}
                 THEN worker[j].allowed ELSE 0
Sizes(p) == {SizeOf(p, n) : n \in 0..(Count(p) - 1)}
DeniedBefore(d, n) == d.before + IF d.batch < n THEN d.here ELSE 0
RecordIsHonest ==
  \A j \in Job : Present(store.jobs[j]) =>
    LET job == store.jobs[j] IN
      /\ InFlight(j) => job.next = worker[j].next /\ job.status \in {"Running", "Cancelled"}
      /\ job.deleted + job.skipped + job.failed + job.uncertain
           = Before(job.plan, job.next)
      /\ \E n \in {0} \cup Sizes(job.plan) : applied[j] <= job.deleted + job.uncertain + n
      /\ ~Interrupted /\ ~failed =>
           applied[j] <= job.deleted + job.uncertain + Unrecorded(j)
      /\ DeniedBefore(denied[j], job.next) <= job.failed
      /\ job.status = "Completed" =>
           /\ job.next = Count(job.plan)
           /\ denied[j].before + denied[j].here = 0
           /\ worker[j].pc \in {"off", "start", "claim", "finish", "notify", "unmap", "fail"}

(* After stop has drained the workers no mutation is in flight, though a    *)
(* start that was under way may still schedule its job.                     *)
Draining == \E c \in Client : call[c].at \in {"stopFlag", "stopDrain"}
StoppedIsQuiet == stopped /\ ~Draining => \A j \in Job : ~InFlight(j)

(* RunStart relies on it: a job that waits for a deadline has its worker.   *)
WaitingJobHasWorker ==
  \A j \in Job : up /\ ~failed /\ state.jobs[j].retry => control[j].mapped

(* Under FairSpec: a started job ends, unless publication is quarantined or *)
(* the process dies first.                                                  *)
EveryJobEnds ==
  \A j \in Job : Unfinished(state.jobs[j]) ~> (Terminal(state.jobs[j]) \/ failed \/ ~up)

(* Under FairSpec: cancel and stop return, whatever their workers do.       *)
CommandsReturn ==
  \A c \in Client :
    (call[c].at \in {"cancelSignal", "stopFlag"}) ~> (call[c].at = "idle")

(* TEST_PLAN.md, of a job that waits out a rate limit: it "stays            *)
(* cancellable".  An instance quarantined by no fault of the store refuses. *)
QueuedStaysCancellable ==
  \A j \in Job :
    state.jobs[j].status = "Queued" /\ state.jobs[j].retry /\ ~Interrupted => ~failed

=============================================================================
