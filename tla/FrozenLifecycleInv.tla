-------------------------- MODULE FrozenLifecycleInv --------------------------
(***************************************************************************)
(* The inductive invariant of FrozenLifecycle, in named parts.  TLC checks  *)
(* it on small instances; FrozenLifecycleProofs proves it for every value   *)
(* of the constants.                                                        *)
(***************************************************************************)
EXTENDS FrozenLifecycle

(* Program counters: in the batch loop; of those, with a batch in hand; on  *)
(* the way out; and the ones a mutation cannot come from.                   *)
InBatch == {"reach", "reached", "mutate", "gate", "flight", "settle"}
Loop    == InBatch \cup {"top", "post", "wait", "resume", "final"}
Leaving == {"finish", "notify", "unmap"}
Outside == {"off", "start", "claim", "fail"} \cup Leaving
Quiet   == {"off", "start", "fail"} \cup Leaving

(* A job that no worker of this process can bring back into the loop.       *)
Over(j) == Terminal(state.jobs[j]) \/ failed

(* Both copies of a job satisfy the store's validation, and what is over in *)
(* memory is over in the file.                                              *)
RecordsOk ==
  /\ \A j \in Job : /\ Valid(state.jobs[j]) /\ Valid(store.jobs[j])
                    /\ Terminal(state.jobs[j]) => Terminal(store.jobs[j])
  /\ ~up => state = store

(* A mapped control and a live worker are the same thing, of a published    *)
(* job; a finished one is on its way out.                                   *)
WorkerOk(j) ==
  /\ worker[j].pc # "off" <=> control[j].mapped
  /\ control[j].mapped => control[j].spawn > 0
  /\ control[j].spawn > 0 => Present(state.jobs[j])
  /\ control[j].finished => worker[j].pc \in {"off", "notify", "unmap"}
  /\ ~up => worker[j].pc = "off"
WorkersOk == \A j \in Job : WorkerOk(j)

(* The batch in hand exists and its counts stay within its size.            *)
BatchOk(j) ==
  /\ worker[j].pc \in InBatch => /\ worker[j].next < Count(state.jobs[j].plan)
                                 /\ worker[j].allowed + worker[j].skipped <= Size(j)
  /\ worker[j].pc = "reach" => worker[j].allowed + worker[j].skipped < Size(j)
BatchesOk == \A j \in Job : BatchOk(j)

(* A worker leaves only a job that is over, so that a second worker of the  *)
(* same job never gets past its claim.                                      *)
EndOk(j) ==
  /\ worker[j].pc = "post" /\ IsFatal(worker[j].result) => Over(j)
  /\ worker[j].pc \in Leaving => Over(j)
  /\ control[j].spawn > 0 /\ ~control[j].mapped => Over(j)
  /\ control[j].spawn > 1 => Over(j) /\ worker[j].pc \in Outside
EndsOk == \A j \in Job : EndOk(j)

(* What a command has established by the time it is at a step.              *)
AtCancel == {"cancelCommit", "cancelSignal", "cancelGate", "cancelArm",
             "cancelCheck", "cancelParked"}
CommandOk(c) ==
  LET k == call[c] IN
  /\ k.at \in {"describe", "prompt", "startCommit"} => k.plan \in Plan
  /\ k.at \in {"schedule"} \cup AtCancel => k.job \in Job
  /\ k.at \in AtCancel => 0 < k.spawn /\ k.spawn <= control[k.job].spawn
  /\ k.at \in AtCancel \ {"cancelCommit"} => Terminal(state.jobs[k.job])
  /\ k.at \in AtCancel \ {"cancelCommit", "cancelSignal"} /\ Holds(c) =>
       control[k.job].cancelled
  /\ k.at \in {"cancelArm", "cancelCheck", "cancelParked"} /\ Holds(c) =>
       ~InFlight(k.job)
CommandsOk == \A c \in Client : CommandOk(c)

(* A cancellation that was reported is durable and its worker gone.         *)
AckedOk ==
  \A j \in acked : Terminal(state.jobs[j]) /\ worker[j].pc \in Outside

(* Everything a worker can come from was authorized in this process.        *)
AuthorityOk ==
  /\ \A j \in started : Present(state.jobs[j]) /\ approvals[state.jobs[j].plan] > 0
  /\ \A j \in Job : worker[j].pc # "off" => j \in started
  /\ \A j \in Job : up /\ Unfinished(state.jobs[j]) => j \in started
  /\ \A p \in Plan : grants[p] = "live" => approvals[p] > 0
  /\ \A c \in Client : /\ call[c].todo \subseteq started
                       /\ call[c].at = "schedule" => call[c].job \in started
                       /\ call[c].at = "startCommit" => approvals[call[c].plan] > 0

(* A worker about to record a success has had it confirmed.                 *)
DeletionOk(j) ==
  /\ state.jobs[j].deleted <= applied[j]
  /\ store.jobs[j].deleted <= applied[j]
  /\ worker[j].pc = "settle" /\ worker[j].result = "ok" =>
       state.jobs[j].deleted + worker[j].allowed <= applied[j]
DeletionsOk == \A j \in Job : DeletionOk(j)

(* After the drain every worker is one that a failed check turns away.      *)
DrainOk == stopped => Draining \/ \A j \in Job : worker[j].pc \in Quiet

(* A plan has one job, in memory and in the file.                           *)
OneJobPerPlan(jobs) ==
  \A i, j \in Job :
    Present(jobs[i]) /\ Present(jobs[j]) /\ jobs[i].plan = jobs[j].plan => i = j
PlansOk == OneJobPerPlan(state.jobs) /\ OneJobPerPlan(store.jobs)

(* All of it.  The properties that matter follow from it, and every step    *)
(* of the lifecycle preserves it: none of the parts is inductive alone.     *)
IInv == /\ TypeOK /\ RecordsOk /\ WorkersOk /\ BatchesOk /\ EndsOk
        /\ CommandsOk /\ AckedOk /\ AuthorityOk /\ DeletionsOk /\ DrainOk /\ PlansOk

-----------------------------------------------------------------------------
(* What the approvals and the records account for rests on IInv and on more *)
(* parts, which need it but which it does not need.                         *)

(* Unless publication is quarantined, memory and file agree; the bounds on  *)
(* faults and crashes are only used up.                                     *)
AgreeOk  == ~failed => state = store
BudgetOk == budget.faults <= MaxFaults /\ budget.crashes <= MaxCrashes

(* What an approval of a plan was spent on can be counted.                  *)
Spending(p)  == {c \in Client : call[c].at = "startCommit" /\ call[c].plan = p}
StartedOf(p) == {j \in started : state.jobs[j].plan = p}
CountableOk == \A p \in Plan : IsFiniteSet(Spending(p)) /\ IsFiniteSet(StartedOf(p))

(* Only a worker makes its job wait, and no deadline outlives a process.    *)
DeadlinesOk ==
  \A j \in Job : /\ state.jobs[j].retry => Present(state.jobs[j])
                 /\ store.jobs[j].retry => Present(store.jobs[j])
                 /\ up /\ control[j].spawn = 0 => ~state.jobs[j].retry

(* The counters of a job add up to the batches it is past.                  *)
AddsUp(job) ==
  Present(job) =>
    job.deleted + job.skipped + job.failed + job.uncertain = Before(job.plan, job.next)
SumsOk == \A j \in Job : AddsUp(state.jobs[j]) /\ AddsUp(store.jobs[j])

(* The record stands at the batch in hand, whose targets have all been      *)
(* reached when it is mutated; the file is behind memory by a cancel alone. *)
CursorOk(j) ==
  LET w == worker[j]  job == state.jobs[j] IN
  /\ w.pc \in Loop => store.jobs[j] \in {job, Cancelled(job)}
  /\ w.pc \in Loop \ {"post"} => job.next = w.next
  /\ w.pc = "post" => job.next = w.next + 1
  /\ w.pc = "final" => job.next = Count(job.plan)
  /\ w.pc \in InBatch \cup {"top"} => job.status \in {"Running", "Cancelled"}
  /\ w.pc = "post" /\ ~IsFatal(w.result) => job.status \in {"Running", "Cancelled"}
  /\ w.pc \in {"reach", "mutate", "gate", "flight"} => w.result = "ok"
  /\ w.pc \in InBatch \ {"reach"} /\ w.result = "ok" => w.allowed + w.skipped = Size(j)
CursorsOk == \A j \in Job : CursorOk(j)

(* A worker in its loop knows of everything that was removed, and so does   *)
(* the record of a job that may still get there; of any other job at most a *)
(* batch is missing, and nothing before the first fault.                    *)
Known(job) == job.deleted + job.uncertain
Balanced(j) == applied[j] <= Known(state.jobs[j]) + Unrecorded(j)
BalanceOk(j) ==
  /\ worker[j].pc \in Loop => Balanced(j)
  /\ up /\ ~failed /\ ~Terminal(state.jobs[j]) => Balanced(j)
  /\ ~failed /\ ~Interrupted => Balanced(j)
  /\ Present(state.jobs[j]) => Present(store.jobs[j])
  /\ ~Present(store.jobs[j]) => applied[j] = 0
  /\ Present(store.jobs[j]) =>
       \E n \in {0} \cup Sizes(store.jobs[j].plan) : applied[j] <= Known(store.jobs[j]) + n
BalancesOk == \A j \in Job : BalanceOk(j)

(* A job shown as completed went through its plan and is out of its loop.   *)
CompletedOk ==
  \A j \in Job : store.jobs[j].status = "Completed" =>
                   /\ store.jobs[j].next = Count(store.jobs[j].plan)
                   /\ worker[j].pc \in Outside

(* A removal told as a refusal is of a batch the record has got to, fits in *)
(* it, and is counted as failed by a record that is past it.                *)
Accounts(job, d) ==
  /\ d.batch <= job.next
  /\ d.here > 0 => /\ d.batch < Count(job.plan)
                   /\ d.here <= SizeOf(job.plan, d.batch)
  /\ DeniedBefore(d, job.next) <= job.failed

(* Until the record is past it, a batch that lost targets so is reached     *)
(* again at most, never mutated, and is settled as a failure.               *)
DenialOk(j) ==
  LET w == worker[j]  g == Gone(j) IN
  /\ Accounts(state.jobs[j], denied[j]) /\ Accounts(store.jobs[j], denied[j])
  /\ ~Present(store.jobs[j]) => denied[j] = NoDenial
  /\ w.pc \in {"reach", "reached"} => w.allowed + w.skipped + g <= Size(j)
  /\ w.pc = "reached" => w.result # "ambiguous"
  /\ w.pc \in {"mutate", "gate", "flight"} => g = 0
  /\ w.pc = "settle" => /\ w.skipped + g <= Size(j)
                        /\ g > 0 => w.result \notin {"ok", "ambiguous"}
DenialsOk == \A j \in Job : DenialOk(j)

LedgerInv ==
  /\ IInv /\ AgreeOk /\ BudgetOk /\ CountableOk /\ ApprovalSpentOnce
  /\ DeadlinesOk /\ SumsOk /\ CursorsOk /\ BalancesOk /\ CompletedOk /\ DenialsOk
=============================================================================
