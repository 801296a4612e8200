------------------------ MODULE FrozenLifecycleProofs ------------------------
(***************************************************************************)
(* Proofs, for every value of the constants, that the parts of IInv are     *)
(* inductive, and of the theorems that follow from them; then, with the     *)
(* further parts of LedgerInv, that approvals are spent once, that a job    *)
(* that waits has its worker, and that the record of a job is honest about  *)
(* what was removed, whatever fails.                                        *)
(***************************************************************************)
EXTENDS FrozenLifecycleInv, FiniteSetTheorems, TLAPS

-----------------------------------------------------------------------------
(* Data: batches, job records, publication.                                 *)

(* Every batch a plan freezes has a positive number of targets, and ends    *)
(* before the plan does.                                                    *)
LEMMA BatchFacts ==
  ASSUME NEW p \in Plan, NEW n \in Nat, n < Count(p)
  PROVE  /\ Count(p) \in Nat
         /\ Before(p, n) \in Nat /\ Before(p, n + 1) \in Nat
         /\ SizeOf(p, n) \in Nat /\ SizeOf(p, n) > 0
         /\ Before(p, n + 1) <= Total(p)
<1> DEFINE ends == Ends[p]
           len == Len(ends)
<1>1. /\ ends \in Seq(Nat \ {0})
      /\ \A a, b \in 1..len : a < b => ends[a] < ends[b]
  BY EndsAssumption
<1>2. len \in Nat /\ \A a \in 1..len : ends[a] \in Nat \ {0}
  BY <1>1
<1>3. Count(p) = len
  BY DEF Count
<1> HIDE DEF ends, len
<1>4. n + 1 \in 1..len /\ (n # 0 => n \in 1..len) /\ len \in 1..len /\ (n + 1 = len \/ n + 1 < len)
  BY <1>2, <1>3
<1>5. Before(p, n) = (IF n = 0 THEN 0 ELSE ends[n]) /\ Before(p, n + 1) = ends[n + 1] /\ Total(p) = ends[len]
  BY <1>2, <1>3, <1>4 DEF Before, Total, ends, Count
<1>6. /\ Before(p, n) \in Nat /\ Before(p, n + 1) \in Nat /\ Before(p, n) < Before(p, n + 1)
      /\ Before(p, n + 1) <= Total(p)
  <2>1. ends[n + 1] \in Nat /\ ends[n + 1] > 0 /\ ends[len] \in Nat
    BY <1>2, <1>4
  <2>2. n # 0 => ends[n] \in Nat /\ ends[n] < ends[n + 1]
    BY <1>1, <1>2, <1>4
  <2>3. n + 1 < len => ends[n + 1] < ends[len]
    BY <1>1, <1>4
  <2> QED BY <2>1, <2>2, <2>3, <1>4, <1>5
<1> QED BY <1>2, <1>3, <1>6 DEF SizeOf

(* Every edit of a job record that is published is a job record.            *)
LEMMA JobForms ==
  ASSUME NEW job \in JobRecord
  PROVE  /\ [job EXCEPT !.status = "Running"] \in JobRecord
         /\ [job EXCEPT !.status = "Running", !.retry = FALSE] \in JobRecord
         /\ [job EXCEPT !.status = "Queued", !.retry = TRUE] \in JobRecord
         /\ Cancelled(job) \in JobRecord
         /\ Stopped(job) \in JobRecord
         /\ Closed(job) \in JobRecord
         /\ \A s \in {"Partial", "Completed"} :
              [job EXCEPT !.status = s, !.retry = FALSE] \in JobRecord
BY DEF JobRecord, JobStatus, TerminalStatus, Cancelled, Stopped, Closed

(* A new job is a job record.                                               *)
LEMMA NewJobForm ==
  ASSUME NEW p \in Plan
  PROVE  NewJob(p) \in JobRecord
BY DEF JobRecord, JobStatus, TerminalStatus, NewJob, NoJob

(* So is what the worker records of a batch it has settled.                 *)
LEMMA ProgressedForm ==
  ASSUME TypeOK, RecordsOk, WorkersOk, BatchesOk, NEW j \in Job, worker[j].pc = "settle"
  PROVE  Progressed(j) \in JobRecord
<1> DEFINE w == worker[j]
           job == state.jobs[j]
           failures == IF w.result \in {"soft", "fatal"} THEN Affected(j) ELSE 0
           unknown == IF w.result = "ambiguous" THEN Affected(j) ELSE 0
           counted == [job EXCEPT !.next = Cursor(j), !.skipped = @ + w.skipped,
                                  !.deleted = @ + DeletedNow(j),
                                  !.failed = @ + failures,
                                  !.uncertain = @ + unknown, !.retry = FALSE]
<1>1. w \in WorkerRecord /\ job \in JobRecord
  BY DEF TypeOK, Projection
<1>2. w.next \in Nat /\ w.allowed \in Nat /\ w.skipped \in Nat
  BY <1>1 DEF WorkerRecord
<1>3. job.plan \in Plan
  BY DEF WorkersOk, WorkerOk, RecordsOk, Valid, TypeOK, ControlRecord
<1>4. Size(j) \in Nat /\ w.skipped <= Size(j)
  BY <1>2, <1>3, BatchFacts DEF BatchesOk, BatchOk, InBatch, Size
<1>5. Affected(j) \in Nat /\ Cursor(j) \in Nat /\ DeletedNow(j) \in Nat
  BY <1>2, <1>4 DEF Affected, Cursor, DeletedNow
<1>6. /\ failures \in Nat /\ unknown \in Nat /\ Cursor(j) \in Nat
      /\ job.skipped + w.skipped \in Nat /\ job.deleted + DeletedNow(j) \in Nat
      /\ job.failed + failures \in Nat /\ job.uncertain + unknown \in Nat
  <2>1. failures \in Nat /\ unknown \in Nat
    BY <1>5
  <2>2. /\ job.skipped \in Nat /\ job.deleted \in Nat /\ job.failed \in Nat /\ job.uncertain \in Nat
    BY <1>1 DEF JobRecord
  <2> HIDE DEF failures, unknown, w, job
  <2> QED BY <2>1, <2>2, <1>2, <1>5
<1>7. counted \in JobRecord
  <2> HIDE DEF failures, unknown, w, job
  <2> QED BY <1>1, <1>6 DEF JobRecord
<1>8. Progressed(j) = IF IsFatal(w.result) /\ job.status # "Cancelled" THEN Stopped(counted) ELSE counted
  BY DEF Progressed
<1> HIDE DEF counted
<1> QED BY <1>7, <1>8, JobForms

(* A transition that is typed leaves the variables it may write typed.      *)
LEMMA PublishTyped ==
  ASSUME TypeOK, NEW new \in Projection, NEW ok \in BOOLEAN, Publish(new, ok)
  PROVE  /\ state' \in Projection /\ store' \in Projection
         /\ failed' \in BOOLEAN /\ budget' \in Budget
<1>1. state' \in Projection /\ store' \in Projection /\ failed' \in BOOLEAN
  BY DEF TypeOK, Publish
<1>2. CASE UNCHANGED budget
  BY <1>1, <1>2 DEF TypeOK
<1>3. CASE budget.faults > 0 /\ budget' = [budget EXCEPT !.faults = @ - 1]
  <2>1. budget.faults \in Nat
    BY DEF TypeOK, Budget
  <2>2. budget.faults - 1 \in Nat
    BY <2>1, <1>3
  <2> QED BY <1>1, <1>3, <2>2 DEF TypeOK, Budget
<1> QED BY <1>2, <1>3 DEF Publish

(* What a transition may do, whatever it publishes: a success replaces both *)
(* copies, a failure quarantines and may have replaced the file alone.      *)
LEMMA PublishEffect ==
  ASSUME TypeOK, NEW new \in Projection, NEW ok \in BOOLEAN, Publish(new, ok)
  PROVE  /\ state' = IF ok THEN new ELSE state
         /\ store' \in {store, new}
         /\ ok => store' = new /\ ~failed /\ ~failed'
         /\ ~ok => failed'
         /\ ok \/ store' # store => Publishable(new)
BY DEF TypeOK, Publish

(* A transition of one job.                                                 *)
LEMMA WithJobForm ==
  ASSUME TypeOK, NEW j \in Job, NEW job \in JobRecord
  PROVE  /\ WithJob(j, job) \in Projection
         /\ WithJob(j, job).plans = state.plans
         /\ \A i \in Job : WithJob(j, job).jobs[i] = IF i = j THEN job ELSE state.jobs[i]
BY DEF TypeOK, Projection, WithJob

(* JobStep(j, job, ok): the two copies of every job after a transition that *)
(* wants to set job j to `job`.                                             *)
JobStep(j, job, ok) ==
  /\ ok => ~failed /\ ~failed'
  /\ ~ok => failed'
  /\ ok => state'.jobs[j] = job /\ store'.jobs[j] = job
  /\ ~ok => state'.jobs[j] = state.jobs[j]
  /\ ~ok => store'.jobs[j] \in {store.jobs[j], job}
  /\ \A i \in Job \ {j} : state'.jobs[i] = state.jobs[i] /\ store'.jobs[i] = store.jobs[i]
  /\ ok \/ store'.jobs[j] # store.jobs[j] =>
       Follows(state.jobs[j], job) /\ Valid(job) /\ store = state

(* A transition of one job leaves all copies of jobs as JobStep says.       *)
LEMMA PublishJobStep ==
  ASSUME TypeOK, NEW j \in Job, NEW job \in JobRecord, NEW ok \in BOOLEAN,
         Publish(WithJob(j, job), ok)
  PROVE  /\ state' \in Projection /\ store' \in Projection
         /\ failed' \in BOOLEAN /\ budget' \in Budget
         /\ JobStep(j, job, ok)
<1> DEFINE new == WithJob(j, job)
<1>1. /\ new \in Projection
      /\ \A i \in Job : new.jobs[i] = IF i = j THEN job ELSE state.jobs[i]
  BY WithJobForm
<1>2. /\ state' = IF ok THEN new ELSE state
      /\ store' \in {store, new}
      /\ ok => store' = new /\ ~failed /\ ~failed'
      /\ ~ok => failed'
      /\ ok \/ store' # store => Publishable(new)
  BY <1>1, PublishEffect
<1>3. ok \/ store' # store => store = state /\ Follows(state.jobs[j], job) /\ Valid(job)
  BY <1>1, <1>2 DEF Publishable
<1>4. JobStep(j, job, ok)
  <2> HIDE DEF new
  <2> QED BY <1>1, <1>2, <1>3 DEF JobStep
<1> QED BY <1>1, <1>4, PublishTyped

(* The copies of every job stay valid, and the file stays ahead of memory,  *)
(* across any transition.                                                   *)
LEMMA PublishRecords ==
  ASSUME TypeOK, RecordsOk, NEW new \in Projection, NEW ok \in BOOLEAN,
         Publish(new, ok), up, up' = up
  PROVE  RecordsOk'
<1>1. /\ state' = IF ok THEN new ELSE state
      /\ store' \in {store, new}
      /\ ok => store' = new
      /\ ok \/ store' # store => Publishable(new)
  BY PublishEffect
<1>2. ASSUME NEW j \in Job
      PROVE  /\ Valid(state'.jobs[j]) /\ Valid(store'.jobs[j])
             /\ Terminal(state'.jobs[j]) => Terminal(store'.jobs[j])
  <2>1. CASE store' = new
    <3>1. CASE new = store /\ ~ok
      BY <1>1, <2>1, <3>1 DEF RecordsOk
    <3>2. CASE ~(new = store /\ ~ok)
      <4>1. Follows(state.jobs[j], new.jobs[j]) /\ Valid(new.jobs[j])
        BY <1>1, <2>1, <3>2 DEF Publishable
      <4>2. Terminal(state.jobs[j]) => Terminal(new.jobs[j])
        BY <4>1 DEF Follows, Present, Terminal, TerminalStatus
      <4> QED BY <1>1, <2>1, <4>1, <4>2 DEF RecordsOk
    <3> QED BY <3>1, <3>2
  <2>2. CASE store' = store /\ ~ok
    BY <1>1, <2>2 DEF RecordsOk
  <2> QED BY <1>1, <2>1, <2>2
<1> QED BY <1>2 DEF RecordsOk, Valid, Terminal, Present

-----------------------------------------------------------------------------
(* Type correctness, action by action.                                      *)

(* Moving the program counter of a worker keeps the type of workers.        *)
LEMMA GotoTyped ==
  ASSUME TypeOK, NEW j \in Job, NEW pc \in WorkerPc, Goto(j, pc)
  PROVE  worker' \in [Job -> WorkerRecord]
<1>1. worker[j] \in WorkerRecord
  BY DEF TypeOK
<1>2. [worker[j] EXCEPT !.pc = pc] \in WorkerRecord
  BY <1>1 DEF WorkerRecord
<1> QED BY <1>2 DEF TypeOK, Goto

(* Moving a command on keeps the type of commands.                          *)
LEMMA StepTyped ==
  ASSUME TypeOK, NEW c \in Client, NEW at \in CallPc, Step(c, at)
  PROVE  call' \in [Client -> CallRecord]
<1>1. call[c] \in CallRecord
  BY DEF TypeOK
<1>2. [call[c] EXCEPT !.at = at] \in CallRecord
  BY <1>1 DEF CallRecord
<1> QED BY <1>2 DEF TypeOK, Step

(* A handler that is not called is a command record.                        *)
LEMMA IdleTyped == Idle \in CallRecord
BY DEF Idle, CallRecord, CallPc

(* Returning keeps the type of commands.                                    *)
LEMMA ReturnTyped ==
  ASSUME TypeOK, NEW c \in Client, Return(c)
  PROVE  call' \in [Client -> CallRecord]
BY IdleTyped DEF TypeOK, Return

(* The command a call begins with is what it was given.                     *)
LEMMA BeginEffect ==
  ASSUME TypeOK, NEW c \in Client, NEW r, Begin(c, r)
  PROVE  call'[c] = r
BY DEF TypeOK, Begin

(* So does a command that begins with a record of its own.                  *)
LEMMA BeginTyped ==
  ASSUME TypeOK, NEW c \in Client, NEW r \in CallRecord, Begin(c, r)
  PROVE  call' \in [Client -> CallRecord]
BY DEF TypeOK, Begin

(* A scheduled worker and its control have their types.                     *)
LEMMA SpawnTyped ==
  ASSUME TypeOK, NEW j \in Job, Spawn(j)
  PROVE  control' \in [Job -> ControlRecord] /\ worker' \in [Job -> WorkerRecord]
<1>1. [NoWorker EXCEPT !.pc = "start"] \in WorkerRecord
  BY DEF NoWorker, WorkerRecord, WorkerPc, Result
<1>2. control[j].spawn + 1 \in Nat
  BY DEF TypeOK, ControlRecord
<1>3. [mapped |-> TRUE, spawn |-> control[j].spawn + 1,
       cancelled |-> FALSE, finished |-> FALSE] \in ControlRecord
  BY <1>2 DEF ControlRecord
<1> QED BY <1>1, <1>3 DEF TypeOK, Spawn

(* A transition made by a worker keeps the types of what it touches.        *)
LEMMA PublishJobTyped ==
  ASSUME TypeOK, NEW j \in Job, NEW job \in JobRecord,
         NEW then \in WorkerPc, NEW else \in WorkerPc, PublishJob(j, job, then, else),
         UNCHANGED <<control, woken, applied, denied>>, WorkerFrame
  PROVE  TypeOK'
<1>1. PICK ok \in BOOLEAN : /\ Publish(WithJob(j, job), ok)
                            /\ Goto(j, IF ok THEN then ELSE else)
  BY DEF PublishJob, Goto
<1>2. /\ state' \in Projection /\ store' \in Projection
      /\ failed' \in BOOLEAN /\ budget' \in Budget
  BY <1>1, PublishJobStep
<1>3. worker' \in [Job -> WorkerRecord]
  BY <1>1, GotoTyped
<1> QED BY <1>2, <1>3 DEF TypeOK, WorkerFrame, observers

(* Every step of a worker.                                                  *)
LEMMA WorkTyped ==
  ASSUME TypeOK, RecordsOk, WorkersOk, BatchesOk, NEW j \in Job, Work(j)
  PROVE  TypeOK'
<1>0. worker[j] \in WorkerRecord /\ state.jobs[j] \in JobRecord
  BY DEF TypeOK, Projection
<1>1. CASE RunStart(j)
  <2>1. worker' \in [Job -> WorkerRecord]
    BY <1>1, GotoTyped DEF RunStart, WorkerPc
  <2> QED BY <1>1, <2>1 DEF RunStart, TypeOK, WorkerFrame, observers
<1>2. CASE NextBatch(j)
  <2>1. [worker EXCEPT ![j].pc = "reach", ![j].allowed = 0, ![j].skipped = 0,
                      ![j].result = "ok"] \in [Job -> WorkerRecord]
    BY <1>0 DEF TypeOK, WorkerRecord, WorkerPc, Result
  <2>2. worker' \in [Job -> WorkerRecord]
    BY <1>2, <2>1, GotoTyped DEF NextBatch, WorkerPc
  <2> QED BY <1>2, <2>2 DEF NextBatch, TypeOK, WorkerFrame, observers
<1>3. ASSUME NEW answer \in {"yes", "no", "rate", "soft", "fatal"}, Reach(j, answer)
      PROVE  TypeOK'
  <2>1. PICK w \in WorkerRecord : worker' = [worker EXCEPT ![j] = w]
    <3>1. /\ worker[j].allowed + 1 \in Nat /\ worker[j].skipped + 1 \in Nat
          /\ CheckError \in Result
          /\ \A pc \in {"reach", "reached"} : pc \in WorkerPc
      BY <1>0 DEF WorkerRecord, CheckError, Result, WorkerPc
    <3>2. \A r \in Result : [worker[j] EXCEPT !.pc = "reached", !.result = r] \in WorkerRecord
      BY <1>0, <3>1 DEF WorkerRecord
    <3>3. \A pc \in {"reach", "reached"} :
            /\ [worker[j] EXCEPT !.pc = pc, !.allowed = @ + 1] \in WorkerRecord
            /\ [worker[j] EXCEPT !.pc = pc, !.skipped = @ + 1] \in WorkerRecord
      BY <1>0, <3>1 DEF WorkerRecord
    <3>4. answer \in Result \/ answer \in {"yes", "no"}
      BY DEF Result
    <3> QED BY <1>3, <3>1, <3>2, <3>3, <3>4 DEF Reach
  <2>2. budget' \in Budget
    <3>1. CASE answer = "rate"
      <4>1. budget.rateLimits[j] - 1 \in Nat
        BY <1>3, <3>1 DEF TypeOK, Budget, Reach
      <4> QED BY <1>3, <3>1, <4>1 DEF TypeOK, Budget, Reach
    <3> QED BY <1>3, <3>1 DEF TypeOK, Reach
  <2>3. worker' \in [Job -> WorkerRecord]
    BY <2>1 DEF TypeOK
  <2> QED BY <1>3, <2>2, <2>3 DEF Reach, TypeOK, WorkerFrame, observers
<1>4. CASE Reached(j)
  <2>1. worker' \in [Job -> WorkerRecord]
    BY <1>4, GotoTyped DEF Reached, WorkerPc
  <2> QED BY <1>4, <2>1 DEF Reached, TypeOK, WorkerFrame, observers
<1>5. CASE MutateCheck(j)
  <2>1. /\ (IF Check THEN "gate" ELSE "settle") \in WorkerPc
        /\ (IF Check THEN worker[j].result ELSE CheckError) \in Result
    BY <1>0 DEF WorkerRecord, WorkerPc, Result, CheckError
  <2>2. worker' \in [Job -> WorkerRecord]
    BY <1>0, <1>5, <2>1 DEF MutateCheck, TypeOK, WorkerRecord
  <2> QED BY <1>5, <2>2 DEF MutateCheck, TypeOK, WorkerFrame, observers
<1>6. CASE EnterGate(j)
  <2>1. /\ (IF GateOpen(j) THEN "flight" ELSE "settle") \in WorkerPc
        /\ (IF GateOpen(j) THEN worker[j].result ELSE "fatal") \in Result
    BY <1>0 DEF WorkerRecord, WorkerPc, Result, CheckError
  <2>2. worker' \in [Job -> WorkerRecord]
    BY <1>0, <1>6, <2>1 DEF EnterGate, TypeOK, WorkerRecord
  <2> QED BY <1>6, <2>2 DEF EnterGate, TypeOK, WorkerFrame, observers
<1>7. ASSUME NEW answer \in Result, NEW removed \in BOOLEAN, Answer(j, answer, removed)
      PROVE  TypeOK'
  <2>1. "settle" \in WorkerPc /\ Believed(answer) \in Result
    BY DEF WorkerPc, Result, Believed
  <2>2. worker' \in [Job -> WorkerRecord]
    BY <1>0, <1>7, <2>1 DEF Answer, TypeOK, WorkerRecord
  <2>3. applied' \in [Job -> Nat] /\ denied' \in [Job -> Denial]
    <3>1. /\ applied[j] + (IF removed THEN worker[j].allowed ELSE 0) \in Nat
          /\ Denied(j) \in Denial
      BY <1>0 DEF TypeOK, WorkerRecord, Denial, Denied
    <3> QED BY <1>7, <3>1 DEF Answer, TypeOK
  <2>4. budget' \in Budget
    <3>1. CASE answer = "rate"
      <4>1. budget.rateLimits[j] - 1 \in Nat
        BY <1>7, <3>1 DEF TypeOK, Budget, Answer
      <4> QED BY <1>7, <3>1, <4>1 DEF TypeOK, Budget, Answer
    <3> QED BY <1>7, <3>1 DEF TypeOK, Answer
  <2> QED BY <1>7, <2>2, <2>3, <2>4 DEF Answer, TypeOK, WorkerFrame, observers
<1>8. CASE SeeCancelled(j)
  BY <1>0, <1>8, JobForms, PublishJobTyped DEF SeeCancelled, WorkerPc
<1>9. CASE WaitForRetry(j)
  BY <1>0, <1>9, JobForms, PublishJobTyped DEF WaitForRetry, WorkerPc
<1>10. CASE Progress(j)
  <2>1. Progressed(j) \in JobRecord
    BY <1>10, ProgressedForm DEF Progress, At
  <2> QED BY <1>10, <2>1, PublishJobTyped DEF Progress, WorkerPc
<1>11. CASE AfterBatch(j)
  <2>1. "finish" \in WorkerPc /\ "top" \in WorkerPc /\ worker[j].next + 1 \in Nat
    BY <1>0 DEF WorkerPc, WorkerRecord
  <2>2. worker' \in [Job -> WorkerRecord]
    BY <1>0, <1>11, <2>1 DEF AfterBatch, TypeOK, WorkerRecord
  <2> QED BY <1>11, <2>2 DEF AfterBatch, TypeOK, WorkerFrame, observers
<1>12. CASE WaitOver(j)
  <2>1. worker' \in [Job -> WorkerRecord]
    BY <1>12, GotoTyped DEF WaitOver, WorkerPc
  <2> QED BY <1>12, <2>1 DEF WaitOver, TypeOK, WorkerFrame, observers
<1>13. CASE Resume(j)
  BY <1>0, <1>13, JobForms, PublishJobTyped DEF Resume, WorkerPc
<1>14. CASE Finalize(j)
  BY <1>0, <1>14, JobForms, PublishJobTyped DEF Finalize, WorkerPc
<1>15. CASE RunFailed(j)
  BY <1>0, <1>15, JobForms, PublishJobTyped DEF RunFailed, WorkerPc, IfUnpublished
<1>16. CASE RunClaim(j)
  <2> DEFINE job == [state.jobs[j] EXCEPT !.status = "Running"]
  <2>1. PICK ok \in BOOLEAN :
          /\ Publish(WithJob(j, job), ok)
          /\ worker' = [worker EXCEPT ![j].pc = IF ok THEN "top" ELSE "fail",
                                     ![j].next = FirstBatch(j)]
    BY <1>16 DEF RunClaim
  <2>2. /\ state' \in Projection /\ store' \in Projection
        /\ failed' \in BOOLEAN /\ budget' \in Budget
    BY <1>0, <2>1, JobForms, PublishJobStep
  <2>3. (IF ok THEN "top" ELSE "fail") \in WorkerPc /\ FirstBatch(j) \in Nat
    BY <1>0 DEF WorkerPc, FirstBatch, JobRecord
  <2>4. worker' \in [Job -> WorkerRecord]
    BY <1>0, <2>1, <2>3 DEF TypeOK, WorkerRecord
  <2> QED BY <1>16, <2>2, <2>4 DEF RunClaim, TypeOK, WorkerFrame, observers
<1>17. CASE Finish(j)
  <2>1. control' \in [Job -> ControlRecord]
    BY <1>17 DEF Finish, TypeOK, ControlRecord
  <2>2. worker' \in [Job -> WorkerRecord]
    BY <1>17, GotoTyped DEF Finish, WorkerPc
  <2> QED BY <1>17, <2>1, <2>2 DEF Finish, TypeOK, WorkerFrame, observers
<1>18. CASE NotifyWaiters(j)
  <2>1. worker' \in [Job -> WorkerRecord]
    BY <1>18, GotoTyped DEF NotifyWaiters, WorkerPc
  <2> QED BY <1>18, <2>1 DEF NotifyWaiters, TypeOK, WorkerFrame, observers
<1>19. CASE Unmap(j)
  <2>1. control' \in [Job -> ControlRecord]
    BY <1>19 DEF Unmap, Unmapped, TypeOK, ControlRecord
  <2>2. worker' \in [Job -> WorkerRecord]
    BY <1>19 DEF Unmap, TypeOK, NoWorker, WorkerRecord, WorkerPc, Result
  <2> QED BY <1>19, <2>1, <2>2 DEF Unmap, TypeOK, WorkerFrame, observers
<1> QED
  BY <1>1, <1>2, <1>3, <1>4, <1>5, <1>6, <1>7, <1>8, <1>9, <1>10, <1>11, <1>12, <1>13, <1>14, <1>15, <1>16, <1>17, <1>18, <1>19 DEF Work

(* Every step of a command handler.                                         *)
LEMMA HandleTyped ==
  ASSUME TypeOK, RecordsOk, CommandsOk, NEW c \in Client, Handle(c)
  PROVE  TypeOK'
<1>0. call[c] \in CallRecord
  BY DEF TypeOK
<1>1. CASE PrepareCommit(c)
  <2>1. call' \in [Client -> CallRecord]
    BY <1>1, ReturnTyped DEF PrepareCommit
  <2>2. /\ state' \in Projection /\ store' \in Projection
        /\ failed' \in BOOLEAN /\ budget' \in Budget
    <3>1. call[c].plan \in Plan
      BY <1>1 DEF PrepareCommit, Calling, CommandsOk, CommandOk
    <3>2. [state EXCEPT !.plans = @ \cup {call[c].plan}] \in Projection
      BY <3>1 DEF TypeOK, Projection
    <3>3. CASE Check
      BY <1>1, <3>2, <3>3, PublishTyped DEF PrepareCommit
    <3>4. CASE ~Check
      BY <1>1, <3>4 DEF PrepareCommit, TypeOK
    <3> QED BY <3>3, <3>4
  <2> QED BY <1>1, <2>1, <2>2 DEF PrepareCommit, TypeOK, CallFrame, observers, lifecycleVars
<1>2. ASSUME NEW j \in Job, StartCommit(c, j)
      PROVE  TypeOK'
  <2>1. /\ state' \in Projection /\ store' \in Projection
        /\ failed' \in BOOLEAN /\ budget' \in Budget
    <3>1. NewJob(call[c].plan) \in JobRecord
      BY <1>2, NewJobForm DEF StartCommit, Calling, CommandsOk, CommandOk
    <3> QED BY <1>2, <3>1, PublishJobStep DEF StartCommit
  <2>2. call' \in [Client -> CallRecord]
    <3>1. [Idle EXCEPT !.at = "schedule", !.job = j] \in CallRecord
      BY IdleTyped DEF CallRecord, CallPc
    <3> QED BY <1>2, <3>1, BeginTyped, ReturnTyped DEF StartCommit
  <2>3. started' \in SUBSET Job
    BY <1>2 DEF StartCommit, TypeOK
  <2> QED BY <1>2, <2>1, <2>2, <2>3 DEF StartCommit, TypeOK, CallFrame, observers, lifecycleVars
<1>3. CASE StartRefused(c)
  <2>1. call' \in [Client -> CallRecord]
    BY <1>3, ReturnTyped DEF StartRefused
  <2> QED BY <1>3, <2>1 DEF StartRefused, TypeOK, CallFrame, observers, lifecycleVars
<1>4. CASE StartSchedule(c)
  <2>1. call' \in [Client -> CallRecord]
    BY <1>4, ReturnTyped DEF StartSchedule
  <2>2. call[c].job \in Job
    BY <1>4 DEF StartSchedule, Calling, CommandsOk, CommandOk
  <2>3. control' \in [Job -> ControlRecord] /\ worker' \in [Job -> WorkerRecord]
    BY <1>4, <2>2, SpawnTyped DEF StartSchedule
  <2> QED BY <1>4, <2>1, <2>3 DEF StartSchedule, TypeOK, CallFrame, observers, lifecycleVars
<1>5. ASSUME NEW j \in Job, RecoverSchedule(c, j)
      PROVE  TypeOK'
  <2>1. call' \in [Client -> CallRecord]
    BY <1>0, <1>5 DEF RecoverSchedule, TypeOK, CallRecord
  <2>2. control' \in [Job -> ControlRecord] /\ worker' \in [Job -> WorkerRecord]
    BY <1>5, SpawnTyped DEF RecoverSchedule
  <2> QED BY <1>5, <2>1, <2>2 DEF RecoverSchedule, TypeOK, CallFrame, observers, lifecycleVars
<1>6. CASE RecoverReturn(c)
  <2>1. call' \in [Client -> CallRecord]
    BY <1>6, ReturnTyped DEF RecoverReturn
  <2> QED BY <1>6, <2>1 DEF RecoverReturn, TypeOK, CallFrame, observers, lifecycleVars
<1>7. CASE CancelCommit(c)
  <2>1. call' \in [Client -> CallRecord]
    BY <1>7, ReturnTyped, StepTyped DEF CancelCommit, CallPc
  <2>2. /\ state' \in Projection /\ store' \in Projection
        /\ failed' \in BOOLEAN /\ budget' \in Budget
    <3>1. call[c].job \in Job
      BY <1>7 DEF CancelCommit, Calling, CommandsOk, CommandOk, AtCancel
    <3>2. Cancelled(state.jobs[call[c].job]) \in JobRecord
      BY <3>1, JobForms DEF TypeOK, Projection
    <3> QED BY <1>7, <3>1, <3>2, PublishJobStep DEF CancelCommit
  <2> QED BY <1>7, <2>1, <2>2 DEF CancelCommit, TypeOK, CallFrame, observers, lifecycleVars
<1>8. CASE CancelSignal(c)
  <2>1. call' \in [Client -> CallRecord]
    BY <1>8, StepTyped DEF CancelSignal, CallPc
  <2>2. control' \in [Job -> ControlRecord]
    BY <1>8 DEF CancelSignal, TypeOK, ControlRecord
  <2> QED BY <1>8, <2>1, <2>2 DEF CancelSignal, TypeOK, CallFrame, observers, lifecycleVars
<1>9. CASE CancelGate(c)
  <2>1. call' \in [Client -> CallRecord]
    BY <1>9, StepTyped DEF CancelGate, CallPc
  <2> QED BY <1>9, <2>1 DEF CancelGate, TypeOK, CallFrame, observers, lifecycleVars
<1>10. CASE CancelArm(c)
  <2>1. call' \in [Client -> CallRecord]
    BY <1>10, StepTyped DEF CancelArm, CallPc
  <2> QED BY <1>10, <2>1 DEF CancelArm, TypeOK, CallFrame, observers, lifecycleVars
<1>11. CASE CancelCheck(c)
  <2>1. call' \in [Client -> CallRecord]
    BY <1>11, StepTyped, ReturnTyped DEF CancelCheck, CallPc
  <2>2. acked' \in SUBSET Job
    BY <1>11 DEF CancelCheck, Calling, CommandsOk, CommandOk, AtCancel, TypeOK
  <2> QED BY <1>11, <2>1, <2>2 DEF CancelCheck, TypeOK, CallFrame, observers, lifecycleVars
<1>12. CASE CancelWake(c)
  <2>1. call' \in [Client -> CallRecord]
    BY <1>12, StepTyped DEF CancelWake, CallPc
  <2> QED BY <1>12, <2>1 DEF CancelWake, TypeOK, CallFrame, observers, lifecycleVars
<1>13. CASE StopFlag(c)
  <2>1. call' \in [Client -> CallRecord]
    BY <1>13, StepTyped DEF StopFlag, CallPc
  <2>2. control' \in [Job -> ControlRecord]
    BY <1>13 DEF StopFlag, TypeOK, ControlRecord
  <2> QED BY <1>13, <2>1, <2>2 DEF StopFlag, TypeOK, CallFrame, observers, lifecycleVars
<1>14. CASE StopDrained(c)
  <2>1. call' \in [Client -> CallRecord]
    BY <1>14, StepTyped DEF StopDrained, CallPc
  <2> QED BY <1>14, <2>1 DEF StopDrained, TypeOK, CallFrame, observers, lifecycleVars
<1>15. CASE StopPolls(c)
  BY <1>15 DEF StopPolls, TypeOK, vars
<1>16. CASE StopClear(c)
  <2>1. call' \in [Client -> CallRecord]
    BY <1>16, ReturnTyped DEF StopClear
  <2> QED BY <1>16, <2>1 DEF StopClear, TypeOK, CallFrame, observers, lifecycleVars
<1> QED
  BY <1>1, <1>2, <1>3, <1>4, <1>5, <1>6, <1>7, <1>8, <1>9, <1>10, <1>11, <1>12, <1>13, <1>14, <1>15, <1>16 DEF Handle

(* Every call, and the steps that need the owner or the provider.           *)
LEMMA InvokeTyped ==
  ASSUME TypeOK, CommandsOk, NEW c \in Client, Invoke(c)
  PROVE  TypeOK'
<1>1. ASSUME NEW p \in Plan, PrepareCall(c, p)
      PROVE  TypeOK'
  <2>1. [Idle EXCEPT !.at = "describe", !.plan = p] \in CallRecord
    BY DEF Idle, CallRecord, CallPc
  <2>2. call' \in [Client -> CallRecord]
    BY <1>1, <2>1, BeginTyped DEF PrepareCall, TypeOK
  <2> QED BY <1>1, <2>2 DEF PrepareCall, TypeOK, CallFrame, observers, lifecycleVars
<1>2. ASSUME NEW p \in Plan, AuthorizeCall(c, p)
      PROVE  TypeOK'
  <2>1. [Idle EXCEPT !.at = "prompt", !.plan = p] \in CallRecord
    BY DEF Idle, CallRecord, CallPc
  <2>2. call' \in [Client -> CallRecord]
    BY <1>2, <2>1, BeginTyped DEF AuthorizeCall, TypeOK
  <2> QED BY <1>2, <2>2 DEF AuthorizeCall, TypeOK, CallFrame, observers, lifecycleVars
<1>3. ASSUME NEW p \in Plan, StartConsume(c, p)
      PROVE  TypeOK'
  <2>1. [Idle EXCEPT !.at = "startCommit", !.plan = p] \in CallRecord
    BY DEF Idle, CallRecord, CallPc
  <2>2. call' \in [Client -> CallRecord]
    BY <1>3, <2>1, BeginTyped DEF StartConsume, TypeOK
  <2> QED BY <1>3, <2>2 DEF StartConsume, TypeOK, CallFrame, observers, lifecycleVars, Consumed
<1>4. CASE PromptApproved(c)
  <2>1. call' \in [Client -> CallRecord]
    BY <1>4, ReturnTyped DEF PromptApproved
  <2>2. call[c].plan \in Plan
    BY <1>4 DEF PromptApproved, Calling, CommandsOk, CommandOk
  <2>3. approvals' \in [Plan -> Nat] /\ grants' \in [Plan -> {"none", "live"}]
    BY <1>4, <2>2 DEF PromptApproved, TypeOK
  <2> QED BY <1>4, <2>1, <2>3 DEF PromptApproved, TypeOK, CallFrame, observers, lifecycleVars
<1>5. CASE CallRefused(c)
  <2>1. call' \in [Client -> CallRecord]
    BY <1>5, ReturnTyped DEF CallRefused
  <2> QED BY <1>5, <2>1 DEF CallRefused, TypeOK, CallFrame, observers, lifecycleVars
<1>6. CASE RecoverCall(c)
  <2>1. [Idle EXCEPT !.at = "recover", !.todo = {j \in Job : Unfinished(state.jobs[j])}] \in CallRecord
    BY DEF Idle, CallRecord, CallPc
  <2>2. call' \in [Client -> CallRecord]
    BY <1>6, <2>1, BeginTyped DEF RecoverCall, TypeOK
  <2> QED BY <1>6, <2>2 DEF RecoverCall, TypeOK, CallFrame, observers, lifecycleVars
<1>7. CASE StopCall(c)
  <2>1. [Idle EXCEPT !.at = "stopFlag"] \in CallRecord
    BY DEF Idle, CallRecord, CallPc
  <2>2. call' \in [Client -> CallRecord]
    BY <1>7, <2>1, BeginTyped DEF StopCall, TypeOK
  <2> QED BY <1>7, <2>2 DEF StopCall, TypeOK, CallFrame, observers, lifecycleVars
<1>8. ASSUME NEW j \in Job, CancelCall(c, j)
      PROVE  TypeOK'
  <2>1. [Idle EXCEPT !.at = "cancelCommit", !.job = j, !.spawn = control[j].spawn] \in CallRecord
    BY DEF TypeOK, ControlRecord, Idle, CallRecord, CallPc
  <2>2. call' \in [Client -> CallRecord]
    BY <1>8, <2>1, BeginTyped DEF CancelCall, TypeOK
  <2> QED BY <1>8, <2>2 DEF CancelCall, TypeOK, CallFrame, observers, lifecycleVars
<1> QED
  BY <1>1, <1>2, <1>3, <1>4, <1>5, <1>6, <1>7, <1>8 DEF Invoke

(* A crash, the reopening, and the clock.                                   *)
LEMMA VolatileTyped ==
  ASSUME Volatile
  PROVE  /\ failed' \in BOOLEAN /\ stopped' \in BOOLEAN
         /\ grants' \in [Plan -> {"none", "live"}]
         /\ control' \in [Job -> ControlRecord]
         /\ worker' \in [Job -> WorkerRecord]
         /\ call' \in [Client -> CallRecord]
         /\ woken' \in SUBSET Client
         /\ approvals' \in [Plan -> Nat]
         /\ started' \in SUBSET Job
<1>1. NoWorker \in WorkerRecord
  BY DEF NoWorker, WorkerRecord, WorkerPc, Result
<1>2. NoControl \in ControlRecord
  BY DEF NoControl, ControlRecord
<1> QED BY <1>1, <1>2, IdleTyped DEF Volatile

(* A recovered projection is one, with its unfinished jobs stopped.         *)
LEMMA RecoveredForm ==
  ASSUME NEW s \in Projection
  PROVE  /\ Recovered(s) \in Projection
         /\ Recovered(s).plans = s.plans
         /\ \A j \in Job : Recovered(s).jobs[j] =
              IF Unfinished(s.jobs[j]) THEN Stopped(s.jobs[j]) ELSE s.jobs[j]
<1>1. \A j \in Job : s.jobs[j] \in JobRecord /\ Stopped(s.jobs[j]) \in JobRecord
  BY JobForms DEF Projection
<1> QED BY <1>1 DEF Projection, Recovered

(* What is neither a worker nor a command keeps the types.                  *)
LEMMA EnvironmentTyped ==
  ASSUME TypeOK,
         \/ \E p \in Plan : GrantExpires(p)
         \/ \E landed \in SUBSET Job : Crash(landed)
         \/ Open \/ OpenFails \/ AtRest
  PROVE  TypeOK'
<1>1. ASSUME NEW p \in Plan, GrantExpires(p)
      PROVE  TypeOK'
  BY <1>1 DEF GrantExpires, TypeOK, taskVars, observers
<1>2. ASSUME NEW landed \in SUBSET Job, Crash(landed)
      PROVE  TypeOK'
  <2>1. applied' \in [Job -> Nat]
    <3>1. \A j \in Job : applied[j] + (IF j \in landed THEN worker[j].allowed ELSE 0) \in Nat
      BY DEF TypeOK, WorkerRecord
    <3> QED BY <1>2, <3>1 DEF Crash
  <2>2. budget' \in Budget
    <3>1. budget.crashes - 1 \in Nat
      BY <1>2 DEF Crash, TypeOK, Budget
    <3> QED BY <1>2, <3>1 DEF Crash, TypeOK, Budget
  <2> QED BY <1>2, <2>1, <2>2, VolatileTyped DEF Crash, TypeOK
<1>3. CASE Open
  BY <1>3, RecoveredForm DEF Open, TypeOK, taskVars, observers
<1>4. CASE OpenFails
  <2>1. budget' \in Budget
    <3>1. budget.faults - 1 \in Nat
      BY <1>4 DEF OpenFails, TypeOK, Budget
    <3> QED BY <1>4, <3>1 DEF OpenFails, TypeOK, Budget
  <2> QED BY <1>4, <2>1, RecoveredForm DEF OpenFails, TypeOK, taskVars, observers
<1>5. CASE AtRest
  BY <1>5 DEF AtRest, TypeOK, vars
<1> QED BY <1>1, <1>2, <1>3, <1>4, <1>5

-----------------------------------------------------------------------------
(* What a worker's step does, as far as the parts below tell steps apart.   *)

(* The job of another worker is left alone.                                 *)
Untouched(i) ==
  /\ worker'[i] = worker[i] /\ control'[i] = control[i] /\ applied'[i] = applied[i]
  /\ denied'[i] = denied[i]
  /\ state'.jobs[i] = state.jobs[i] /\ store'.jobs[i] = store.jobs[i]

(* A present job stays one of its plan, and what is over stays over.        *)
Grown(i) ==
  /\ Present(state.jobs[i]) =>
       Present(state'.jobs[i]) /\ state'.jobs[i].plan = state.jobs[i].plan
  /\ Terminal(state.jobs[i]) => Terminal(state'.jobs[i])
  /\ failed => failed'

(* The file has the job as it was, or an edit of what memory had.           *)
Filed(i) ==
  \/ store'.jobs[i] = store.jobs[i]
  \/ /\ store.jobs[i] = state.jobs[i] /\ Present(state.jobs[i])
     /\ store'.jobs[i].plan = state.jobs[i].plan

WorkStep(j) ==
  /\ up /\ UNCHANGED <<stopped, grants, call, up, approvals, started, acked>>
  /\ \A i \in Job \ {j} : Untouched(i)
  /\ Grown(j) /\ Filed(j) /\ Present(state.jobs[j]) /\ RecordsOk'

(* How the program counter of a worker moves.                               *)
Move(j) ==
  LET a == worker[j].pc  b == worker'[j].pc IN
  \/ /\ control' = control
     /\ \/ a = "start" /\ b = "claim" /\ Check
        \/ a \in {"start", "claim"} \cup Loop /\ b = "fail"
        \/ a = "claim" /\ b = "top" /\ ~Over(j)
        \/ /\ a \in Loop /\ b \in Loop
           /\ b = "flight" => a = "gate" /\ ~control[j].cancelled
           /\ b = "post" /\ IsFatal(worker'[j].result) => Over(j)'
        \/ a \in Loop \cup {"fail"} /\ b = "finish" /\ Over(j)'
        \/ a = "notify" /\ b = "unmap"
  \/ /\ a = "finish" /\ b = "notify"
     /\ control' = [control EXCEPT ![j].finished = TRUE]
  \/ /\ a = "unmap" /\ b = "off"
     /\ control' = [control EXCEPT ![j].mapped = FALSE]

(* A step that leaves both projections alone keeps them valid.              *)
LEMMA RecordsUnchanged ==
  ASSUME RecordsOk, UNCHANGED <<state, store, up>>
  PROVE  RecordsOk'
BY DEF RecordsOk, Valid, Terminal, Present

(* A step that publishes nothing.                                           *)
LEMMA SilentStep ==
  ASSUME TypeOK, RecordsOk, WorkersOk, NEW j \in Job, up, worker[j].pc # "off",
         UNCHANGED <<store, state, failed>>, WorkerFrame,
         \A i \in Job \ {j} : /\ worker'[i] = worker[i] /\ control'[i] = control[i]
                              /\ applied'[i] = applied[i] /\ denied'[i] = denied[i]
  PROVE  WorkStep(j)
BY RecordsUnchanged
   DEF WorkersOk, WorkerOk, WorkStep, WorkerFrame, observers, Untouched, Grown, Filed

(* A step that publishes an edit of the job of the worker.                  *)
LEMMA EditStep ==
  ASSUME TypeOK, RecordsOk, WorkersOk, NEW j \in Job, up, worker[j].pc # "off",
         NEW job \in JobRecord, job.plan = state.jobs[j].plan, Present(job),
         NEW ok \in BOOLEAN, Publish(WithJob(j, job), ok),
         \A i \in Job \ {j} : worker'[i] = worker[i],
         UNCHANGED <<control, woken, applied, denied>>, WorkerFrame
  PROVE  /\ WorkStep(j)
         /\ ok => ~Over(j) \/ Terminal(job)
         /\ ok => state'.jobs[j] = job
         /\ ~ok => failed'
<1>1. JobStep(j, job, ok)
  BY PublishJobStep
<1>2. ok => Follows(state.jobs[j], job) /\ ~failed
  BY <1>1 DEF JobStep
<1>3. Present(state.jobs[j])
  BY DEF WorkersOk, WorkerOk
<1>4. ok => (Terminal(state.jobs[j]) => Terminal(job))
  BY <1>2, <1>3 DEF Follows
<1>5. Grown(j)
  BY <1>1, <1>4 DEF Grown, JobStep
<1>6. Filed(j)
  BY <1>1, <1>3 DEF Filed, JobStep
<1>7. \A i \in Job \ {j} : Untouched(i)
  BY <1>1 DEF Untouched, JobStep
<1>8. RecordsOk'
  BY WithJobForm, PublishRecords DEF WorkerFrame
<1>9. WorkStep(j)
  BY <1>3, <1>5, <1>6, <1>7, <1>8 DEF WorkStep, WorkerFrame, observers
<1> QED BY <1>1, <1>2, <1>4, <1>9 DEF JobStep, Over

(* The edits a worker makes keep the plan and the presence of its job.      *)
LEMMA EditsKeepPlan ==
  ASSUME NEW job \in JobRecord, Present(job)
  PROVE  /\ \A s \in {"Running", "Queued", "Partial", "Completed"}, r \in BOOLEAN :
              LET edit == [job EXCEPT !.status = s, !.retry = r]
              IN edit.plan = job.plan /\ Present(edit)
         /\ LET edit == [job EXCEPT !.status = "Running"]
            IN edit.plan = job.plan /\ Present(edit)
         /\ Cancelled(job).plan = job.plan /\ Present(Cancelled(job))
         /\ Terminal(Cancelled(job))
         /\ Stopped(job).plan = job.plan /\ Present(Stopped(job))
         /\ Terminal(Stopped(job))
         /\ Closed(job).plan = job.plan /\ Present(Closed(job))
         /\ Terminal(Closed(job))
BY DEF JobRecord, Present, Cancelled, Stopped, Closed, Terminal, TerminalStatus

(* So does what progress records; after a fatal outcome the job is over.    *)
LEMMA ProgressedKeepsPlan ==
  ASSUME NEW j \in Job, state.jobs[j] \in JobRecord, Present(state.jobs[j]),
         Progressed(j) \in JobRecord
  PROVE  /\ Progressed(j).plan = state.jobs[j].plan /\ Present(Progressed(j))
         /\ IsFatal(worker[j].result) => Terminal(Progressed(j))
<1> DEFINE w == worker[j]
           job == state.jobs[j]
           counted == [job EXCEPT
             !.next = Cursor(j), !.skipped = @ + w.skipped,
             !.deleted = @ + DeletedNow(j),
             !.failed = @ + IF w.result \in {"soft", "fatal"} THEN Affected(j) ELSE 0,
             !.uncertain = @ + IF w.result = "ambiguous" THEN Affected(j) ELSE 0,
             !.retry = FALSE]
<1>1. counted.plan = job.plan /\ counted.status = job.status
  BY DEF JobRecord
<1>2. /\ Stopped(counted).plan = counted.plan
      /\ Stopped(counted).status \in {"Partial", "Failed"}
  BY DEF JobRecord, Stopped
<1>3. Progressed(j) = IF IsFatal(w.result) /\ job.status # "Cancelled" THEN Stopped(counted) ELSE counted
  BY DEF Progressed
<1> HIDE DEF counted
<1> QED BY <1>1, <1>2, <1>3 DEF Present, Terminal, TerminalStatus

(* Every step of a worker is one of these.                                  *)
LEMMA WorkMoves ==
  ASSUME TypeOK, RecordsOk, WorkersOk, BatchesOk, EndsOk, NEW j \in Job, Work(j)
  PROVE  WorkStep(j) /\ Move(j)
<1>0. /\ worker[j] \in WorkerRecord /\ state.jobs[j] \in JobRecord
      /\ worker[j].pc # "off" => Present(state.jobs[j])
  BY DEF TypeOK, Projection, WorkersOk, WorkerOk
<1> USE DEF Loop, InBatch
<1>1. CASE RunStart(j)
  <2>1. WorkStep(j)
    BY <1>0, <1>1, SilentStep DEF RunStart, At, TypeOK, Goto
  <2>2. Move(j)
    BY <1>0, <1>1 DEF Move, RunStart, At, TypeOK, WorkerRecord, Goto
  <2> QED BY <2>1, <2>2
<1>2. CASE NextBatch(j)
  <2>1. WorkStep(j)
    BY <1>0, <1>2, SilentStep DEF NextBatch, At, TypeOK, Goto
  <2>2. Move(j)
    BY <1>0, <1>2 DEF Move, NextBatch, At, TypeOK, WorkerRecord, Goto
  <2> QED BY <2>1, <2>2
<1>3. ASSUME NEW answer \in {"yes", "no", "rate", "soft", "fatal"}, Reach(j, answer)
      PROVE  WorkStep(j) /\ Move(j)
  <2>1. WorkStep(j)
    BY <1>0, <1>3, SilentStep DEF Reach, At, TypeOK, Goto
  <2>2. Move(j)
    BY <1>0, <1>3 DEF Move, Reach, At, TypeOK, WorkerRecord, Goto
  <2> QED BY <2>1, <2>2
<1>4. CASE Reached(j)
  <2>1. WorkStep(j)
    BY <1>0, <1>4, SilentStep DEF Reached, At, TypeOK, Goto
  <2>2. Move(j)
    BY <1>0, <1>4 DEF Move, Reached, At, TypeOK, WorkerRecord, Goto
  <2> QED BY <2>1, <2>2
<1>5. CASE MutateCheck(j)
  <2>1. WorkStep(j)
    BY <1>0, <1>5, SilentStep DEF MutateCheck, At, TypeOK, Goto
  <2>2. Move(j)
    BY <1>0, <1>5 DEF Move, MutateCheck, At, TypeOK, WorkerRecord, Goto
  <2> QED BY <2>1, <2>2
<1>6. CASE EnterGate(j)
  <2>1. WorkStep(j)
    BY <1>0, <1>6, SilentStep DEF EnterGate, At, TypeOK, Goto, GateOpen
  <2>2. Move(j)
    BY <1>0, <1>6 DEF Move, EnterGate, At, TypeOK, WorkerRecord, Goto, GateOpen
  <2> QED BY <2>1, <2>2
<1>7. ASSUME NEW answer \in Result, NEW removed \in BOOLEAN, Answer(j, answer, removed)
      PROVE  WorkStep(j) /\ Move(j)
  <2>1. WorkStep(j)
    BY <1>0, <1>7, SilentStep DEF Answer, At, TypeOK, Goto
  <2>2. Move(j)
    BY <1>0, <1>7 DEF Move, Answer, At, TypeOK, WorkerRecord, Goto
  <2> QED BY <2>1, <2>2
<1>8. CASE AfterBatch(j)
  <2>1. WorkStep(j)
    BY <1>0, <1>8, SilentStep DEF AfterBatch, At, TypeOK, Goto
  <2>2. Move(j)
    BY <1>0, <1>8 DEF Move, AfterBatch, At, TypeOK, WorkerRecord, Goto, EndsOk, EndOk, Over, Terminal
  <2> QED BY <2>1, <2>2
<1>9. CASE WaitOver(j)
  <2>1. WorkStep(j)
    BY <1>0, <1>9, SilentStep DEF WaitOver, At, TypeOK, Goto
  <2>2. Move(j)
    BY <1>0, <1>9 DEF Move, WaitOver, At, TypeOK, WorkerRecord, Goto
  <2> QED BY <2>1, <2>2
<1>10. CASE Finish(j)
  <2>1. WorkStep(j)
    BY <1>0, <1>10, SilentStep DEF Finish, At, TypeOK, Goto
  <2>2. Move(j)
    BY <1>0, <1>10 DEF Move, Finish, At, TypeOK, WorkerRecord, Goto
  <2> QED BY <2>1, <2>2
<1>11. CASE NotifyWaiters(j)
  <2>1. WorkStep(j)
    BY <1>0, <1>11, SilentStep DEF NotifyWaiters, At, TypeOK, Goto
  <2>2. Move(j)
    BY <1>0, <1>11 DEF Move, NotifyWaiters, At, TypeOK, WorkerRecord, Goto
  <2> QED BY <2>1, <2>2
<1>12. CASE Unmap(j)
  <2>1. WorkStep(j)
    BY <1>0, <1>12, SilentStep DEF Unmap, At, TypeOK, Goto, Unmapped, NoWorker
  <2>2. Move(j)
    BY <1>0, <1>12 DEF Move, Unmap, At, TypeOK, WorkerRecord, Goto, Unmapped, NoWorker
  <2> QED BY <2>1, <2>2
<1>13. CASE RunClaim(j)
  <2> DEFINE job == [state.jobs[j] EXCEPT !.status = "Running"]
  <2>1. PICK ok \in BOOLEAN :
          /\ Publish(WithJob(j, job), ok)
          /\ worker' = [worker EXCEPT ![j].pc = IF ok THEN "top" ELSE "fail",
                                     ![j].next = FirstBatch(j)]
    BY <1>13 DEF RunClaim
  <2>2. /\ job \in JobRecord /\ job.plan = state.jobs[j].plan /\ Present(job)
        /\ ~Terminal(job)
    <3>1. ~Terminal(job)
      BY <1>0 DEF JobRecord, Terminal, TerminalStatus
    <3> QED BY <1>0, <1>13, <3>1, JobForms, EditsKeepPlan DEF RunClaim, At
  <2> HIDE DEF job
  <2>3. /\ WorkStep(j)
        /\ ok => ~Over(j)
    BY <1>13, <2>1, <2>2, EditStep DEF RunClaim, At, TypeOK
  <2>4. Move(j)
    BY <1>0, <1>13, <2>1, <2>3 DEF Move, TypeOK, WorkerRecord, RunClaim, At
  <2> QED BY <2>3, <2>4
<1>14. CASE SeeCancelled(j)
  <2> DEFINE job == Cancelled(state.jobs[j])
  <2>1. PICK ok \in BOOLEAN : /\ Publish(WithJob(j, job), ok)
                            /\ worker' = [worker EXCEPT ![j].pc = IF ok THEN "finish" ELSE "fail"]
    BY <1>14 DEF SeeCancelled, PublishJob
  <2>2. job \in JobRecord /\ job.plan = state.jobs[j].plan /\ Present(job)
    BY <1>0, <1>14, JobForms, EditsKeepPlan DEF SeeCancelled, At
  <2> HIDE DEF job
  <2>3. /\ WorkStep(j)
        /\ ok => (~Over(j) \/ Terminal(job)) /\ state'.jobs[j] = job
        /\ ~ok => failed'
    BY <1>14, <2>1, <2>2, EditStep DEF SeeCancelled, At, TypeOK
  <2>4. Move(j)
    <3>1. Terminal(job)
      BY <1>0, <1>14, JobForms, EditsKeepPlan DEF SeeCancelled, At, job, Terminal, TerminalStatus, JobRecord
    <3>2. Over(j)'
      BY <2>3, <3>1 DEF Over, Terminal
    <3> QED BY <1>0, <1>14, <2>1, <3>2 DEF Move, TypeOK, WorkerRecord, SeeCancelled, At
  <2> QED BY <2>3, <2>4
<1>15. CASE WaitForRetry(j)
  <2> DEFINE job == [state.jobs[j] EXCEPT !.status = "Queued", !.retry = TRUE]
  <2>1. PICK ok \in BOOLEAN : /\ Publish(WithJob(j, job), ok)
                            /\ worker' = [worker EXCEPT ![j].pc = IF ok THEN "wait" ELSE "fail"]
    BY <1>15 DEF WaitForRetry, PublishJob
  <2>2. job \in JobRecord /\ job.plan = state.jobs[j].plan /\ Present(job)
    BY <1>0, <1>15, JobForms, EditsKeepPlan DEF WaitForRetry, At
  <2> HIDE DEF job
  <2>3. /\ WorkStep(j)
        /\ ok => (~Over(j) \/ Terminal(job)) /\ state'.jobs[j] = job
        /\ ~ok => failed'
    BY <1>15, <2>1, <2>2, EditStep DEF WaitForRetry, At, TypeOK
  <2>4. Move(j)
    BY <1>0, <1>15, <2>1, <2>3 DEF Move, TypeOK, WorkerRecord, WaitForRetry, At
  <2> QED BY <2>3, <2>4
<1>16. CASE Progress(j)
  <2> DEFINE job == Progressed(j)
  <2>1. PICK ok \in BOOLEAN : /\ Publish(WithJob(j, job), ok)
                            /\ worker' = [worker EXCEPT ![j].pc = IF ok THEN "post" ELSE "fail"]
    BY <1>16 DEF Progress, PublishJob
  <2>2. job \in JobRecord /\ job.plan = state.jobs[j].plan /\ Present(job)
    BY <1>0, <1>16, ProgressedForm, ProgressedKeepsPlan DEF Progress, At
  <2> HIDE DEF job
  <2>3. /\ WorkStep(j)
        /\ ok => (~Over(j) \/ Terminal(job)) /\ state'.jobs[j] = job
        /\ ~ok => failed'
    BY <1>16, <2>1, <2>2, EditStep DEF Progress, At, TypeOK
  <2>4. Move(j)
    <3>1. IsFatal(worker[j].result) => Terminal(job) \/ ~ok
      BY <1>0, <1>16, <2>2, ProgressedKeepsPlan DEF Progress, At, job
    <3>2. IsFatal(worker[j].result) => Over(j)'
      BY <2>3, <3>1 DEF Over, Terminal
    <3> QED BY <1>0, <1>16, <2>1, <3>2 DEF Move, TypeOK, WorkerRecord, Progress, At
  <2> QED BY <2>3, <2>4
<1>17. CASE Resume(j)
  <2> DEFINE job == [state.jobs[j] EXCEPT !.status = "Running", !.retry = FALSE]
  <2>1. PICK ok \in BOOLEAN : /\ Publish(WithJob(j, job), ok)
                            /\ worker' = [worker EXCEPT ![j].pc = IF ok THEN "top" ELSE "fail"]
    BY <1>17 DEF Resume, PublishJob
  <2>2. job \in JobRecord /\ job.plan = state.jobs[j].plan /\ Present(job)
    BY <1>0, <1>17, JobForms, EditsKeepPlan DEF Resume, At
  <2> HIDE DEF job
  <2>3. /\ WorkStep(j)
        /\ ok => (~Over(j) \/ Terminal(job)) /\ state'.jobs[j] = job
        /\ ~ok => failed'
    BY <1>17, <2>1, <2>2, EditStep DEF Resume, At, TypeOK
  <2>4. Move(j)
    BY <1>0, <1>17, <2>1, <2>3 DEF Move, TypeOK, WorkerRecord, Resume, At
  <2> QED BY <2>3, <2>4
<1>18. CASE Finalize(j)
  <2> DEFINE job == [state.jobs[j] EXCEPT !.status = IF state.jobs[j].failed > 0 THEN "Partial" ELSE "Completed",
                                        !.retry = FALSE]
  <2>1. PICK ok \in BOOLEAN : /\ Publish(WithJob(j, job), ok)
                            /\ worker' = [worker EXCEPT ![j].pc = IF ok THEN "finish" ELSE "fail"]
    BY <1>18 DEF Finalize, PublishJob
  <2>2. job \in JobRecord /\ job.plan = state.jobs[j].plan /\ Present(job)
    BY <1>0, <1>18, JobForms, EditsKeepPlan DEF Finalize, At
  <2> HIDE DEF job
  <2>3. /\ WorkStep(j)
        /\ ok => (~Over(j) \/ Terminal(job)) /\ state'.jobs[j] = job
        /\ ~ok => failed'
    BY <1>18, <2>1, <2>2, EditStep DEF Finalize, At, TypeOK
  <2>4. Move(j)
    <3>1. Terminal(job)
      BY <1>0, <1>18, JobForms, EditsKeepPlan DEF Finalize, At, job, Terminal, TerminalStatus, JobRecord
    <3>2. Over(j)'
      BY <2>3, <3>1 DEF Over, Terminal
    <3> QED BY <1>0, <1>18, <2>1, <3>2 DEF Move, TypeOK, WorkerRecord, Finalize, At
  <2> QED BY <2>3, <2>4
<1>19. CASE RunFailed(j)
  <2> DEFINE job == Closed(state.jobs[j])
  <2>1. PICK ok \in BOOLEAN : /\ Publish(WithJob(j, job), ok)
                            /\ worker' = [worker EXCEPT ![j].pc = IF ok THEN "finish" ELSE "finish"]
    BY <1>19 DEF RunFailed, PublishJob, IfUnpublished
  <2>2. job \in JobRecord /\ job.plan = state.jobs[j].plan /\ Present(job)
    BY <1>0, <1>19, JobForms, EditsKeepPlan DEF RunFailed, At
  <2> HIDE DEF job
  <2>3. /\ WorkStep(j)
        /\ ok => (~Over(j) \/ Terminal(job)) /\ state'.jobs[j] = job
        /\ ~ok => failed'
    BY <1>19, <2>1, <2>2, EditStep DEF RunFailed, At, TypeOK
  <2>4. Move(j)
    <3>1. Terminal(job)
      BY <1>0, <1>19, JobForms, EditsKeepPlan DEF RunFailed, At, job, Terminal, TerminalStatus, JobRecord
    <3>2. Over(j)'
      BY <2>3, <3>1 DEF Over, Terminal
    <3> QED BY <1>0, <1>19, <2>1, <3>2 DEF Move, TypeOK, WorkerRecord, RunFailed, At
  <2> QED BY <2>3, <2>4
<1> QED
  BY <1>1, <1>2, <1>3, <1>4, <1>5, <1>6, <1>7, <1>8, <1>9, <1>10, <1>11, <1>12, <1>13, <1>14, <1>15, <1>16, <1>17, <1>18, <1>19 DEF Work

-----------------------------------------------------------------------------
(* What a command does to the jobs.                                         *)

(* A fresh worker, of a job somebody was authorized to start.               *)
Spawned(i) ==
  /\ ~control[i].mapped /\ i \in started
  /\ worker'[i] = [NoWorker EXCEPT !.pc = "start"]
  /\ control'[i] = [mapped |-> TRUE, spawn |-> control[i].spawn + 1,
                   cancelled |-> FALSE, finished |-> FALSE]

Signalled(i) ==
  /\ worker'[i] = worker[i]
  /\ control'[i] \in {control[i], [control[i] EXCEPT !.cancelled = TRUE]}

(* The jobs seen by a command that publishes nothing.                       *)
Unpublished == state' = state /\ store' = store /\ failed' = failed

CommandStep(c) ==
  /\ up /\ UNCHANGED <<up, applied, denied>> /\ RecordsOk'
  /\ \A d \in Client \ {c} : call'[d] = call[d]
  /\ \A i \in Job : Grown(i) /\ (Spawned(i) \/ Signalled(i))

(* A command that publishes nothing takes nothing from a job.               *)
LEMMA UnpublishedGrown == ASSUME Unpublished PROVE \A i \in Job : Grown(i)
BY DEF Unpublished, Grown

(* Nor does it disturb the records.                                         *)
LEMMA UnpublishedRecords == ASSUME RecordsOk, Unpublished, up' = up PROVE RecordsOk'
BY RecordsUnchanged DEF Unpublished

(* A command that leaves workers alone signals them at most.                *)
LEMMA IdleWorkers ==
  ASSUME UNCHANGED <<worker, control>>
  PROVE  \A i \in Job : Signalled(i)
BY DEF Signalled

(* Scheduling starts a worker of its job or does nothing.                   *)
LEMMA SpawnMoves ==
  ASSUME TypeOK, NEW j \in Job, j \in started, Spawn(j)
  PROVE  \A i \in Job : Spawned(i) \/ Signalled(i)
<1>1. CASE control[j].mapped
  BY <1>1, IdleWorkers DEF Spawn
<1>2. CASE ~control[j].mapped
  <2>1. Spawned(j)
    BY <1>2 DEF Spawn, Spawned, TypeOK
  <2>2. \A i \in Job \ {j} : Signalled(i)
    BY <1>2 DEF Spawn, Signalled, TypeOK
  <2> QED BY <2>1, <2>2
<1> QED BY <1>1, <1>2

(* Every step of a command is one of these.                                 *)
LEMMA CommandMoves ==
  ASSUME TypeOK, RecordsOk, CommandsOk, AuthorityOk, NEW c \in Client,
         Handle(c) \/ Invoke(c)
  PROVE  CommandStep(c)
<1>1. CASE PrepareCommit(c)
  <2>1. (\A i \in Job : Grown(i)) /\ RecordsOk'
    <3>0. up /\ up' = up
      BY <1>1 DEF PrepareCommit, Calling, CallFrame
    <3>1. CASE Check
      <4>1. call[c].plan \in Plan
        BY <1>1 DEF PrepareCommit, Calling, CommandsOk, CommandOk
      <4>2. [state EXCEPT !.plans = @ \cup {call[c].plan}] \in Projection
        BY <4>1 DEF TypeOK, Projection
      <4>3. PICK ok \in BOOLEAN : Publish([state EXCEPT !.plans = @ \cup {call[c].plan}], ok)
        BY <1>1, <3>1 DEF PrepareCommit
      <4>4. state'.jobs = state.jobs /\ (failed => failed')
        BY <4>2, <4>3, PublishEffect DEF TypeOK, Projection
      <4>5. RecordsOk'
        BY <3>0, <4>2, <4>3, PublishRecords
      <4> QED BY <4>4, <4>5 DEF Grown
    <3>2. CASE ~Check
      BY <1>1, <3>0, <3>2, UnpublishedGrown, UnpublishedRecords DEF PrepareCommit, Unpublished
    <3> QED BY <3>1, <3>2
  <2> QED BY <1>1, <2>1, IdleWorkers DEF CommandStep, PrepareCommit, Calling, Begin, Return, Step, CallFrame, lifecycleVars, TypeOK
<1>2. ASSUME NEW j \in Job, StartCommit(c, j)
      PROVE  CommandStep(c)
  <2>1. NewJob(call[c].plan) \in JobRecord
    BY <1>2, NewJobForm DEF StartCommit, Calling, CommandsOk, CommandOk
  <2>2. PICK ok \in BOOLEAN : Publish(WithJob(j, NewJob(call[c].plan)), ok)
    BY <1>2 DEF StartCommit
  <2>3. JobStep(j, NewJob(call[c].plan), ok)
    BY <2>1, <2>2, PublishJobStep
  <2>4. ~Present(state.jobs[j]) /\ RecordsOk'
    BY <1>2, <2>1, <2>2, WithJobForm, PublishRecords DEF StartCommit, Calling, CallFrame
  <2>5. \A i \in Job : Grown(i)
    BY <2>3, <2>4 DEF Grown, JobStep, Present, Terminal, TerminalStatus
  <2> QED BY <1>2, <2>4, <2>5, IdleWorkers DEF CommandStep, StartCommit, Calling, Begin, Return, Step, CallFrame, lifecycleVars, TypeOK
<1>3. CASE StartRefused(c)
  <2>1. Unpublished /\ UNCHANGED <<worker, control>>
    BY <1>3 DEF StartRefused, CallFrame, lifecycleVars, Unpublished
  <2> QED BY <1>3, <2>1, UnpublishedGrown, UnpublishedRecords, IdleWorkers DEF CommandStep, StartRefused, Calling, Begin, Return, Step, CallFrame, lifecycleVars, TypeOK
<1>4. CASE StartSchedule(c)
  <2>1. call[c].job \in Job /\ call[c].job \in started
    BY <1>4 DEF StartSchedule, Calling, CommandsOk, CommandOk, AuthorityOk
  <2>2. Unpublished
    BY <1>4 DEF StartSchedule, lifecycleVars, Unpublished
  <2>3. \A i \in Job : Spawned(i) \/ Signalled(i)
    BY <1>4, <2>1, SpawnMoves DEF StartSchedule
  <2> QED BY <1>4, <2>2, <2>3, UnpublishedGrown, UnpublishedRecords DEF CommandStep, StartSchedule, Calling, Begin, Return, Step, CallFrame, lifecycleVars, TypeOK
<1>5. ASSUME NEW j \in Job, RecoverSchedule(c, j)
      PROVE  CommandStep(c)
  <2>1. j \in Job /\ j \in started
    BY <1>5 DEF RecoverSchedule, AuthorityOk
  <2>2. Unpublished
    BY <1>5 DEF RecoverSchedule, lifecycleVars, Unpublished
  <2>3. \A i \in Job : Spawned(i) \/ Signalled(i)
    BY <1>5, <2>1, SpawnMoves DEF RecoverSchedule
  <2> QED BY <1>5, <2>2, <2>3, UnpublishedGrown, UnpublishedRecords DEF CommandStep, RecoverSchedule, Calling, Begin, Return, Step, CallFrame, lifecycleVars, TypeOK
<1>6. CASE RecoverReturn(c)
  <2>1. Unpublished /\ UNCHANGED <<worker, control>>
    BY <1>6 DEF RecoverReturn, CallFrame, lifecycleVars, Unpublished
  <2> QED BY <1>6, <2>1, UnpublishedGrown, UnpublishedRecords, IdleWorkers DEF CommandStep, RecoverReturn, Calling, Begin, Return, Step, CallFrame, lifecycleVars, TypeOK
<1>7. CASE CancelCommit(c)
  <2> DEFINE j == call[c].job
             job == Cancelled(state.jobs[j])
  <2>1. j \in Job
    BY <1>7 DEF CancelCommit, Calling, CommandsOk, CommandOk, AtCancel
  <2>2. state.jobs[j] \in JobRecord /\ job \in JobRecord
    BY <2>1, JobForms DEF TypeOK, Projection
  <2>3. PICK ok \in BOOLEAN : Publish(WithJob(j, job), ok)
    BY <1>7 DEF CancelCommit
  <2>4. JobStep(j, job, ok)
    BY <2>1, <2>2, <2>3, PublishJobStep
  <2>5. job.plan = state.jobs[j].plan /\ Present(job) /\ Terminal(job)
    BY <2>2 DEF Cancelled, JobRecord, Present, Terminal, TerminalStatus
  <2>6. RecordsOk'
    BY <1>7, <2>1, <2>2, <2>3, WithJobForm, PublishRecords
    DEF CancelCommit, Calling, CallFrame
  <2> HIDE DEF job, j
  <2>7. \A i \in Job : Grown(i)
    BY <2>1, <2>4, <2>5 DEF Grown, JobStep, Present, Terminal
  <2> QED BY <1>7, <2>6, <2>7, IdleWorkers DEF CommandStep, CancelCommit, Calling, Begin, Return, Step, CallFrame, lifecycleVars, TypeOK
<1>8. CASE CancelSignal(c)
  <2>1. Unpublished
    BY <1>8 DEF CancelSignal, lifecycleVars, Unpublished
  <2>2. \A i \in Job : Signalled(i)
    BY <1>8 DEF CancelSignal, CallFrame, Signalled, TypeOK, ControlRecord
  <2> QED BY <1>8, <2>1, <2>2, UnpublishedGrown, UnpublishedRecords DEF CommandStep, CancelSignal, Calling, Begin, Return, Step, CallFrame, lifecycleVars, TypeOK
<1>9. CASE StopFlag(c)
  <2>1. Unpublished
    BY <1>9 DEF StopFlag, lifecycleVars, Unpublished
  <2>2. \A i \in Job : Signalled(i)
    <3>1. ASSUME NEW i \in Job
          PROVE  control'[i] \in {control[i], [control[i] EXCEPT !.cancelled = TRUE]}
      <4>1. control[i] \in ControlRecord
        BY DEF TypeOK
      <4>2. control'[i] = [control[i] EXCEPT !.cancelled = @ \/ control[i].mapped]
        BY <1>9 DEF StopFlag
      <4>3. (control[i].cancelled \/ control[i].mapped) \in BOOLEAN
        BY <4>1 DEF ControlRecord
      <4>4. CASE control[i].cancelled \/ control[i].mapped
        BY <4>1, <4>2, <4>3, <4>4 DEF ControlRecord
      <4>5. CASE ~(control[i].cancelled \/ control[i].mapped)
        BY <4>1, <4>2, <4>3, <4>5 DEF ControlRecord
      <4> QED BY <4>4, <4>5
    <3> QED BY <1>9, <3>1 DEF StopFlag, CallFrame, Signalled
  <2> QED BY <1>9, <2>1, <2>2, UnpublishedGrown, UnpublishedRecords DEF CommandStep, StopFlag, Calling, Begin, Return, Step, CallFrame, lifecycleVars, TypeOK
<1>10. CASE CancelGate(c)
  <2>1. Unpublished /\ UNCHANGED <<worker, control>>
    BY <1>10 DEF CancelGate, CallFrame, lifecycleVars, Unpublished
  <2> QED BY <1>10, <2>1, UnpublishedGrown, UnpublishedRecords, IdleWorkers DEF CommandStep, CancelGate, Calling, Begin, Return, Step, CallFrame, lifecycleVars, TypeOK
<1>11. CASE CancelArm(c)
  <2>1. Unpublished /\ UNCHANGED <<worker, control>>
    BY <1>11 DEF CancelArm, CallFrame, lifecycleVars, Unpublished
  <2> QED BY <1>11, <2>1, UnpublishedGrown, UnpublishedRecords, IdleWorkers DEF CommandStep, CancelArm, Calling, Begin, Return, Step, CallFrame, lifecycleVars, TypeOK
<1>12. CASE CancelCheck(c)
  <2>1. Unpublished /\ UNCHANGED <<worker, control>>
    BY <1>12 DEF CancelCheck, CallFrame, lifecycleVars, Unpublished
  <2> QED BY <1>12, <2>1, UnpublishedGrown, UnpublishedRecords, IdleWorkers DEF CommandStep, CancelCheck, Calling, Begin, Return, Step, CallFrame, lifecycleVars, TypeOK
<1>13. CASE CancelWake(c)
  <2>1. Unpublished /\ UNCHANGED <<worker, control>>
    BY <1>13 DEF CancelWake, CallFrame, lifecycleVars, Unpublished
  <2> QED BY <1>13, <2>1, UnpublishedGrown, UnpublishedRecords, IdleWorkers DEF CommandStep, CancelWake, Calling, Begin, Return, Step, CallFrame, lifecycleVars, TypeOK
<1>14. CASE StopDrained(c)
  <2>1. Unpublished /\ UNCHANGED <<worker, control>>
    BY <1>14 DEF StopDrained, CallFrame, lifecycleVars, Unpublished
  <2> QED BY <1>14, <2>1, UnpublishedGrown, UnpublishedRecords, IdleWorkers DEF CommandStep, StopDrained, Calling, Begin, Return, Step, CallFrame, lifecycleVars, TypeOK
<1>15. CASE StopPolls(c)
  <2>1. Unpublished /\ UNCHANGED <<worker, control>>
    BY <1>15 DEF StopPolls, CallFrame, lifecycleVars, Unpublished, vars
  <2> QED BY <1>15, <2>1, UnpublishedGrown, UnpublishedRecords, IdleWorkers DEF CommandStep, StopPolls, Calling, Begin, Return, Step, CallFrame, lifecycleVars, TypeOK, vars
<1>16. CASE StopClear(c)
  <2>1. Unpublished /\ UNCHANGED <<worker, control>>
    BY <1>16 DEF StopClear, CallFrame, lifecycleVars, Unpublished
  <2> QED BY <1>16, <2>1, UnpublishedGrown, UnpublishedRecords, IdleWorkers DEF CommandStep, StopClear, Calling, Begin, Return, Step, CallFrame, lifecycleVars, TypeOK
<1>17. ASSUME NEW p \in Plan, PrepareCall(c, p)
      PROVE  CommandStep(c)
  <2>1. Unpublished /\ UNCHANGED <<worker, control>>
    BY <1>17 DEF PrepareCall, CallFrame, lifecycleVars, Unpublished
  <2> QED BY <1>17, <2>1, UnpublishedGrown, UnpublishedRecords, IdleWorkers DEF CommandStep, PrepareCall, Calling, Begin, Return, Step, CallFrame, lifecycleVars, TypeOK
<1>18. ASSUME NEW p \in Plan, AuthorizeCall(c, p)
      PROVE  CommandStep(c)
  <2>1. Unpublished /\ UNCHANGED <<worker, control>>
    BY <1>18 DEF AuthorizeCall, CallFrame, lifecycleVars, Unpublished
  <2> QED BY <1>18, <2>1, UnpublishedGrown, UnpublishedRecords, IdleWorkers DEF CommandStep, AuthorizeCall, Calling, Begin, Return, Step, CallFrame, lifecycleVars, TypeOK
<1>19. ASSUME NEW p \in Plan, StartConsume(c, p)
      PROVE  CommandStep(c)
  <2>1. Unpublished /\ UNCHANGED <<worker, control>>
    BY <1>19 DEF StartConsume, CallFrame, lifecycleVars, Unpublished
  <2> QED BY <1>19, <2>1, UnpublishedGrown, UnpublishedRecords, IdleWorkers DEF CommandStep, StartConsume, Calling, Begin, Return, Step, CallFrame, lifecycleVars, TypeOK
<1>20. CASE PromptApproved(c)
  <2>1. Unpublished /\ UNCHANGED <<worker, control>>
    BY <1>20 DEF PromptApproved, CallFrame, lifecycleVars, Unpublished
  <2> QED BY <1>20, <2>1, UnpublishedGrown, UnpublishedRecords, IdleWorkers DEF CommandStep, PromptApproved, Calling, Begin, Return, Step, CallFrame, lifecycleVars, TypeOK
<1>21. CASE CallRefused(c)
  <2>1. Unpublished /\ UNCHANGED <<worker, control>>
    BY <1>21 DEF CallRefused, CallFrame, lifecycleVars, Unpublished
  <2> QED BY <1>21, <2>1, UnpublishedGrown, UnpublishedRecords, IdleWorkers DEF CommandStep, CallRefused, Calling, Begin, Return, Step, CallFrame, lifecycleVars, TypeOK
<1>22. CASE RecoverCall(c)
  <2>1. Unpublished /\ UNCHANGED <<worker, control>>
    BY <1>22 DEF RecoverCall, CallFrame, lifecycleVars, Unpublished
  <2> QED BY <1>22, <2>1, UnpublishedGrown, UnpublishedRecords, IdleWorkers DEF CommandStep, RecoverCall, Calling, Begin, Return, Step, CallFrame, lifecycleVars, TypeOK
<1>23. CASE StopCall(c)
  <2>1. Unpublished /\ UNCHANGED <<worker, control>>
    BY <1>23 DEF StopCall, CallFrame, lifecycleVars, Unpublished
  <2> QED BY <1>23, <2>1, UnpublishedGrown, UnpublishedRecords, IdleWorkers DEF CommandStep, StopCall, Calling, Begin, Return, Step, CallFrame, lifecycleVars, TypeOK
<1>24. ASSUME NEW j \in Job, CancelCall(c, j)
      PROVE  CommandStep(c)
  <2>1. Unpublished /\ UNCHANGED <<worker, control>>
    BY <1>24 DEF CancelCall, CallFrame, lifecycleVars, Unpublished
  <2> QED BY <1>24, <2>1, UnpublishedGrown, UnpublishedRecords, IdleWorkers DEF CommandStep, CancelCall, Calling, Begin, Return, Step, CallFrame, lifecycleVars, TypeOK
<1> QED
  BY <1>1, <1>2, <1>3, <1>4, <1>5, <1>6, <1>7, <1>8, <1>9, <1>10,
     <1>11, <1>12, <1>13, <1>14, <1>15, <1>16, <1>17, <1>18, <1>19, <1>20,
     <1>21, <1>22, <1>23, <1>24
     DEF Handle, Invoke

-----------------------------------------------------------------------------
(* The parts of IInv, one lemma each.                                       *)

(* The environment: what is not a worker and not a command.                 *)
Elsewhere ==
  \/ \E p \in Plan : GrantExpires(p)
  \/ \E landed \in SUBSET Job : Crash(landed)
  \/ Open \/ OpenFails \/ AtRest

(* A step is one of a worker, of a command or of the environment.           *)
LEMMA NextCases ==
  ASSUME Next
  PROVE  \/ \E j \in Job : Work(j)
         \/ \E c \in Client : Handle(c) \/ Invoke(c)
         \/ Elsewhere
BY DEF Next, Elsewhere

(* What a crash and a failed opening leave of the jobs.                     *)
LEMMA ElsewhereMoves ==
  ASSUME TypeOK, RecordsOk, Elsewhere
  PROVE  \/ /\ state' = state /\ store' = store /\ failed' = failed
            /\ UNCHANGED <<taskVars, up, applied, denied, observers, stopped>>
         \/ /\ up /\ ~up' /\ state' = store /\ store' = store /\ acked' = acked
            /\ Volatile
         \/ /\ ~up /\ (state' = state \/ state' = Recovered(state)) /\ store' = state'
            /\ UNCHANGED <<failed, stopped, grants, taskVars, applied, denied, observers>>
<1>1. ASSUME NEW p \in Plan, GrantExpires(p)
      PROVE  /\ state' = state /\ store' = store /\ failed' = failed
             /\ UNCHANGED <<taskVars, up, applied, denied, observers, stopped>>
  BY <1>1 DEF GrantExpires
<1>2. ASSUME NEW landed \in SUBSET Job, Crash(landed)
      PROVE  /\ up /\ ~up' /\ state' = store /\ store' = store /\ acked' = acked
             /\ denied' = denied /\ Volatile
  BY <1>2 DEF Crash
<1>3. CASE Open \/ OpenFails
  BY <1>3 DEF Open, OpenFails, RecordsOk
<1>4. CASE AtRest
  BY <1>4 DEF AtRest, vars, taskVars, observers
<1> QED BY <1>1, <1>2, <1>3, <1>4 DEF Elsewhere

(* What FrozenLifecycle::new makes of each job.                             *)
LEMMA RecoveredJobs ==
  ASSUME TypeOK, NEW j \in Job
  PROVE  LET r == Recovered(state).jobs[j]  s == state.jobs[j] IN
         /\ Present(r) <=> Present(s)
         /\ r.plan = s.plan /\ r.deleted = s.deleted /\ r.next = s.next
         /\ Terminal(s) => r = s
         /\ ~Unfinished(r)
         /\ Valid(s) => Valid(r)
<1>1. state.jobs[j] \in JobRecord
  BY DEF TypeOK, Projection
<1>2. Recovered(state).jobs[j] = IF Unfinished(state.jobs[j]) THEN Stopped(state.jobs[j]) ELSE state.jobs[j]
  BY RecoveredForm DEF TypeOK
<1>3. LET r == Stopped(state.jobs[j])  s == state.jobs[j] IN
      /\ r.plan = s.plan /\ r.deleted = s.deleted /\ r.next = s.next
      /\ r.failed = s.failed /\ r.uncertain = s.uncertain /\ r.retry = FALSE
      /\ r.skipped = s.skipped
      /\ r.status \in {"Partial", "Failed"}
  BY <1>1 DEF Stopped, JobRecord
<1> QED BY <1>2, <1>3 DEF Unfinished, Present, Terminal, TerminalStatus, Valid

(* All of IInv but for what its conjuncts need: the context of each part.   *)
LEMMA StepKinds ==
  ASSUME IInv, Next
  PROVE  \/ \E j \in Job : Work(j) /\ WorkStep(j) /\ Move(j)
         \/ \E c \in Client : (Handle(c) \/ Invoke(c)) /\ CommandStep(c)
         \/ Elsewhere
BY NextCases, WorkMoves, CommandMoves DEF IInv

(* Types: every step keeps them.                                            *)
LEMMA TypeStep ==
  ASSUME IInv, Next
  PROVE  TypeOK'
BY WorkTyped, HandleTyped, InvokeTyped, EnvironmentTyped DEF IInv, Next

(* Records: both copies stay valid, and the file is over first.             *)
LEMMA RecordsStep ==
  ASSUME IInv, Next
  PROVE  RecordsOk'
<1>1. CASE \/ \E j \in Job : Work(j) /\ WorkStep(j)
           \/ \E c \in Client : CommandStep(c)
  BY <1>1 DEF WorkStep, CommandStep
<1>2. CASE Elsewhere
  <2>1. CASE state' = state /\ store' = store /\ up' = up
    BY <2>1, RecordsUnchanged DEF IInv
  <2>2. CASE state' = store /\ store' = store
    BY <2>2 DEF IInv, RecordsOk, Valid, Terminal, Present
  <2>3. CASE (state' = state \/ state' = Recovered(state)) /\ store' = state'
    <3>1. \A j \in Job : Valid(state'.jobs[j])
      BY <2>3, RecoveredJobs DEF IInv, RecordsOk
    <3> QED BY <2>3, <3>1 DEF RecordsOk, Valid, Terminal, Present
  <2> QED BY <1>2, <2>1, <2>2, <2>3, ElsewhereMoves DEF IInv
<1> QED BY <1>1, <1>2, StepKinds

(* Workers: a control is mapped exactly while its worker lives.             *)
LEMMA WorkersStep ==
  ASSUME IInv, Next
  PROVE  WorkersOk'
<1>0. TypeOK /\ WorkersOk /\ RecordsOk /\ AuthorityOk
  BY DEF IInv
<1>1. ASSUME NEW j \in Job, WorkStep(j), Move(j)
      PROVE  WorkersOk'
  <2>1. ASSUME NEW i \in Job \ {j}
        PROVE  WorkerOk(i)'
    BY <1>0, <1>1 DEF WorkersOk, WorkerOk, WorkStep, Untouched, Present
  <2>2. WorkerOk(j)'
    <3>1. control[j] \in ControlRecord /\ WorkerOk(j)
      BY <1>0 DEF TypeOK, WorkersOk
    <3>2. Present(state.jobs[j])' /\ up'
      BY <1>1 DEF WorkStep, Grown, Present
    <3> QED BY <1>0, <1>1, <3>1, <3>2
            DEF WorkerOk, Move, Loop, InBatch, TypeOK, ControlRecord, Present
  <2> QED BY <2>1, <2>2 DEF WorkersOk
<1>2. ASSUME NEW c \in Client, CommandStep(c)
      PROVE  WorkersOk'
  <2>1. ASSUME NEW i \in Job
        PROVE  WorkerOk(i)'
    <3>1. control[i] \in ControlRecord /\ WorkerOk(i)
      BY <1>0 DEF TypeOK, WorkersOk
    <3>2. up' /\ (Present(state.jobs[i]) => Present(state'.jobs[i]))
      BY <1>2 DEF CommandStep, Grown
    <3>3. CASE Spawned(i)
      BY <1>0, <3>1, <3>2, <3>3
      DEF Spawned, WorkerOk, AuthorityOk, NoWorker, ControlRecord, Present
    <3>4. CASE Signalled(i)
      BY <3>1, <3>2, <3>4 DEF Signalled, WorkerOk, ControlRecord, Present
    <3> QED BY <1>2, <3>3, <3>4 DEF CommandStep
  <2> QED BY <2>1 DEF WorkersOk
<1>3. CASE Elsewhere
  <2>1. CASE state' = state /\ UNCHANGED <<control, worker, up>>
    BY <1>0, <2>1 DEF WorkersOk, WorkerOk, Present
  <2>2. CASE Volatile
    BY <2>2 DEF Volatile, WorkersOk, WorkerOk, NoWorker, NoControl
  <2>3. CASE ~up /\ (state' = state \/ state' = Recovered(state)) /\ UNCHANGED <<control, worker>>
    <3>1. \A i \in Job : Present(state.jobs[i]) <=> Present(state'.jobs[i])
      BY <1>0, <2>3, RecoveredJobs
    <3> QED BY <1>0, <2>3, <3>1 DEF WorkersOk, WorkerOk, Present
  <2> QED BY <1>0, <1>3, <2>1, <2>2, <2>3, ElsewhereMoves DEF taskVars
<1> QED BY <1>1, <1>2, <1>3, StepKinds

(* Ends: a worker leaves only a job that is over.                           *)
LEMMA EndsStep ==
  ASSUME IInv, Next
  PROVE  EndsOk'
<1>0. TypeOK /\ WorkersOk /\ RecordsOk /\ AuthorityOk /\ EndsOk
  BY DEF IInv
<1> USE DEF Leaving, Outside
<1>1. ASSUME NEW j \in Job, WorkStep(j), Move(j)
      PROVE  EndsOk'
  <2>1. ASSUME NEW i \in Job \ {j}
        PROVE  EndOk(i)'
    <3>1. Over(i) => Over(i)'
      BY <1>1 DEF WorkStep, Untouched, Grown, Over, Terminal
    <3> QED BY <1>0, <1>1, <3>1 DEF EndsOk, EndOk, WorkStep, Untouched
  <2>2. EndOk(j)'
    <3>1. control[j] \in ControlRecord /\ WorkerOk(j) /\ EndOk(j)
      BY <1>0 DEF TypeOK, WorkersOk, EndsOk
    <3>2. Over(j) => Over(j)'
      BY <1>1 DEF WorkStep, Grown, Over, Terminal
    <3>3. control'[j].spawn = control[j].spawn
      BY <1>0, <1>1, <3>1 DEF Move, TypeOK, ControlRecord
    <3>4. control'[j].mapped \/ (worker[j].pc = "unmap" /\ worker'[j].pc = "off")
      BY <1>0, <1>1, <3>1 DEF Move, TypeOK, ControlRecord, WorkerOk, Loop, InBatch
    <3> QED BY <1>1, <3>1, <3>2, <3>3, <3>4 DEF EndOk, Move, Loop, InBatch
  <2> QED BY <2>1, <2>2 DEF EndsOk
<1>2. ASSUME NEW c \in Client, CommandStep(c)
      PROVE  EndsOk'
  <2>1. ASSUME NEW i \in Job
        PROVE  EndOk(i)'
    <3>1. control[i] \in ControlRecord /\ WorkerOk(i) /\ EndOk(i)
      BY <1>0 DEF TypeOK, WorkersOk, EndsOk
    <3>2. Over(i) => Over(i)'
      BY <1>2 DEF CommandStep, Grown, Over, Terminal
    <3>3. CASE Spawned(i)
      BY <3>1, <3>2, <3>3 DEF Spawned, EndOk, NoWorker, ControlRecord
    <3>4. CASE Signalled(i)
      BY <3>1, <3>2, <3>4 DEF Signalled, EndOk, ControlRecord
    <3> QED BY <1>2, <3>3, <3>4 DEF CommandStep
  <2> QED BY <2>1 DEF EndsOk
<1>3. CASE Elsewhere
  <2>1. CASE state' = state /\ UNCHANGED <<control, worker, failed>>
    BY <1>0, <2>1 DEF EndsOk, EndOk, Over, Terminal
  <2>2. CASE Volatile
    BY <2>2 DEF Volatile, EndsOk, EndOk, NoWorker, NoControl
  <2>3. CASE (state' = state \/ state' = Recovered(state)) /\ UNCHANGED <<control, worker, failed>>
    <3>1. \A i \in Job : Terminal(state.jobs[i]) => Terminal(state'.jobs[i])
      BY <1>0, <2>3, RecoveredJobs
    <3> QED BY <1>0, <2>3, <3>1 DEF EndsOk, EndOk, Over, Terminal
  <2> QED BY <1>0, <1>3, <2>1, <2>2, <2>3, ElsewhereMoves DEF taskVars
<1> QED BY <1>1, <1>2, <1>3, StepKinds

(* The batch in hand changes only at the head of the loop and target by     *)
(* target; the plan of the job does not change.                             *)
LEMMA BatchesStep ==
  ASSUME IInv, Next
  PROVE  BatchesOk'
<1>0. TypeOK /\ WorkersOk /\ RecordsOk /\ BatchesOk
  BY DEF IInv
<1> USE DEF InBatch
<1>1. ASSUME NEW i \in Job, worker'[i] = worker[i], Grown(i),
             worker[i].pc # "off" => Present(state.jobs[i])
      PROVE  BatchOk(i)'
  <2>1. worker[i].pc # "off" => state'.jobs[i].plan = state.jobs[i].plan
    BY <1>1 DEF Grown
  <2> QED BY <1>0, <1>1, <2>1 DEF BatchesOk, BatchOk, Size
<1>2. \A i \in Job : worker[i].pc # "off" => Present(state.jobs[i])
  BY <1>0 DEF WorkersOk, WorkerOk
<1>3. ASSUME NEW j \in Job, Work(j), WorkStep(j)
      PROVE  BatchesOk'
  <2>1. \A i \in Job \ {j} : BatchOk(i)'
    BY <1>1, <1>2, <1>3 DEF WorkStep, Untouched, Grown
  <2>2. /\ worker[j] \in WorkerRecord /\ state.jobs[j].plan \in Plan
        /\ state'.jobs[j].plan = state.jobs[j].plan
    BY <1>0, <1>3 DEF TypeOK, WorkStep, Grown, RecordsOk, Valid
  <2>3. BatchOk(j)
    BY <1>0 DEF BatchesOk
  <2>4. ASSUME NextBatch(j) PROVE BatchOk(j)'
    <3>1. CASE PastLastBatch(j)
      BY <1>0, <2>4, <3>1 DEF NextBatch, Goto, BatchOk, TypeOK, WorkerRecord
    <3>2. CASE ~PastLastBatch(j)
      <4>1. /\ worker'[j].pc = "reach" /\ worker'[j].next = worker[j].next
            /\ worker'[j].allowed = 0 /\ worker'[j].skipped = 0
        BY <1>0, <2>2, <2>4, <3>2 DEF NextBatch, TypeOK, WorkerRecord
      <4>2. worker[j].next \in Nat /\ Count(state.jobs[j].plan) \in Nat
        BY <2>2, EndsAssumption DEF WorkerRecord, Count
      <4>3. worker[j].next < Count(state.jobs[j].plan)
        BY <4>2, <3>2 DEF PastLastBatch
      <4>4. Size(j) \in Nat /\ Size(j) > 0
        BY <2>2, <4>2, <4>3, BatchFacts DEF Size
      <4>5. Size(j)' = Size(j)
        BY <2>2, <4>1 DEF Size
      <4> QED BY <2>2, <4>1, <4>3, <4>4, <4>5 DEF BatchOk
    <3> QED BY <3>1, <3>2
  <2>5. ASSUME NEW answer \in {"yes", "no", "rate", "soft", "fatal"}, Reach(j, answer)
        PROVE  BatchOk(j)'
    <3>1. worker[j].next \in Nat /\ worker[j].allowed \in Nat /\ worker[j].skipped \in Nat
      BY <2>2 DEF WorkerRecord
    <3>2. worker[j].pc = "reach"
      BY <2>5 DEF Reach, At
    <3>3. /\ worker[j].next < Count(state.jobs[j].plan)
          /\ worker[j].allowed + worker[j].skipped < Size(j)
      BY <2>3, <3>2 DEF BatchOk
    <3>4. Size(j) \in Nat
      BY <2>2, <3>1, <3>3, BatchFacts DEF Size
    <3>5. /\ worker'[j].next = worker[j].next
          /\ \/ /\ worker'[j].pc = "reached"
                /\ worker'[j].allowed = worker[j].allowed
                /\ worker'[j].skipped = worker[j].skipped
             \/ /\ worker'[j].pc \in {"reach", "reached"}
                /\ \/ /\ worker'[j].allowed = worker[j].allowed + 1
                      /\ worker'[j].skipped = worker[j].skipped
                   \/ /\ worker'[j].allowed = worker[j].allowed
                      /\ worker'[j].skipped = worker[j].skipped + 1
                /\ worker'[j].pc = "reach" =>
                     worker[j].allowed + worker[j].skipped + 1 # Size(j)
      <4>1. \/ worker'[j] = [worker[j] EXCEPT !.pc = "reached", !.result = answer]
            \/ worker'[j] = [worker[j] EXCEPT !.pc = "reached", !.result = CheckError]
            \/ \E pc \in {"reach", "reached"} :
                 /\ pc = "reach" => worker[j].allowed + worker[j].skipped + 1 # Size(j)
                 /\ \/ worker'[j] = [worker[j] EXCEPT !.pc = pc, !.allowed = @ + 1]
                    \/ worker'[j] = [worker[j] EXCEPT !.pc = pc, !.skipped = @ + 1]
        BY <1>0, <2>5 DEF Reach, TypeOK
      <4> QED BY <2>2, <4>1 DEF WorkerRecord
    <3>6. Size(j)' = Size(j)
      BY <2>2, <3>5 DEF Size
    <3> QED BY <2>2, <3>1, <3>3, <3>4, <3>5, <3>6 DEF BatchOk
  <2>6. ASSUME worker'[j].next = worker[j].next, worker'[j].allowed = worker[j].allowed,
               worker'[j].skipped = worker[j].skipped, worker'[j].pc # "reach",
               worker'[j].pc \in InBatch => worker[j].pc \in InBatch
        PROVE  BatchOk(j)'
    BY <2>2, <2>3, <2>6 DEF BatchOk, Size
  <2>7. ASSUME Reached(j) \/ MutateCheck(j) \/ EnterGate(j) PROVE BatchOk(j)'
    BY <1>0, <2>2, <2>6, <2>7 DEF Reached, MutateCheck, EnterGate, Goto, At, TypeOK, WorkerRecord
  <2>8. ASSUME NEW answer \in Result, NEW removed \in BOOLEAN, Answer(j, answer, removed)
        PROVE  BatchOk(j)'
    BY <1>0, <2>2, <2>6, <2>8 DEF Answer, At, TypeOK, WorkerRecord
  <2>9. ASSUME worker'[j].pc \notin InBatch PROVE BatchOk(j)'
    BY <2>9 DEF BatchOk
  <2>10. \/ worker'[j].pc \notin InBatch
         \/ NextBatch(j) \/ Reached(j) \/ MutateCheck(j) \/ EnterGate(j)
         \/ \E answer \in {"yes", "no", "rate", "soft", "fatal"} : Reach(j, answer)
         \/ \E answer \in Result, removed \in BOOLEAN : Answer(j, answer, removed)
    <3>1. CASE RunStart(j) \/ AfterBatch(j) \/ WaitOver(j) \/ Finish(j) \/ NotifyWaiters(j)
      BY <1>0, <2>2, <3>1
      DEF RunStart, AfterBatch, WaitOver, Finish, NotifyWaiters, Goto, TypeOK, WorkerRecord
    <3>2. CASE RunClaim(j)
      <4>1. PICK ok \in BOOLEAN :
              worker' = [worker EXCEPT ![j].pc = IF ok THEN "top" ELSE "fail",
                                       ![j].next = FirstBatch(j)]
        BY <3>2 DEF RunClaim
      <4> QED BY <1>0, <2>2, <4>1 DEF TypeOK, WorkerRecord
    <3>4. CASE SeeCancelled(j) \/ WaitForRetry(j) \/ Progress(j)
      BY <1>0, <2>2, <3>4
      DEF SeeCancelled, WaitForRetry, Progress, PublishJob, TypeOK, WorkerRecord
    <3>3. CASE Resume(j) \/ Finalize(j) \/ RunFailed(j) \/ Unmap(j)
      BY <1>0, <2>2, <3>3
      DEF Resume, Finalize, RunFailed, Unmap, IfUnpublished, PublishJob, NoWorker, TypeOK,
          WorkerRecord
    <3> QED BY <1>3, <3>1, <3>2, <3>3, <3>4 DEF Work
  <2>11. BatchOk(j)'
    BY <2>4, <2>5, <2>7, <2>8, <2>9, <2>10
  <2> QED BY <2>1, <2>11 DEF BatchesOk
<1>4. ASSUME NEW c \in Client, CommandStep(c)
      PROVE  BatchesOk'
  <2>1. ASSUME NEW i \in Job
        PROVE  BatchOk(i)'
    <3>1. CASE Spawned(i)
      BY <3>1 DEF Spawned, BatchOk, NoWorker
    <3>2. CASE Signalled(i)
      BY <1>1, <1>2, <1>4, <3>2 DEF Signalled, CommandStep
    <3> QED BY <1>4, <3>1, <3>2 DEF CommandStep
  <2> QED BY <2>1 DEF BatchesOk
<1>5. CASE Elsewhere
  <2>1. CASE state' = state /\ worker' = worker
    BY <1>0, <2>1 DEF BatchesOk, BatchOk, Size
  <2>2. CASE Volatile
    BY <2>2 DEF Volatile, BatchesOk, BatchOk, NoWorker
  <2>3. CASE ~up /\ worker' = worker
    BY <1>0, <2>3 DEF WorkersOk, WorkerOk, BatchesOk, BatchOk
  <2> QED BY <1>0, <1>5, <2>1, <2>2, <2>3, ElsewhereMoves DEF taskVars
<1> QED BY <1>3, <1>4, <1>5, StepKinds

(* A cancellation that was reported: its worker cannot come back.           *)
LEMMA AckedStep ==
  ASSUME IInv, Next
  PROVE  AckedOk'
<1>0. TypeOK /\ WorkersOk /\ RecordsOk /\ EndsOk /\ CommandsOk /\ AckedOk
  BY DEF IInv
<1> USE DEF Leaving, Outside
<1>1. ASSUME NEW j \in Job, WorkStep(j), Move(j)
      PROVE  AckedOk'
  <2>1. ASSUME NEW i \in acked
        PROVE  Terminal(state'.jobs[i]) /\ worker'[i].pc \in Outside
    <3>1. i \in Job /\ Terminal(state.jobs[i]) /\ worker[i].pc \in Outside
      BY <1>0 DEF AckedOk, TypeOK
    <3>2. CASE i = j
      BY <1>1, <3>1, <3>2 DEF Move, WorkStep, Grown, Over, Loop, InBatch
    <3>3. CASE i # j
      BY <1>1, <3>1, <3>3 DEF WorkStep, Untouched
    <3> QED BY <3>2, <3>3
  <2> QED BY <1>1, <2>1 DEF AckedOk, WorkStep, Terminal
<1>2. ASSUME NEW c \in Client, Handle(c) \/ Invoke(c), CommandStep(c)
      PROVE  AckedOk'
  <2>1. ASSUME NEW i \in acked
        PROVE  Terminal(state'.jobs[i]) /\ worker'[i].pc \in Outside
    BY <1>0, <1>2 DEF AckedOk, TypeOK, CommandStep, Grown, Spawned, Signalled, NoWorker
  <2>2. CASE acked' = acked
    BY <2>1, <2>2 DEF AckedOk, Terminal
  <2>3. CASE CancelCheck(c)
    <3> DEFINE j == call[c].job
    <3>1. j \in Job /\ Terminal(state.jobs[j]) /\ 0 < call[c].spawn /\ call[c].spawn <= control[j].spawn
      BY <1>0, <2>3 DEF CommandsOk, CommandOk, CancelCheck, Calling, AtCancel
    <3>2. call[c].spawn \in Nat /\ control[j].spawn \in Nat
      BY <1>0, <3>1 DEF TypeOK, CallRecord, ControlRecord
    <3>3. control[j].finished \/ ~Holds(c) => worker[j].pc \in Outside
      <4>1. CASE control[j].finished
        BY <1>0, <3>1, <4>1 DEF WorkersOk, WorkerOk
      <4>2. CASE ~Holds(c)
        BY <1>0, <3>1, <3>2, <4>2 DEF Holds, EndsOk, EndOk
      <4> QED BY <4>1, <4>2
    <3>4. state' = state /\ worker' = worker
      BY <2>3 DEF CancelCheck, lifecycleVars, CallFrame
    <3>5. acked' = acked \/ (acked' = acked \cup {j} /\ (control[j].finished \/ ~Holds(c)))
      BY <2>3 DEF CancelCheck
    <3> QED BY <1>0, <3>1, <3>3, <3>4, <3>5 DEF AckedOk, Terminal
  <2>4. acked' = acked \/ CancelCheck(c)
    <3>1. CASE PrepareCommit(c) \/ (\E j \in Job : StartCommit(c, j)) \/ StartRefused(c) \/ StartSchedule(c)
      BY <3>1 DEF PrepareCommit, StartCommit, StartRefused, StartSchedule, observers
    <3>2. CASE (\E j \in Job : RecoverSchedule(c, j)) \/ RecoverReturn(c) \/ CancelCommit(c) \/ CancelSignal(c)
      BY <3>2 DEF RecoverSchedule, RecoverReturn, CancelCommit, CancelSignal, observers
    <3>3. CASE CancelGate(c) \/ CancelArm(c) \/ CancelWake(c) \/ StopFlag(c)
      BY <3>3 DEF CancelGate, CancelArm, CancelWake, StopFlag, observers
    <3>4. CASE StopDrained(c) \/ StopPolls(c) \/ StopClear(c)
      BY <3>4 DEF StopDrained, StopPolls, StopClear, vars, observers
    <3>5. CASE Invoke(c)
      BY <3>5 DEF Invoke, PrepareCall, AuthorizeCall, StartConsume, PromptApproved, CallRefused,
                  RecoverCall, StopCall, CancelCall, observers
    <3> QED BY <1>2, <3>1, <3>2, <3>3, <3>4, <3>5 DEF Handle
  <2> QED BY <2>2, <2>3, <2>4
<1>3. CASE Elsewhere
  <2>1. CASE state' = state /\ UNCHANGED <<worker, acked>>
    BY <1>0, <2>1 DEF AckedOk, Terminal
  <2>2. CASE state' = store /\ Volatile /\ acked' = acked
    BY <1>0, <2>2 DEF Volatile, AckedOk, NoWorker, RecordsOk, Terminal, TypeOK
  <2>3. CASE (state' = state \/ state' = Recovered(state)) /\ UNCHANGED <<worker, acked>>
    <3>1. \A i \in Job : Terminal(state.jobs[i]) => Terminal(state'.jobs[i])
      BY <1>0, <2>3, RecoveredJobs
    <3> QED BY <1>0, <2>3, <3>1 DEF AckedOk, Terminal, TypeOK
  <2> QED BY <1>0, <1>3, <2>1, <2>2, <2>3, ElsewhereMoves DEF taskVars, observers
<1> QED BY <1>1, <1>2, <1>3, StepKinds

(* What a command has established is not undone by anybody else ...         *)
LEMMA CommandKept ==
  ASSUME TypeOK, NEW d \in Client, CommandOk(d), call'[d] = call[d],
         \A i \in Job : Grown(i) /\ (Spawned(i) \/ Signalled(i))
  PROVE  CommandOk(d)'
<1> DEFINE k == call[d]
<1>1. k \in CallRecord
  BY DEF TypeOK
<1>2. CASE k.at \notin AtCancel
  BY <1>2 DEF CommandOk, AtCancel
<1>3. CASE k.at \in AtCancel
  <2>1. k.job \in Job /\ control[k.job] \in ControlRecord
    BY <1>3 DEF CommandOk, TypeOK
  <2>2. Terminal(state.jobs[k.job]) => Terminal(state'.jobs[k.job])
    BY <2>1 DEF Grown
  <2>3. CASE Spawned(k.job)
    <3>1. control'[k.job].spawn = control[k.job].spawn + 1
      BY <2>3 DEF Spawned
    <3>2. k.spawn \in Nat /\ control[k.job].spawn \in Nat
      BY <1>1, <2>1 DEF CallRecord, ControlRecord
    <3>3. k.spawn < control'[k.job].spawn
      BY <1>3, <3>1, <3>2 DEF CommandOk
    <3>4. ~Holds(d)' /\ k.spawn <= control'[k.job].spawn
      BY <3>1, <3>2, <3>3 DEF Holds
    <3> QED BY <1>3, <2>1, <2>2, <3>4 DEF CommandOk, AtCancel, Terminal
  <2>4. CASE Signalled(k.job)
    <3>1. /\ control'[k.job].spawn = control[k.job].spawn
          /\ control[k.job].cancelled => control'[k.job].cancelled
          /\ worker'[k.job] = worker[k.job]
      BY <2>1, <2>4 DEF Signalled, ControlRecord
    <3> QED BY <1>3, <2>1, <2>2, <3>1 DEF CommandOk, AtCancel, Holds, Terminal, InFlight
  <2> QED BY <2>1, <2>3, <2>4
<1> QED BY <1>2, <1>3

(* ... and each of its own steps establishes what the next one relies on.   *)
LEMMA CommandAdvances ==
  ASSUME TypeOK, WorkersOk, NEW c \in Client, CommandOk(c), CommandStep(c),
         Handle(c) \/ Invoke(c)
  PROVE  CommandOk(c)'
<1>0. call[c] \in CallRecord
  BY DEF TypeOK
<1> USE DEF AtCancel
<1>1. ASSUME call'[c] = Idle \/ call'[c].at \in {"recover", "stopFlag", "stopDrain", "stopClear"}
      PROVE  CommandOk(c)'
  BY <1>1 DEF CommandOk, Idle
<1>2. ASSUME call'[c].at \in {"describe", "prompt", "startCommit"}, call'[c].plan \in Plan
      PROVE  CommandOk(c)'
  BY <1>2 DEF CommandOk
<1>3. ASSUME call'[c].at = "schedule", call'[c].job \in Job
      PROVE  CommandOk(c)'
  BY <1>3 DEF CommandOk
<1>4. CASE PrepareCommit(c) \/ StartRefused(c) \/ StartSchedule(c) \/ RecoverReturn(c) \/ StopClear(c)
  BY <1>1, <1>4 DEF PrepareCommit, StartRefused, StartSchedule, RecoverReturn, StopClear, Return,
                    TypeOK
<1>5. CASE PromptApproved(c) \/ CallRefused(c) \/ RecoverCall(c) \/ StopCall(c)
  <2>1. CASE PromptApproved(c) \/ CallRefused(c)
    BY <1>1, <2>1 DEF PromptApproved, CallRefused, Return, TypeOK
  <2>2. CASE RecoverCall(c)
    <3> DEFINE r == [Idle EXCEPT !.at = "recover", !.todo = {j \in Job : Unfinished(state.jobs[j])}]
    <3>1. call'[c] = r
      BY <2>2, BeginEffect DEF RecoverCall
    <3>2. r.at = "recover"
      BY DEF Idle
    <3> QED BY <1>1, <3>1, <3>2
  <2>3. CASE StopCall(c)
    <3>1. call'[c] = [Idle EXCEPT !.at = "stopFlag"]
      BY <2>3, BeginEffect DEF StopCall
    <3> QED BY <1>1, <3>1 DEF Idle
  <2> QED BY <1>5, <2>1, <2>2, <2>3
<1>6. CASE StopFlag(c) \/ StopDrained(c)
  BY <1>0, <1>1, <1>6 DEF StopFlag, StopDrained, Step, TypeOK, CallRecord
<1>7. CASE StopPolls(c)
  BY <1>7, CommandKept DEF StopPolls, vars, CommandStep
<1>8. ASSUME NEW j \in Job, StartCommit(c, j)
      PROVE  CommandOk(c)'
  <2>1. CASE Return(c)
    BY <1>1, <2>1 DEF Return, TypeOK
  <2>2. CASE Begin(c, [Idle EXCEPT !.at = "schedule", !.job = j])
    <3>1. call'[c].at = "schedule" /\ call'[c].job = j
      BY <2>2 DEF Begin, Idle, TypeOK
    <3> QED BY <1>3, <3>1
  <2> QED BY <1>8, <2>1, <2>2 DEF StartCommit
<1>9. ASSUME NEW j \in Job, RecoverSchedule(c, j)
      PROVE  CommandOk(c)'
  BY <1>0, <1>1, <1>9 DEF RecoverSchedule, Calling, TypeOK, CallRecord
<1>10. ASSUME NEW p \in Plan, PrepareCall(c, p) \/ AuthorizeCall(c, p)
       PROVE  CommandOk(c)'
  <2>1. call'[c].at \in {"describe", "prompt"} /\ call'[c].plan = p
    <3>1. \/ call'[c] = [Idle EXCEPT !.at = "describe", !.plan = p]
          \/ call'[c] = [Idle EXCEPT !.at = "prompt", !.plan = p]
      BY <1>10, BeginEffect DEF PrepareCall, AuthorizeCall
    <3> QED BY <3>1 DEF Idle
  <2> QED BY <1>2, <2>1
<1>11. ASSUME NEW p \in Plan, StartConsume(c, p)
       PROVE  CommandOk(c)'
  <2>1. CASE call'[c] = call[c]
    BY <2>1, CommandKept DEF CommandStep
  <2>2. CASE Begin(c, [Idle EXCEPT !.at = "startCommit", !.plan = p])
    BY <1>2, <2>2 DEF Begin, Idle, TypeOK
  <2> QED BY <1>11, <2>1, <2>2 DEF StartConsume
<1>12. ASSUME NEW j \in Job, CancelCall(c, j)
       PROVE  CommandOk(c)'
  <2>1. /\ call'[c].at = "cancelCommit" /\ call'[c].job = j
        /\ call'[c].spawn = control[j].spawn /\ control'[j].spawn = control[j].spawn
    BY <1>12 DEF CancelCall, Begin, Idle, TypeOK
  <2>2. control[j].spawn \in Nat /\ control[j].spawn > 0
    BY <1>12 DEF CancelCall, WorkersOk, WorkerOk, TypeOK, ControlRecord
  <2> QED BY <2>1, <2>2 DEF CommandOk
<1>13. ASSUME call[c].at \in AtCancel
       PROVE  /\ call[c].job \in Job /\ control[call[c].job] \in ControlRecord
              /\ state.jobs[call[c].job] \in JobRecord
              /\ call[c].spawn \in Nat /\ control[call[c].job].spawn \in Nat
              /\ 0 < call[c].spawn /\ call[c].spawn <= control[call[c].job].spawn
  BY <1>0, <1>13 DEF CommandOk, TypeOK, CallRecord, ControlRecord, Projection
<1>14. CASE CancelCommit(c)
  <2>1. call[c].at = "cancelCommit"
    BY <1>14 DEF CancelCommit, Calling
  <2> DEFINE j == call[c].job
             job == Cancelled(state.jobs[j])
  <2>2. CASE Return(c)
    BY <1>1, <2>2 DEF Return, TypeOK
  <2>3. CASE Publish(WithJob(j, job), TRUE) /\ Step(c, "cancelSignal")
    <3>1. job \in JobRecord /\ Terminal(job)
      BY <1>13, <2>1, JobForms, EditsKeepPlan DEF Cancelled, Terminal, TerminalStatus, JobRecord
    <3>2. JobStep(j, job, TRUE)
      BY <1>13, <2>1, <2>3, <3>1, PublishJobStep
    <3>3. Terminal(state'.jobs[j])
      BY <3>1, <3>2 DEF JobStep
    <3>4. call'[c] = [call[c] EXCEPT !.at = "cancelSignal"] /\ control' = control
      BY <1>14, <2>3 DEF Step, CancelCommit, TypeOK
    <3>5. /\ call'[c].at = "cancelSignal" /\ call'[c].job = call[c].job
          /\ call'[c].spawn = call[c].spawn
      BY <1>0, <3>4 DEF CallRecord
    <3> QED BY <1>13, <2>1, <3>3, <3>4, <3>5 DEF CommandOk, Terminal
  <2> QED BY <1>14, <2>2, <2>3 DEF CancelCommit
<1>15. CASE CancelSignal(c)
  <2>1. call[c].at = "cancelSignal"
    BY <1>15 DEF CancelSignal, Calling
  <2>2. /\ call'[c].at = "cancelGate" /\ call'[c].job = call[c].job
        /\ call'[c].spawn = call[c].spawn
    BY <1>0, <1>15 DEF CancelSignal, Step, TypeOK, CallRecord
  <2>3. /\ control'[call[c].job].spawn = control[call[c].job].spawn
        /\ Holds(c) => control'[call[c].job].cancelled
    BY <1>13, <1>15, <2>1 DEF CancelSignal, TypeOK, ControlRecord
  <2>4. state' = state /\ Terminal(state.jobs[call[c].job])
    BY <1>15, <2>1 DEF CancelSignal, lifecycleVars, CommandOk
  <2> QED BY <1>13, <2>1, <2>2, <2>3, <2>4 DEF CommandOk, Holds, Terminal
<1>16. CASE CancelGate(c)
  <2>1. call[c].at = "cancelGate"
    BY <1>16 DEF CancelGate, Calling
  <2>2. /\ call'[c].at = "cancelArm" /\ call'[c].job = call[c].job
        /\ call'[c].spawn = call[c].spawn
    BY <1>0, <1>16 DEF CancelGate, Step, TypeOK, CallRecord
  <2>3. state' = state /\ control' = control /\ worker' = worker
    BY <1>16 DEF CancelGate, lifecycleVars, CallFrame
  <2>4. Holds(c) => ~InFlight(call[c].job)
    BY <1>16 DEF CancelGate
  <2> QED BY <1>13, <2>1, <2>2, <2>3, <2>4 DEF CommandOk, Holds, Terminal, InFlight
<1>17. CASE CancelArm(c) \/ CancelWake(c)
  <2>1. call[c].at \in {"cancelArm", "cancelParked"}
    BY <1>17 DEF CancelArm, CancelWake, Calling
  <2>2. /\ call'[c].at \in {"cancelCheck", "cancelArm"} /\ call'[c].job = call[c].job
        /\ call'[c].spawn = call[c].spawn
    BY <1>0, <1>17 DEF CancelArm, CancelWake, Step, TypeOK, CallRecord
  <2>3. state' = state /\ control' = control /\ worker' = worker
    BY <1>17 DEF CancelArm, CancelWake, lifecycleVars, CallFrame
  <2> QED BY <1>13, <2>1, <2>2, <2>3 DEF CommandOk, Holds, Terminal, InFlight
<1>18. CASE CancelCheck(c)
  <2>1. call[c].at = "cancelCheck"
    BY <1>18 DEF CancelCheck, Calling
  <2>2. CASE Return(c)
    BY <1>1, <2>2 DEF Return, TypeOK
  <2>3. CASE Step(c, "cancelParked")
    <3>1. /\ call'[c].at = "cancelParked" /\ call'[c].job = call[c].job
          /\ call'[c].spawn = call[c].spawn
      BY <1>0, <2>3 DEF Step, TypeOK, CallRecord
    <3>2. state' = state /\ control' = control /\ worker' = worker
      BY <1>18 DEF CancelCheck, lifecycleVars, CallFrame
    <3> QED BY <1>13, <2>1, <3>1, <3>2 DEF CommandOk, Holds, Terminal, InFlight
  <2> QED BY <1>18, <2>2, <2>3 DEF CancelCheck
<1> QED
  BY <1>4, <1>5, <1>6, <1>7, <1>8, <1>9, <1>10, <1>11, <1>12, <1>14, <1>15, <1>16, <1>17, <1>18
  DEF Handle, Invoke

(* Commands: what every handler has established stays established.          *)
LEMMA CommandsStep ==
  ASSUME IInv, Next
  PROVE  CommandsOk'
<1>0. TypeOK /\ WorkersOk /\ RecordsOk /\ CommandsOk
  BY DEF IInv
<1>1. ASSUME NEW j \in Job, WorkStep(j), Move(j)
      PROVE  CommandsOk'
  <2>1. ASSUME NEW i \in Job
        PROVE  /\ control'[i].spawn = control[i].spawn
               /\ control'[i].cancelled = control[i].cancelled
               /\ Terminal(state.jobs[i]) => Terminal(state'.jobs[i])
               /\ InFlight(i)' => InFlight(i) \/ ~control[i].cancelled
    <3>1. CASE i = j
      BY <1>0, <1>1, <3>1 DEF Move, WorkStep, Grown, InFlight, TypeOK, ControlRecord, Loop, InBatch
    <3>2. CASE i # j
      BY <1>1, <3>2 DEF WorkStep, Untouched, InFlight
    <3> QED BY <3>1, <3>2
  <2>2. call' = call
    BY <1>1 DEF WorkStep
  <2> QED BY <1>0, <2>1, <2>2 DEF CommandsOk, CommandOk, AtCancel, Holds, Terminal, InFlight
<1>2. ASSUME NEW c \in Client, Handle(c) \/ Invoke(c), CommandStep(c)
      PROVE  CommandsOk'
  BY <1>0, <1>2, CommandKept, CommandAdvances DEF CommandStep, CommandsOk
<1>3. CASE Elsewhere
  <2>1. CASE state' = state /\ UNCHANGED <<control, worker, call>>
    BY <1>0, <2>1 DEF CommandsOk, CommandOk, AtCancel, Holds, Terminal, InFlight
  <2>2. CASE Volatile
    BY <2>2 DEF Volatile, CommandsOk, CommandOk, Idle, AtCancel
  <2>3. CASE (state' = state \/ state' = Recovered(state)) /\ UNCHANGED <<control, worker, call>>
    <3>1. \A i \in Job : Terminal(state.jobs[i]) => Terminal(state'.jobs[i])
      BY <1>0, <2>3, RecoveredJobs
    <3> QED BY <1>0, <2>3, <3>1 DEF CommandsOk, CommandOk, AtCancel, Holds, Terminal, InFlight
  <2> QED BY <1>0, <1>3, <2>1, <2>2, <2>3, ElsewhereMoves DEF taskVars
<1> QED BY <1>1, <1>2, <1>3, StepKinds

(* Authority: only a prompt approves, only a start makes a job to run.      *)
LEMMA AuthorityKept ==
  ASSUME TypeOK, AuthorityOk, NEW c \in Client, CommandStep(c), UNCHANGED <<started, approvals>>,
         \A p \in Plan : grants'[p] = "live" => grants[p] = "live",
         \A i \in Job : Unfinished(state'.jobs[i]) => Unfinished(state.jobs[i]),
         call'[c].todo \subseteq started,
         call'[c].at = "schedule" => call'[c].job \in started,
         call'[c].at = "startCommit" => approvals[call'[c].plan] > 0
  PROVE  AuthorityOk'
<1>1. \A j \in started : Present(state'.jobs[j]) /\ approvals[state'.jobs[j].plan] > 0
  BY DEF CommandStep, Grown, AuthorityOk, TypeOK
<1>2. \A j \in Job : worker'[j].pc # "off" => j \in started
  BY DEF CommandStep, Spawned, Signalled, AuthorityOk
<1>3. \A d \in Client \ {c} : call'[d] = call[d]
  BY DEF CommandStep
<1> QED BY <1>1, <1>2, <1>3 DEF AuthorityOk, CommandStep, Present, Unfinished, Terminal

(* Authority: every step keeps it.                                          *)
LEMMA AuthorityStep ==
  ASSUME IInv, Next
  PROVE  AuthorityOk'
<1>0. TypeOK /\ AuthorityOk /\ CommandsOk /\ WorkersOk /\ RecordsOk
  BY DEF IInv
<1>1. ASSUME NEW j \in Job, WorkStep(j), Move(j)
      PROVE  AuthorityOk'
  <2>1. worker[j].pc # "off" /\ j \in started
    BY <1>0, <1>1 DEF Move, Loop, InBatch, AuthorityOk
  <2>2. \A i \in Job \ {j} : worker'[i] = worker[i] /\ state'.jobs[i] = state.jobs[i]
    BY <1>1 DEF WorkStep, Untouched
  <2>3. \A i \in started : Present(state'.jobs[i]) /\ state'.jobs[i].plan = state.jobs[i].plan
    BY <1>0, <1>1, <2>2 DEF WorkStep, Grown, AuthorityOk, TypeOK
  <2> QED BY <1>0, <1>1, <2>1, <2>2, <2>3 DEF AuthorityOk, WorkStep, Present, Unfinished, Terminal
<1>2. ASSUME NEW c \in Client, Handle(c) \/ Invoke(c), CommandStep(c)
      PROVE  AuthorityOk'
  <2>0. /\ call[c] \in CallRecord /\ call[c].todo \subseteq started
        /\ call[c].at = "schedule" => call[c].job \in started
        /\ call[c].at = "startCommit" => approvals[call[c].plan] > 0
    BY <1>0 DEF TypeOK, AuthorityOk
  <2>1. ASSUME UNCHANGED <<state, started, approvals, grants>>,
               \/ call'[c] = Idle \/ call'[c] = call[c]
               \/ /\ call'[c].at \notin {"schedule", "startCommit"}
                  /\ call'[c].todo \subseteq started
        PROVE  AuthorityOk'
    BY <1>0, <1>2, <2>0, <2>1, AuthorityKept DEF Idle
  <2>2. CASE StartRefused(c) \/ StartSchedule(c) \/ RecoverReturn(c) \/ CallRefused(c)
    BY <2>1, <2>2 DEF StartRefused, StartSchedule, RecoverReturn, CallRefused, Return,
                      lifecycleVars, observers, TypeOK, IInv
  <2>3. ASSUME NEW at \in CallPc \ {"schedule", "startCommit"}, Step(c, at),
               UNCHANGED <<state, started, approvals, grants>>
        PROVE  AuthorityOk'
    <3>1. call'[c].at = at /\ call'[c].todo = call[c].todo
      BY <1>0, <2>0, <2>3 DEF Step, TypeOK, CallRecord
    <3> QED BY <2>0, <2>1, <2>3, <3>1
  <2>4. CASE CancelSignal(c) \/ CancelGate(c) \/ CancelArm(c) \/ CancelWake(c)
    BY <2>3, <2>4 DEF CancelSignal, CancelGate, CancelArm, CancelWake, lifecycleVars, observers,
                      CallPc
  <2>5. CASE StopFlag(c) \/ StopDrained(c)
    BY <2>3, <2>5 DEF StopFlag, StopDrained, lifecycleVars, observers, CallPc
  <2>6. CASE CancelCheck(c)
    BY <1>0, <2>1, <2>3, <2>6 DEF CancelCheck, Return, lifecycleVars, CallPc, TypeOK
  <2>7. CASE StopPolls(c)
    BY <2>1, <2>7 DEF StopPolls, vars
  <2>8. CASE StopClear(c)
    <3>1. call'[c] = Idle /\ UNCHANGED <<state, started, approvals>>
      BY <1>0, <2>8 DEF StopClear, Return, observers, TypeOK
    <3> QED BY <1>0, <1>2, <2>8, <3>1, AuthorityKept DEF StopClear, Idle
  <2>9. ASSUME NEW j \in Job, RecoverSchedule(c, j)
        PROVE  AuthorityOk'
    <3>1. call'[c].at = call[c].at /\ call'[c].todo \subseteq call[c].todo /\ call[c].at = "recover"
      BY <1>0, <2>0, <2>9 DEF RecoverSchedule, Calling, TypeOK, CallRecord
    <3> QED BY <2>0, <2>1, <2>9, <3>1 DEF RecoverSchedule, lifecycleVars, observers
  <2>10. CASE RecoverCall(c) \/ StopCall(c)
    <3> DEFINE unfinished == {j \in Job : Unfinished(state.jobs[j])}
    <3>1. call'[c].at \in {"recover", "stopFlag"} /\ call'[c].todo \subseteq unfinished
      <4>1. \/ call'[c] = [Idle EXCEPT !.at = "recover", !.todo = unfinished]
            \/ call'[c] = [Idle EXCEPT !.at = "stopFlag"]
        BY <1>0, <2>10 DEF RecoverCall, StopCall, Begin, TypeOK
      <4> HIDE DEF unfinished
      <4> QED BY <4>1 DEF Idle
    <3>2. up
      BY <2>10 DEF RecoverCall, StopCall, Calling
    <3>3. call'[c].todo \subseteq started
      BY <1>0, <3>1, <3>2 DEF AuthorityOk
    <3> QED BY <2>1, <2>10, <3>1, <3>3 DEF RecoverCall, StopCall, lifecycleVars, observers
  <2>11. ASSUME NEW p \in Plan, PrepareCall(c, p) \/ AuthorizeCall(c, p)
         PROVE  AuthorityOk'
    <3>1. \/ call'[c] = [Idle EXCEPT !.at = "describe", !.plan = p]
          \/ call'[c] = [Idle EXCEPT !.at = "prompt", !.plan = p]
      BY <1>0, <2>11, BeginEffect DEF PrepareCall, AuthorizeCall
    <3>2. call'[c].at \in {"describe", "prompt"} /\ call'[c].todo = {}
      BY <3>1 DEF Idle
    <3> QED BY <2>1, <2>11, <3>2 DEF PrepareCall, AuthorizeCall, lifecycleVars, observers
  <2>12. ASSUME NEW j \in Job, CancelCall(c, j)
         PROVE  AuthorityOk'
    <3>1. call'[c].at = "cancelCommit" /\ call'[c].todo = {}
      BY <1>0, <2>12 DEF CancelCall, Begin, Idle, TypeOK
    <3> QED BY <2>1, <2>12, <3>1 DEF CancelCall, lifecycleVars, observers
  <2>13. CASE PromptApproved(c)
    <3>1. /\ call'[c] = Idle /\ call[c].plan \in Plan
          /\ UNCHANGED <<state, started, worker>>
      BY <1>0, <2>13 DEF PromptApproved, Return, CallFrame, Calling, CommandsOk, CommandOk, TypeOK
    <3>2. \A p \in Plan : approvals'[p] >= approvals[p]
      BY <1>0, <2>13 DEF PromptApproved, TypeOK
    <3>3. approvals'[call[c].plan] > 0
      BY <1>0, <2>13, <3>1 DEF PromptApproved, TypeOK
    <3>4. \A p \in Plan \ {call[c].plan} : grants'[p] = grants[p]
      BY <1>0, <2>13, <3>1 DEF PromptApproved, TypeOK
    <3>5. \A p \in Plan : approvals[p] \in Nat /\ approvals'[p] \in Nat
      BY <1>0, <2>13, <3>1 DEF PromptApproved, TypeOK
    <3>6. \A p \in Plan : approvals[p] > 0 => approvals'[p] > 0
      BY <3>2, <3>5
    <3>7. \A i \in started : Present(state.jobs[i]) /\ state.jobs[i].plan \in Plan
      BY <1>0 DEF AuthorityOk, RecordsOk, Valid, TypeOK
    <3>8. \A d \in Client : call[d].at = "startCommit" => call[d].plan \in Plan
      BY <1>0 DEF CommandsOk, CommandOk
    <3>9. \A d \in Client \ {c} : call'[d] = call[d]
      BY <1>2 DEF CommandStep
    <3>10. up' = up
      BY <1>2 DEF CommandStep
    <3>11. \A j \in started : Present(state'.jobs[j]) /\ approvals'[state'.jobs[j].plan] > 0
      BY <1>0, <3>1, <3>6, <3>7 DEF AuthorityOk
    <3>12. \A p \in Plan : grants'[p] = "live" => approvals'[p] > 0
      BY <1>0, <3>3, <3>4, <3>6 DEF AuthorityOk
    <3>13. \A d \in Client : /\ call'[d].todo \subseteq started
                             /\ call'[d].at = "schedule" => call'[d].job \in started
                             /\ call'[d].at = "startCommit" => approvals'[call'[d].plan] > 0
      BY <1>0, <3>1, <3>6, <3>8, <3>9 DEF AuthorityOk, Idle
    <3> QED BY <1>0, <3>1, <3>10, <3>11, <3>12, <3>13
            DEF AuthorityOk, Present, Unfinished, Terminal
  <2>14. ASSUME NEW p \in Plan, StartConsume(c, p)
         PROVE  AuthorityOk'
    <3>1. /\ UNCHANGED <<state, started, approvals>>
          /\ \A q \in Plan : grants'[q] = "live" => grants[q] = "live"
      BY <1>0, <2>14 DEF StartConsume, Consumed, observers, TypeOK
    <3>2. CASE call'[c] = call[c]
      BY <1>0, <1>2, <2>0, <3>1, <3>2, AuthorityKept
    <3>3. CASE grants[p] = "live" /\ Begin(c, [Idle EXCEPT !.at = "startCommit", !.plan = p])
      <4>1. call'[c].at = "startCommit" /\ call'[c].plan = p /\ call'[c].todo = {}
        BY <1>0, <3>3 DEF Begin, Idle, TypeOK
      <4>2. approvals[p] > 0
        BY <1>0, <3>3 DEF AuthorityOk
      <4> QED BY <1>0, <1>2, <3>1, <4>1, <4>2, AuthorityKept
    <3> QED BY <2>14, <3>2, <3>3 DEF StartConsume
  <2>15. CASE PrepareCommit(c)
    <3>1. call'[c] = Idle /\ UNCHANGED <<grants, started, approvals>>
      BY <1>0, <2>15 DEF PrepareCommit, Return, observers, TypeOK
    <3>2. state'.jobs = state.jobs
      <4>1. CASE Check
        <5>1. call[c].plan \in Plan
          BY <1>0, <2>15 DEF PrepareCommit, Calling, CommandsOk, CommandOk
        <5>2. [state EXCEPT !.plans = @ \cup {call[c].plan}] \in Projection
          BY <1>0, <5>1 DEF TypeOK, Projection
        <5> QED BY <1>0, <2>15, <4>1, <5>2, PublishEffect DEF PrepareCommit, TypeOK, Projection
      <4>2. CASE ~Check
        BY <2>15, <4>2 DEF PrepareCommit
      <4> QED BY <4>1, <4>2
    <3> QED BY <1>0, <1>2, <3>1, <3>2, AuthorityKept DEF Idle
  <2>16. CASE CancelCommit(c)
    <3> DEFINE j == call[c].job
               job == Cancelled(state.jobs[j])
    <3>1. j \in Job /\ state.jobs[j] \in JobRecord
      BY <1>0, <2>16 DEF CancelCommit, Calling, CommandsOk, CommandOk, AtCancel, TypeOK, Projection
    <3>2. PICK ok \in BOOLEAN : Publish(WithJob(j, job), ok)
      BY <2>16 DEF CancelCommit
    <3>3. JobStep(j, job, ok) /\ Terminal(job)
      <4>1. job \in JobRecord
        BY <3>1, JobForms
      <4>2. Terminal(job)
        BY <3>1 DEF Cancelled, JobRecord, Terminal, TerminalStatus
      <4> QED BY <1>0, <3>1, <3>2, <4>1, <4>2, PublishJobStep
    <3>4. \A i \in Job : Unfinished(state'.jobs[i]) => Unfinished(state.jobs[i])
      <4> HIDE DEF job, j
      <4> QED BY <3>1, <3>3 DEF JobStep, Unfinished
    <3>5. /\ call'[c].at \in {"idle", "cancelSignal"} /\ call'[c].todo \subseteq started
          /\ UNCHANGED <<grants, started, approvals>>
      BY <1>0, <2>0, <2>16 DEF CancelCommit, Return, Step, Idle, observers, TypeOK, CallRecord
    <3> QED BY <1>0, <1>2, <3>4, <3>5, AuthorityKept
  <2>17. ASSUME NEW j \in Job, StartCommit(c, j)
         PROVE  AuthorityOk'
    <3> DEFINE p == call[c].plan
    <3>1. p \in Plan /\ approvals[p] > 0 /\ UNCHANGED <<grants, approvals, worker>>
      BY <1>0, <2>0, <2>17 DEF StartCommit, Calling, CommandsOk, CommandOk, CallFrame
    <3>2. PICK ok \in BOOLEAN :
            /\ Publish(WithJob(j, NewJob(p)), ok)
            /\ IF ok THEN /\ Begin(c, [Idle EXCEPT !.at = "schedule", !.job = j])
                          /\ started' = started \cup {j}
                     ELSE Return(c) /\ UNCHANGED started
      BY <2>17 DEF StartCommit
    <3>3. JobStep(j, NewJob(p), ok)
      BY <1>0, <3>1, <3>2, NewJobForm, PublishJobStep
    <3>4. CASE ok
      <4>1. state'.jobs[j] = NewJob(p) /\ \A i \in Job \ {j} : state'.jobs[i] = state.jobs[i]
        BY <3>3, <3>4 DEF JobStep
      <4>2. Present(NewJob(p)) /\ NewJob(p).plan = p
        BY DEF NewJob, NoJob, Present
      <4>3. /\ call'[c].at = "schedule" /\ call'[c].job = j /\ call'[c].todo = {}
            /\ started' = started \cup {j}
        <5>1. call'[c] = [Idle EXCEPT !.at = "schedule", !.job = j]
          BY <1>0, <3>2, <3>4, BeginEffect
        <5> QED BY <3>2, <3>4, <5>1 DEF Idle
      <4>4. \A d \in Client \ {c} : call'[d] = call[d]
        BY <1>2 DEF CommandStep
      <4>5. \A i \in started' : Present(state'.jobs[i]) /\ approvals[state'.jobs[i].plan] > 0
        BY <1>0, <3>1, <4>1, <4>2, <4>3 DEF AuthorityOk, TypeOK
      <4> HIDE DEF p
      <4> QED BY <1>0, <1>2, <3>1, <4>1, <4>3, <4>4, <4>5
              DEF AuthorityOk, CommandStep, Present, Unfinished, Terminal
    <3>5. CASE ~ok
      <4>1. \A i \in Job : state'.jobs[i] = state.jobs[i]
        BY <3>3, <3>5 DEF JobStep
      <4>2. call'[c] = Idle /\ started' = started
        BY <1>0, <3>2, <3>5 DEF Return, TypeOK
      <4> QED BY <1>0, <1>2, <3>1, <4>1, <4>2, AuthorityKept DEF Idle
    <3> QED BY <3>4, <3>5
  <2> QED
    BY <1>2, <2>2, <2>4, <2>5, <2>6, <2>7, <2>8, <2>9, <2>10, <2>11, <2>12, <2>13, <2>14, <2>15,
       <2>16, <2>17
    DEF Handle, Invoke
<1>3. CASE Elsewhere
  <2>1. ASSUME NEW p \in Plan, GrantExpires(p)
        PROVE  AuthorityOk'
    <3>1. \A q \in Plan : grants'[q] = "live" => grants[q] = "live"
      BY <1>0, <2>1 DEF GrantExpires, TypeOK
    <3> QED BY <1>0, <2>1, <3>1
            DEF GrantExpires, AuthorityOk, taskVars, observers, Present, Unfinished, Terminal
  <2>2. ASSUME NEW landed \in SUBSET Job, Crash(landed)
        PROVE  AuthorityOk'
    BY <2>2 DEF Crash, Volatile, AuthorityOk, NoWorker, Idle
  <2>3. CASE Open \/ OpenFails
    <3>1. \A j \in Job : /\ Present(state.jobs[j]) => /\ Present(state'.jobs[j])
                                                     /\ state'.jobs[j].plan = state.jobs[j].plan
                         /\ up' => ~Unfinished(state'.jobs[j])
      BY <1>0, <2>3, RecoveredJobs DEF Open, OpenFails, RecordsOk
    <3>2. UNCHANGED <<grants, approvals, started, worker, call>>
      BY <2>3 DEF Open, OpenFails, taskVars, observers
    <3> QED BY <1>0, <3>1, <3>2 DEF AuthorityOk, Present, Unfinished, Terminal, TypeOK
  <2>4. CASE AtRest
    BY <1>0, <2>4 DEF AtRest, vars, AuthorityOk, Present, Unfinished, Terminal
  <2> QED BY <1>3, <2>1, <2>2, <2>3, <2>4 DEF Elsewhere
<1> QED BY <1>1, <1>2, <1>3, StepKinds

(* A prepared plan leaves the jobs alone.                                   *)
LEMMA PrepareKeepsJobs ==
  ASSUME TypeOK, CommandsOk, NEW c \in Client, PrepareCommit(c)
  PROVE  state'.jobs = state.jobs /\ store'.jobs \in {state.jobs, store.jobs}
<1>1. CASE Check
  <2>1. call[c].plan \in Plan
    BY DEF PrepareCommit, Calling, CommandsOk, CommandOk
  <2>2. [state EXCEPT !.plans = @ \cup {call[c].plan}] \in Projection
    BY <2>1 DEF TypeOK, Projection
  <2> QED BY <1>1, <2>2, PublishEffect DEF PrepareCommit, TypeOK, Projection
<1>2. CASE ~Check
  BY <1>2 DEF PrepareCommit
<1> QED BY <1>1, <1>2

(* The commands that may publish.                                           *)
LEMMA Publishers ==
  ASSUME NEW c \in Client, Handle(c) \/ Invoke(c)
  PROVE  \/ state' = state /\ store' = store
         \/ PrepareCommit(c) \/ CancelCommit(c) \/ \E j \in Job : StartCommit(c, j)
<1>1. CASE StartRefused(c) \/ StartSchedule(c) \/ RecoverReturn(c) \/ CancelSignal(c)
  BY <1>1 DEF StartRefused, StartSchedule, RecoverReturn, CancelSignal, lifecycleVars
<1>2. CASE CancelGate(c) \/ CancelArm(c) \/ CancelCheck(c) \/ CancelWake(c) \/ StopFlag(c)
  BY <1>2 DEF CancelGate, CancelArm, CancelCheck, CancelWake, StopFlag, lifecycleVars
<1>3. CASE StopDrained(c) \/ StopPolls(c) \/ StopClear(c) \/ (\E j \in Job : RecoverSchedule(c, j))
  BY <1>3 DEF StopDrained, StopPolls, StopClear, RecoverSchedule, lifecycleVars, vars
<1>4. CASE Invoke(c)
  BY <1>4 DEF Invoke, PrepareCall, AuthorizeCall, StartConsume, PromptApproved, CallRefused,
              RecoverCall, StopCall, CancelCall, lifecycleVars
<1> QED BY <1>1, <1>2, <1>3, <1>4 DEF Handle

(* Deletions: the counter moves only by what was confirmed.                 *)
LEMMA DeletionKept ==
  ASSUME TypeOK, NEW j \in Job, DeletionOk(j), NEW job \in JobRecord, NEW ok \in BOOLEAN,
         JobStep(j, job, ok), job.deleted <= applied[j],
         applied'[j] = applied[j], worker'[j].pc # "settle"
  PROVE  DeletionOk(j)'
<1>1. state.jobs[j].deleted \in Nat /\ store.jobs[j].deleted \in Nat /\ job.deleted \in Nat
  BY DEF TypeOK, Projection, JobRecord
<1>2. state'.jobs[j] \in {state.jobs[j], job} /\ store'.jobs[j] \in {store.jobs[j], job}
  BY DEF JobStep
<1> QED BY <1>1, <1>2 DEF DeletionOk

(* The edits of a job that leave its deletions alone.                       *)
LEMMA FormsKeepDeleted ==
  ASSUME NEW job \in JobRecord
  PROVE  /\ \A s \in {"Running", "Queued", "Partial", "Completed"}, r \in BOOLEAN :
              [job EXCEPT !.status = s, !.retry = r].deleted = job.deleted
         /\ [job EXCEPT !.status = "Running"].deleted = job.deleted
         /\ Cancelled(job).deleted = job.deleted
         /\ Stopped(job).deleted = job.deleted
         /\ Closed(job).deleted = job.deleted
BY DEF JobRecord, Cancelled, Stopped, Closed

(* What a settled batch adds to the deletions of its job.                   *)
LEMMA ProgressedDeleted ==
  ASSUME NEW j \in Job, state.jobs[j] \in JobRecord, Progressed(j) \in JobRecord
  PROVE  Progressed(j).deleted = state.jobs[j].deleted + DeletedNow(j)
BY DEF Progressed, JobRecord, Stopped

(* Deletions: every step keeps the counters below what was removed.         *)
LEMMA DeletionsStep ==
  ASSUME IInv, Next
  PROVE  DeletionsOk'
<1>0. TypeOK /\ RecordsOk /\ WorkersOk /\ BatchesOk /\ CommandsOk /\ DeletionsOk
  BY DEF IInv
<1>1. ASSUME NEW j \in Job, Work(j), WorkStep(j)
      PROVE  DeletionsOk'
  <2>1. \A i \in Job \ {j} : DeletionOk(i)'
    BY <1>0, <1>1 DEF WorkStep, Untouched, DeletionsOk, DeletionOk
  <2>2. /\ DeletionOk(j) /\ worker[j] \in WorkerRecord /\ state.jobs[j] \in JobRecord
        /\ worker[j].allowed \in Nat /\ applied[j] \in Nat
        /\ state.jobs[j].deleted \in Nat /\ store.jobs[j].deleted \in Nat
    BY <1>0 DEF DeletionsOk, TypeOK, Projection, WorkerRecord, JobRecord
  <2>3. ASSUME NEW job \in JobRecord, NEW then \in WorkerPc, NEW else \in WorkerPc,
               PublishJob(j, job, then, else), applied' = applied,
               then # "settle", else # "settle", job.deleted <= applied[j]
        PROVE  DeletionOk(j)'
    <3>1. PICK ok \in BOOLEAN : /\ Publish(WithJob(j, job), ok)
                                /\ worker' = [worker EXCEPT ![j].pc = IF ok THEN then ELSE else]
      BY <2>3 DEF PublishJob
    <3>2. JobStep(j, job, ok)
      BY <1>0, <3>1, PublishJobStep
    <3>3. worker'[j].pc # "settle"
      BY <1>0, <2>2, <2>3, <3>1 DEF TypeOK, WorkerRecord
    <3> QED BY <1>0, <2>2, <2>3, <3>2, <3>3, DeletionKept
  <2>4. state.jobs[j].deleted <= applied[j]
    BY <2>2 DEF DeletionOk
  <2>5. ASSUME SeeCancelled(j) \/ WaitForRetry(j) \/ Resume(j) \/ Finalize(j) \/ RunFailed(j)
        PROVE  DeletionOk(j)'
    <3>1. CASE SeeCancelled(j)
      BY <2>2, <2>3, <2>4, <3>1, JobForms, FormsKeepDeleted DEF SeeCancelled, WorkerPc
    <3>2. CASE WaitForRetry(j)
      BY <2>2, <2>3, <2>4, <3>2, JobForms, FormsKeepDeleted DEF WaitForRetry, WorkerPc
    <3>3. CASE Resume(j)
      BY <2>2, <2>3, <2>4, <3>3, JobForms, FormsKeepDeleted DEF Resume, WorkerPc
    <3>4. CASE Finalize(j)
      BY <2>2, <2>3, <2>4, <3>4, JobForms, FormsKeepDeleted DEF Finalize, WorkerPc
    <3>5. CASE RunFailed(j)
      BY <2>2, <2>3, <2>4, <3>5, JobForms, FormsKeepDeleted DEF RunFailed, IfUnpublished, WorkerPc
    <3> QED BY <2>5, <3>1, <3>2, <3>3, <3>4, <3>5
  <2>6. ASSUME Progress(j)
        PROVE  DeletionOk(j)'
    <3>1. Progressed(j) \in JobRecord
      BY <1>0, <2>6, ProgressedForm DEF Progress, At
    <3>2. state.jobs[j].deleted + DeletedNow(j) <= applied[j]
      BY <2>2, <2>6 DEF Progress, At, DeletionOk, DeletedNow
    <3> QED BY <2>2, <2>3, <2>6, <3>1, <3>2, ProgressedDeleted DEF Progress, WorkerPc
  <2>7. ASSUME RunClaim(j)
        PROVE  DeletionOk(j)'
    <3> DEFINE job == [state.jobs[j] EXCEPT !.status = "Running"]
    <3>1. PICK ok \in BOOLEAN :
            /\ Publish(WithJob(j, job), ok)
            /\ worker' = [worker EXCEPT ![j].pc = IF ok THEN "top" ELSE "fail",
                                       ![j].next = FirstBatch(j)]
      BY <2>7 DEF RunClaim
    <3>2. worker'[j].pc # "settle"
      BY <1>0, <2>2, <3>1 DEF TypeOK, WorkerRecord
    <3>3. job \in JobRecord /\ job.deleted = state.jobs[j].deleted
      BY <2>2, JobForms, FormsKeepDeleted
    <3>4. JobStep(j, job, ok)
      BY <1>0, <3>1, <3>3, PublishJobStep
    <3> QED BY <1>0, <2>2, <2>4, <2>7, <3>2, <3>3, <3>4, DeletionKept DEF RunClaim
  <2>8. ASSUME NEW answer \in Result, NEW removed \in BOOLEAN, Answer(j, answer, removed)
        PROVE  DeletionOk(j)'
    <3>1. state' = state /\ store' = store
      BY <2>8 DEF Answer
    <3>2. /\ worker'[j].allowed = worker[j].allowed
          /\ worker'[j].result = "ok" => removed
      BY <1>0, <2>2, <2>8 DEF Answer, Believed, TypeOK, WorkerRecord
    <3>3. \/ worker'[j].result # "ok" /\ applied'[j] = applied[j]
          \/ applied'[j] = applied[j] + (IF removed THEN worker[j].allowed ELSE 0)
      BY <1>0, <2>8 DEF Answer, Believed, TypeOK, WorkerRecord
    <3>4. CASE applied'[j] = applied[j] + (IF removed THEN worker[j].allowed ELSE 0)
      BY <2>2, <3>1, <3>2, <3>4 DEF DeletionOk
    <3>5. CASE worker'[j].result # "ok" /\ applied'[j] = applied[j]
      BY <2>2, <3>1, <3>5 DEF DeletionOk
    <3> QED BY <3>3, <3>4, <3>5
  <2>9. ASSUME UNCHANGED <<state, store, applied>>,
               worker'[j].pc = "settle" /\ worker'[j].result = "ok" => worker'[j].allowed = 0
        PROVE  DeletionOk(j)'
    BY <2>2, <2>9 DEF DeletionOk
  <2>10. ASSUME RunStart(j) \/ NextBatch(j) \/ Reached(j) \/ MutateCheck(j) \/ EnterGate(j)
         PROVE  DeletionOk(j)'
    <3>1. CASE RunStart(j) \/ NextBatch(j)
      BY <1>0, <2>2, <2>9, <3>1 DEF RunStart, NextBatch, Goto, TypeOK, WorkerRecord
    <3>2. CASE Reached(j)
      BY <1>0, <2>2, <2>9, <3>2 DEF Reached, Goto, TypeOK, WorkerRecord
    <3>3. CASE MutateCheck(j)
      BY <1>0, <2>2, <2>9, <3>3 DEF MutateCheck, CheckError, TypeOK, WorkerRecord
    <3>4. CASE EnterGate(j)
      BY <1>0, <2>2, <2>9, <3>4 DEF EnterGate, TypeOK, WorkerRecord
    <3> QED BY <2>10, <3>1, <3>2, <3>3, <3>4
  <2>11. ASSUME NEW answer \in {"yes", "no", "rate", "soft", "fatal"}, Reach(j, answer)
         PROVE  DeletionOk(j)'
    <3>1. worker'[j].pc # "settle"
      BY <1>0, <2>2, <2>11 DEF Reach, TypeOK, WorkerRecord
    <3> QED BY <2>9, <2>11, <3>1 DEF Reach
  <2>12. ASSUME AfterBatch(j) \/ WaitOver(j) \/ Finish(j) \/ NotifyWaiters(j) \/ Unmap(j)
         PROVE  DeletionOk(j)'
    <3>1. CASE AfterBatch(j) \/ WaitOver(j)
      BY <1>0, <2>2, <2>9, <3>1 DEF AfterBatch, WaitOver, Goto, TypeOK, WorkerRecord
    <3>2. CASE Finish(j) \/ NotifyWaiters(j) \/ Unmap(j)
      BY <1>0, <2>2, <2>9, <3>2
      DEF Finish, NotifyWaiters, Unmap, Goto, NoWorker, TypeOK, WorkerRecord
    <3> QED BY <2>12, <3>1, <3>2
  <2>13. DeletionOk(j)'
    BY <1>1, <2>5, <2>6, <2>7, <2>8, <2>10, <2>11, <2>12 DEF Work
  <2> QED BY <2>1, <2>13 DEF DeletionsOk
<1>2. ASSUME NEW c \in Client, Handle(c) \/ Invoke(c), CommandStep(c)
      PROVE  DeletionsOk'
  <2>1. ASSUME \A i \in Job : /\ state'.jobs[i].deleted <= applied[i]
                              /\ store'.jobs[i].deleted <= applied[i]
                              /\ state'.jobs[i] = state.jobs[i] \/ worker[i].pc # "settle"
                                 \/ state'.jobs[i].deleted = state.jobs[i].deleted
        PROVE  DeletionsOk'
    <3> SUFFICES ASSUME NEW i \in Job PROVE DeletionOk(i)'
      BY DEF DeletionsOk
    <3>1. applied' = applied /\ DeletionOk(i)
      BY <1>0, <1>2 DEF CommandStep, DeletionsOk
    <3>2. CASE Spawned(i)
      <4>1. worker'[i].pc # "settle"
        BY <3>2 DEF Spawned, NoWorker
      <4> QED BY <2>1, <3>1, <4>1 DEF DeletionOk
    <3>3. CASE Signalled(i)
      BY <2>1, <3>1, <3>3 DEF Signalled, DeletionOk
    <3> QED BY <1>2, <3>2, <3>3 DEF CommandStep
  <2>2. \A i \in Job : /\ state.jobs[i].deleted \in Nat /\ store.jobs[i].deleted \in Nat
                       /\ applied[i] \in Nat
                       /\ state.jobs[i].deleted <= applied[i] /\ store.jobs[i].deleted <= applied[i]
    BY <1>0 DEF DeletionsOk, DeletionOk, TypeOK, Projection, JobRecord
  <2>3. CASE state' = state /\ store' = store
    BY <2>1, <2>2, <2>3
  <2>4. CASE PrepareCommit(c)
    <3>1. state'.jobs = state.jobs /\ store'.jobs \in {state.jobs, store.jobs}
      BY <1>0, <2>4, PrepareKeepsJobs
    <3> QED BY <2>1, <2>2, <3>1
  <2>5. ASSUME NEW j \in Job, NEW job \in JobRecord, NEW ok \in BOOLEAN, Publish(WithJob(j, job), ok),
               job.deleted = state.jobs[j].deleted
                 \/ (job.deleted = 0 /\ worker[j].pc # "settle")
        PROVE  DeletionsOk'
    <3>1. JobStep(j, job, ok)
      BY <1>0, <2>5, PublishJobStep
    <3>2. \A i \in Job \ {j} : state'.jobs[i] = state.jobs[i] /\ store'.jobs[i] = store.jobs[i]
      BY <3>1 DEF JobStep
    <3>3. state'.jobs[j] \in {state.jobs[j], job} /\ store'.jobs[j] \in {store.jobs[j], job}
      BY <3>1 DEF JobStep
    <3>4. job.deleted <= applied[j]
      BY <2>2, <2>5
    <3> QED BY <2>1, <2>2, <2>5, <3>2, <3>3, <3>4
  <2>6. CASE CancelCommit(c)
    <3> DEFINE j == call[c].job
    <3>1. j \in Job /\ state.jobs[j] \in JobRecord
      BY <1>0, <2>6 DEF CancelCommit, Calling, CommandsOk, CommandOk, AtCancel, TypeOK, Projection
    <3>2. PICK ok \in BOOLEAN : Publish(WithJob(j, Cancelled(state.jobs[j])), ok)
      BY <2>6 DEF CancelCommit
    <3>3. /\ Cancelled(state.jobs[j]) \in JobRecord
          /\ Cancelled(state.jobs[j]).deleted = state.jobs[j].deleted
      BY <3>1, JobForms, FormsKeepDeleted
    <3> HIDE DEF j
    <3> QED BY <2>5, <3>1, <3>2, <3>3
  <2>7. ASSUME NEW j \in Job, StartCommit(c, j)
        PROVE  DeletionsOk'
    <3>1. NewJob(call[c].plan) \in JobRecord /\ NewJob(call[c].plan).deleted = 0
      BY <1>0, <2>7, NewJobForm
      DEF StartCommit, Calling, CommandsOk, CommandOk, NewJob, NoJob
    <3>2. worker[j].pc = "off"
      BY <1>0, <2>7 DEF StartCommit, WorkersOk, WorkerOk
    <3> QED BY <2>5, <2>7, <3>1, <3>2 DEF StartCommit
  <2> QED BY <2>3, <2>4, <2>6, <2>7, <1>2, Publishers
<1>3. CASE Elsewhere
  <2>1. ASSUME NEW landed \in SUBSET Job, Crash(landed)
        PROVE  DeletionsOk'
    <3>1. ASSUME NEW j \in Job
          PROVE  applied[j] <= applied'[j] /\ applied[j] \in Nat /\ applied'[j] \in Nat
      BY <1>0, <2>1 DEF Crash, TypeOK, WorkerRecord
    <3>2. \A j \in Job : store.jobs[j].deleted \in Nat /\ store.jobs[j].deleted <= applied[j]
      BY <1>0 DEF DeletionsOk, DeletionOk, TypeOK, Projection, JobRecord
    <3>3. \A j \in Job : store.jobs[j].deleted <= applied'[j]
      BY <3>1, <3>2
    <3> QED BY <2>1, <3>3 DEF Crash, Volatile, NoWorker, DeletionsOk, DeletionOk
  <2>2. CASE Open \/ OpenFails
    <3>1. \A j \in Job : state'.jobs[j].deleted = state.jobs[j].deleted /\ store' = state'
      BY <1>0, <2>2, RecoveredJobs DEF Open, OpenFails, RecordsOk
    <3>2. UNCHANGED <<applied, worker>>
      BY <2>2 DEF Open, OpenFails, taskVars
    <3> QED BY <1>0, <3>1, <3>2 DEF DeletionsOk, DeletionOk
  <2>3. CASE (\E p \in Plan : GrantExpires(p)) \/ AtRest
    BY <1>0, <2>3 DEF GrantExpires, AtRest, vars, taskVars, DeletionsOk, DeletionOk
  <2> QED BY <1>3, <2>1, <2>2, <2>3 DEF Elsewhere
<1> QED BY <1>1, <1>2, <1>3, StepKinds

(* Drain: a stopped instance turns every worker away that is still to come. *)
LEMMA DrainKept ==
  ASSUME DrainOk, NEW c \in Client, CommandStep(c), stopped' = stopped,
         call[c].at \notin {"stopFlag", "stopDrain"}
  PROVE  DrainOk'
<1>1. Draining => Draining'
  BY DEF Draining, CommandStep
<1>2. \A j \in Job : worker[j].pc \in Quiet => worker'[j].pc \in Quiet
  BY DEF CommandStep, Spawned, Signalled, NoWorker, Quiet
<1> QED BY <1>1, <1>2 DEF DrainOk

(* Drain: every step keeps a drained instance quiet.                        *)
LEMMA DrainStep ==
  ASSUME IInv, Next
  PROVE  DrainOk'
<1>0. TypeOK /\ DrainOk /\ WorkersOk
  BY DEF IInv
<1>1. ASSUME NEW j \in Job, WorkStep(j), Move(j)
      PROVE  DrainOk'
  <2>1. stopped' = stopped /\ call' = call /\ \A i \in Job \ {j} : worker'[i] = worker[i]
    BY <1>1 DEF WorkStep, Untouched
  <2>2. stopped /\ worker[j].pc \in Quiet => worker'[j].pc \in Quiet
    BY <1>1 DEF Move, Quiet, Leaving, Loop, InBatch, Check
  <2> QED BY <1>0, <2>1, <2>2 DEF DrainOk, Draining
<1>2. ASSUME NEW c \in Client, Handle(c) \/ Invoke(c), CommandStep(c)
      PROVE  DrainOk'
  <2>0. call[c] \in CallRecord /\ call \in [Client -> CallRecord]
    BY <1>0 DEF TypeOK
  <2>1. CASE StopCall(c) \/ StopFlag(c)
    <3>1. call'[c].at \in {"stopFlag", "stopDrain"}
      BY <2>0, <2>1 DEF StopCall, StopFlag, Begin, Step, Idle, CallRecord
    <3> QED BY <3>1 DEF DrainOk, Draining
  <2>2. CASE StopDrained(c)
    <3>1. \A j \in Job : worker[j].pc = "off"
      BY <1>0, <2>2 DEF StopDrained, Drained, WorkersOk, WorkerOk
    <3> QED BY <2>2, <3>1 DEF StopDrained, CallFrame, DrainOk, Quiet
  <2>3. CASE StopPolls(c)
    BY <1>0, <2>3 DEF StopPolls, vars, DrainOk, Draining
  <2>4. ASSUME stopped' = stopped, call[c].at \notin {"stopFlag", "stopDrain"}
        PROVE  DrainOk'
    BY <1>0, <1>2, <2>4, DrainKept
  <2>5. CASE PrepareCommit(c) \/ StartRefused(c) \/ StartSchedule(c) \/ RecoverReturn(c)
             \/ \E j \in Job : StartCommit(c, j)
    BY <2>4, <2>5 DEF PrepareCommit, StartRefused, StartSchedule, RecoverReturn, StartCommit,
                      Calling, lifecycleVars
  <2>6. CASE CancelCommit(c) \/ CancelSignal(c) \/ CancelGate(c) \/ CancelArm(c)
             \/ CancelCheck(c) \/ CancelWake(c)
    BY <2>4, <2>6 DEF CancelCommit, CancelSignal, CancelGate, CancelArm, CancelCheck, CancelWake,
                      Calling, lifecycleVars
  <2>7. CASE StopClear(c) \/ \E j \in Job : RecoverSchedule(c, j) \/ CancelCall(c, j)
    BY <2>4, <2>7 DEF StopClear, RecoverSchedule, CancelCall, Calling, lifecycleVars
  <2>8. CASE PromptApproved(c) \/ CallRefused(c) \/ RecoverCall(c)
    BY <2>4, <2>8 DEF PromptApproved, CallRefused, RecoverCall, Calling, lifecycleVars
  <2>9. CASE \E p \in Plan : PrepareCall(c, p) \/ AuthorizeCall(c, p) \/ StartConsume(c, p)
    BY <2>4, <2>9 DEF PrepareCall, AuthorizeCall, StartConsume, Calling, lifecycleVars
  <2> QED BY <1>2, <2>1, <2>2, <2>3, <2>5, <2>6, <2>7, <2>8, <2>9 DEF Handle, Invoke
<1>3. CASE Elsewhere
  BY <1>0, <1>3, ElsewhereMoves DEF IInv, DrainOk, Draining, Volatile, taskVars
<1> QED BY <1>1, <1>2, <1>3, StepKinds

(* Plans: a start refuses a plan that has a job already.                    *)
LEMMA PlansStep ==
  ASSUME IInv, Next
  PROVE  PlansOk'
<1>0. TypeOK /\ PlansOk /\ RecordsOk /\ CommandsOk
  BY DEF IInv
<1>1. ASSUME NEW jobs, NEW jobs2, OneJobPerPlan(jobs),
             \A i \in Job : Present(jobs2[i]) => Present(jobs[i]) /\ jobs2[i].plan = jobs[i].plan
      PROVE  OneJobPerPlan(jobs2)
  BY <1>1 DEF OneJobPerPlan
<1>2. ASSUME NEW j \in Job, WorkStep(j)
      PROVE  PlansOk'
  <2>1. \A i \in Job : Present(state'.jobs[i]) =>
          Present(state.jobs[i]) /\ state'.jobs[i].plan = state.jobs[i].plan
    BY <1>2 DEF WorkStep, Untouched, Grown
  <2>2. \A i \in Job : Present(store'.jobs[i]) =>
          Present(store.jobs[i]) /\ store'.jobs[i].plan = store.jobs[i].plan
    BY <1>2 DEF WorkStep, Untouched, Filed
  <2> QED BY <1>0, <1>1, <2>1, <2>2 DEF PlansOk
<1>3. ASSUME NEW c \in Client, Handle(c) \/ Invoke(c), CommandStep(c)
      PROVE  PlansOk'
  <2>1. CASE state' = state /\ store' = store
    BY <1>0, <2>1 DEF PlansOk, OneJobPerPlan
  <2>2. CASE PrepareCommit(c)
    <3>1. state'.jobs = state.jobs /\ store'.jobs \in {state.jobs, store.jobs}
      BY <1>0, <2>2, PrepareKeepsJobs
    <3> QED BY <1>0, <3>1 DEF PlansOk, OneJobPerPlan
  <2>3. CASE CancelCommit(c)
    <3> DEFINE j == call[c].job
    <3>1. /\ j \in Job /\ state.jobs[j] \in JobRecord
          /\ Cancelled(state.jobs[j]) \in JobRecord
          /\ Cancelled(state.jobs[j]).plan = state.jobs[j].plan
          /\ Present(state.jobs[j])
      <4>1. j \in Job /\ state.jobs[j] \in JobRecord /\ 0 < control[j].spawn
        BY <1>0, <2>3 DEF CancelCommit, Calling, CommandsOk, CommandOk, AtCancel, TypeOK,
                          Projection, CallRecord, ControlRecord
      <4>2. Present(state.jobs[j])
        BY <4>1 DEF IInv, WorkersOk, WorkerOk
      <4> HIDE DEF j
      <4> QED BY <4>1, <4>2, JobForms DEF Cancelled, JobRecord
    <3>2. PICK ok \in BOOLEAN : Publish(WithJob(j, Cancelled(state.jobs[j])), ok)
      BY <2>3 DEF CancelCommit
    <3> HIDE DEF j
    <3>3. JobStep(j, Cancelled(state.jobs[j]), ok)
      BY <1>0, <3>1, <3>2, PublishJobStep
    <3> QED BY <1>0, <1>1, <3>1, <3>3 DEF PlansOk, JobStep
  <2>4. ASSUME NEW j \in Job, StartCommit(c, j)
        PROVE  PlansOk'
    <3> DEFINE p == call[c].plan
    <3>1. p \in Plan /\ ~HasJob(p) /\ ~Present(state.jobs[j])
      BY <1>0, <2>4 DEF StartCommit, MayStart, Calling, CommandsOk, CommandOk
    <3>2. PICK ok \in BOOLEAN : Publish(WithJob(j, NewJob(p)), ok)
      BY <2>4 DEF StartCommit
    <3> HIDE DEF p
    <3>3. JobStep(j, NewJob(p), ok)
      BY <1>0, <3>1, <3>2, NewJobForm, PublishJobStep
    <3>4. NewJob(p).plan = p
      BY DEF NewJob, NoJob
    <3>5. ASSUME NEW jobs, jobs[j] = NewJob(p) \/ jobs[j] = state.jobs[j],
                 \A i \in Job \ {j} : jobs[i] = state.jobs[i]
          PROVE  OneJobPerPlan(jobs)
      <4>1. CASE jobs[j] = state.jobs[j]
        BY <1>0, <1>1, <3>5, <4>1 DEF PlansOk
      <4>2. CASE jobs[j] = NewJob(p)
        BY <1>0, <3>1, <3>4, <3>5, <4>2 DEF PlansOk, OneJobPerPlan, HasJob
      <4> QED BY <3>5, <4>1, <4>2
    <3>6. OneJobPerPlan(state'.jobs)
      BY <3>3, <3>5 DEF JobStep
    <3>7. CASE store' = store \/ store'.jobs[j] = store.jobs[j]
      BY <1>0, <1>1, <3>3, <3>7 DEF PlansOk, JobStep
    <3>8. ASSUME store'.jobs[j] # store.jobs[j]
          PROVE  OneJobPerPlan(store'.jobs)
      BY <3>3, <3>5, <3>8 DEF JobStep
    <3> QED BY <3>6, <3>7, <3>8 DEF PlansOk
  <2> QED BY <1>3, <2>1, <2>2, <2>3, <2>4, Publishers
<1>4. CASE Elsewhere
  <2>1. CASE state' = state /\ store' = store
    BY <1>0, <2>1 DEF PlansOk, OneJobPerPlan
  <2>2. CASE state' = store /\ store' = store
    BY <1>0, <2>2 DEF PlansOk, OneJobPerPlan
  <2>3. CASE (state' = state \/ state' = Recovered(state)) /\ store' = state'
    <3>1. \A i \in Job : Present(state'.jobs[i]) =>
            Present(state.jobs[i]) /\ state'.jobs[i].plan = state.jobs[i].plan
      BY <1>0, <2>3, RecoveredJobs
    <3> QED BY <1>0, <1>1, <2>3, <3>1 DEF PlansOk
  <2> QED BY <1>0, <1>4, <2>1, <2>2, <2>3, ElsewhereMoves
<1> QED BY <1>2, <1>3, <1>4, StepKinds

-----------------------------------------------------------------------------
(* The invariant.                                                           *)

(* An empty file, nobody running: all the parts hold.                       *)
LEMMA InitIInv ==
  ASSUME Init
  PROVE  IInv
<1>1. Empty \in Projection /\ \A j \in Job : Empty.jobs[j] = NoJob
  BY DEF Empty, Projection, NoJob, JobRecord, JobStatus, TerminalStatus
<1>2. ~Present(NoJob) /\ ~Terminal(NoJob) /\ NoJob.deleted = 0
  BY DEF NoJob, Present, Terminal, TerminalStatus
<1>3. TypeOK
  <2>1. /\ \A j \in Job : control[j] \in ControlRecord /\ worker[j] \in WorkerRecord
        /\ control \in [Job -> ControlRecord] /\ worker \in [Job -> WorkerRecord]
    BY DEF Init, NoControl, NoWorker, ControlRecord, WorkerRecord, WorkerPc, Result
  <2>2. call \in [Client -> CallRecord]
    BY IdleTyped DEF Init
  <2>3. budget \in Budget
    BY BoundsAssumption DEF Init, Budget
  <2>4. NoDenial \in Denial
    BY DEF NoDenial, Denial
  <2> QED BY <1>1, <2>1, <2>2, <2>3, <2>4 DEF Init, TypeOK
<1>4. RecordsOk /\ PlansOk
  BY <1>1, <1>2 DEF Init, RecordsOk, Valid, PlansOk, OneJobPerPlan
<1>5. WorkersOk /\ BatchesOk /\ EndsOk
  BY DEF Init, NoControl, NoWorker, WorkersOk, WorkerOk, BatchesOk, BatchOk, InBatch,
         EndsOk, EndOk, Leaving, Outside
<1>6. CommandsOk
  BY DEF Init, Idle, CommandsOk, CommandOk, AtCancel
<1>7. AckedOk /\ DrainOk
  BY DEF Init, AckedOk, DrainOk
<1>8. AuthorityOk
  BY <1>1, <1>2 DEF Init, NoWorker, Idle, AuthorityOk, Unfinished
<1>9. DeletionsOk
  BY <1>1, <1>2 DEF Init, NoWorker, DeletionsOk, DeletionOk
<1> QED BY <1>3, <1>4, <1>5, <1>6, <1>7, <1>8, <1>9 DEF IInv

(* Every step keeps all the parts, and so does a stutter.                   *)
LEMMA NextIInv ==
  ASSUME IInv, [Next]_vars
  PROVE  IInv'
<1>1. CASE Next
  BY <1>1, TypeStep, RecordsStep, WorkersStep, BatchesStep, EndsStep, CommandsStep, AckedStep,
     AuthorityStep, DeletionsStep, DrainStep, PlansStep
  DEF IInv
<1>2. CASE UNCHANGED vars
  <2>1. /\ UNCHANGED <<store, state, failed, stopped, grants, control, worker, call>>
        /\ UNCHANGED <<woken, up, budget, applied, denied, approvals, started, acked>>
    BY <1>2 DEF vars
  <2>2. TypeOK' /\ RecordsOk' /\ PlansOk'
    BY <2>1, RecordsUnchanged DEF IInv, TypeOK, PlansOk, OneJobPerPlan, Present
  <2>3. WorkersOk' /\ DeletionsOk' /\ DrainOk'
    BY <2>1 DEF IInv, WorkersOk, WorkerOk, DeletionsOk, DeletionOk, DrainOk, Draining, Present
  <2>4. BatchesOk'
    BY <2>1 DEF IInv, BatchesOk, BatchOk, Size
  <2>5. EndsOk' /\ AckedOk'
    BY <2>1 DEF IInv, EndsOk, EndOk, AckedOk, Over, Terminal
  <2>6. CommandsOk'
    BY <2>1 DEF IInv, CommandsOk, CommandOk, Holds, InFlight, Terminal
  <2>7. AuthorityOk'
    BY <2>1 DEF IInv, AuthorityOk, Present, Unfinished, Terminal
  <2> QED BY <2>2, <2>3, <2>4, <2>5, <2>6, <2>7 DEF IInv
<1> QED BY <1>1, <1>2

(* The parts of IInv hold in every reachable state, for any number of       *)
(* plans, jobs, handlers, crashes and faults.                               *)
THEOREM Inductive == Spec => []IInv
<1>1. Init => IInv
  BY InitIInv
<1>2. IInv /\ [Next]_vars => IInv'
  BY NextIInv
<1> QED BY <1>1, <1>2, PTL DEF Spec

(* The variables of the lifecycle keep their shapes.                        *)
THEOREM TypeCorrect == Spec => []TypeOK
<1>1. IInv => TypeOK
  BY DEF IInv
<1> QED BY <1>1, Inductive, PTL

(* Cancellation is final: behind the mutation gate of a cancelled job, and  *)
(* ever after cancel has answered, no mutation of the job is in flight.     *)
THEOREM CancelFinal == Spec => []CancelIsFinal
<1>1. IInv => CancelIsFinal
  <2> SUFFICES ASSUME IInv, NEW j \in Job, j \in acked \/ PastGate(j), InFlight(j)
               PROVE  FALSE
    BY DEF CancelIsFinal
  <2>1. worker[j].pc \notin Outside
    BY DEF InFlight, Outside, Leaving
  <2>2. PICK c \in Client : /\ call[c].at \in {"cancelArm", "cancelCheck", "cancelParked"}
                            /\ call[c].job = j
    BY <2>1 DEF IInv, AckedOk, PastGate
  <2>3. call[c].spawn < control[j].spawn /\ call[c].spawn > 0
    <3>1. /\ ~Holds(c) /\ 0 < call[c].spawn /\ call[c].spawn <= control[j].spawn
      BY <2>2 DEF IInv, CommandsOk, CommandOk, AtCancel
    <3>2. call[c].spawn \in Nat /\ control[j].spawn \in Nat
      BY DEF IInv, TypeOK, CallRecord, ControlRecord
    <3> QED BY <2>2, <3>1, <3>2 DEF Holds
  <2>4. control[j].spawn > 1
    <3>1. call[c].spawn \in Nat /\ control[j].spawn \in Nat
      BY DEF IInv, TypeOK, CallRecord, ControlRecord
    <3> QED BY <2>3, <3>1
  <2> QED BY <2>1, <2>4 DEF IInv, EndsOk, EndOk
<1> QED BY <1>1, Inductive, PTL

(* Only a job its owner approved and started in this process has a mutation *)
(* in flight: what recover schedules replays nothing.                       *)
THEOREM NeverReplays == Spec => []NoReplay
<1>1. IInv => NoReplay
  BY DEF IInv, AuthorityOk, NoReplay, InFlight
<1> QED BY <1>1, Inductive, PTL

(* A deletion the file confirms is one the provider made, across crashes    *)
(* and failed publications.                                                 *)
THEOREM DeletedReal == Spec => []DeletedIsReal
<1>1. IInv => DeletedIsReal
  BY DEF IInv, DeletionsOk, DeletionOk, DeletedIsReal
<1> QED BY <1>1, Inductive, PTL

(* After the drain of stop no mutation is in flight, whatever was starting. *)
THEOREM QuietAfterStop == Spec => []StoppedIsQuiet
<1>1. IInv => StoppedIsQuiet
  BY DEF IInv, DrainOk, StoppedIsQuiet, InFlight, Quiet, Leaving
<1> QED BY <1>1, Inductive, PTL

(* Over all the processes a plan is executed by one job.                    *)
THEOREM PlanOnce == Spec => []PlanRunsOnce
<1>1. IInv => PlanRunsOnce
  BY DEF IInv, PlansOk, OneJobPerPlan, PlanRunsOnce
<1> QED BY <1>1, Inductive, PTL
-----------------------------------------------------------------------------
(* What is published, by whom.                                              *)

(* Relabelled(job, old): an edit that leaves the accounts of a job alone.   *)
Relabelled(job, old) ==
  /\ job.plan = old.plan /\ job.next = old.next
  /\ job.deleted = old.deleted /\ job.skipped = old.skipped
  /\ job.failed = old.failed /\ job.uncertain = old.uncertain

(* All edits of a job but the one of progress are of this kind.             *)
LEMMA EditsRelabel ==
  ASSUME NEW job \in JobRecord, Present(job)
  PROVE  /\ \A s \in {"Running", "Queued", "Partial", "Completed"}, r \in BOOLEAN :
              LET edit == [job EXCEPT !.status = s, !.retry = r]
              IN Relabelled(edit, job) /\ edit.status = s /\ edit.retry = r
         /\ LET edit == [job EXCEPT !.status = "Running"]
            IN Relabelled(edit, job) /\ edit.status = "Running" /\ edit.retry = job.retry
         /\ Relabelled(Cancelled(job), job) /\ Cancelled(job).status = "Cancelled"
         /\ ~Cancelled(job).retry
         /\ Relabelled(Stopped(job), job) /\ ~Stopped(job).retry
         /\ Stopped(job).status \in {"Partial", "Failed"}
         /\ Relabelled(Closed(job), job)
         /\ Closed(job) = job \/ Closed(job) = Stopped(job)
         /\ Closed(job).status \in TerminalStatus
BY DEF JobRecord, Relabelled, Cancelled, Stopped, Closed, Terminal, TerminalStatus

(* An edit of job j that was published, or failed to be.                    *)
Edit(j, job, ok) ==
  /\ JobStep(j, job, ok) /\ Present(job)
  /\ ok => state' = store'
  /\ budget'.crashes = budget.crashes /\ budget'.faults <= budget.faults

(* What a publication costs of the bounds.                                  *)
LEMMA PublishCosts ==
  ASSUME TypeOK, NEW new \in Projection, NEW ok \in BOOLEAN, Publish(new, ok)
  PROVE  /\ ok => state' = store'
         /\ budget'.crashes = budget.crashes /\ budget'.faults <= budget.faults
<1>1. budget \in Budget /\ budget.faults \in Nat /\ budget.crashes \in Nat
  BY DEF TypeOK, Budget
<1>2. CASE UNCHANGED budget
  BY <1>1, <1>2 DEF Publish
<1>3. CASE budget' = [budget EXCEPT !.faults = @ - 1]
  <2>1. budget'.faults = budget.faults - 1 /\ budget'.crashes = budget.crashes
    BY <1>1, <1>3 DEF Budget
  <2> QED BY <1>1, <2>1 DEF Publish
<1> QED BY <1>2, <1>3 DEF Publish

(* A publication of one job is an edit.                                     *)
LEMMA PublishEdits ==
  ASSUME TypeOK, NEW j \in Job, NEW job \in JobRecord, Present(job), NEW ok \in BOOLEAN,
         Publish(WithJob(j, job), ok)
  PROVE  Edit(j, job, ok)
BY PublishJobStep, WithJobForm, PublishCosts DEF Edit

(* The edits of a worker, each with where the worker stands and goes next.  *)
Goes(j, from, to) == worker[j].pc \in from /\ worker'[j] = [worker[j] EXCEPT !.pc = to]
Labels(j, job, status, retry) ==
  Relabelled(job, state.jobs[j]) /\ job.status = status /\ job.retry = retry

Claims(j, job, ok) ==
  /\ Labels(j, job, "Running", state.jobs[j].retry) /\ worker[j].pc = "claim"
  /\ worker'[j] = [worker[j] EXCEPT !.pc = IF ok THEN "top" ELSE "fail",
                                    !.next = state.jobs[j].next]
SeesCancelled(j, job, ok) ==
  /\ Labels(j, job, "Cancelled", FALSE)
  /\ Goes(j, {"top", "reached", "post", "wait"}, IF ok THEN "finish" ELSE "fail")
Waits(j, job, ok) ==
  /\ Labels(j, job, "Queued", TRUE) /\ worker[j].result = "rate"
  /\ Goes(j, {"settle"}, IF ok THEN "wait" ELSE "fail")
Progresses(j, job, ok) ==
  /\ job = Progressed(j) /\ worker[j].result # "rate"
  /\ Goes(j, {"settle"}, IF ok THEN "post" ELSE "fail")
Resumes(j, job, ok) ==
  Labels(j, job, "Running", FALSE) /\ Goes(j, {"resume"}, IF ok THEN "top" ELSE "fail")
Finalizes(j, job, ok) ==
  /\ Labels(j, job, IF state.jobs[j].failed > 0 THEN "Partial" ELSE "Completed", FALSE)
  /\ Goes(j, {"final"}, IF ok THEN "finish" ELSE "fail")
Closes(j, job, ok) ==
  /\ Relabelled(job, state.jobs[j]) /\ Goes(j, {"fail"}, "finish")
  /\ job = state.jobs[j] \/ (job.status \in {"Partial", "Failed"} /\ ~job.retry)

WorkEdit(j, job, ok) ==
  /\ Edit(j, job, ok) /\ UNCHANGED <<applied, denied, control>>
  /\ Present(state.jobs[j])
  /\ \/ Claims(j, job, ok) \/ SeesCancelled(j, job, ok) \/ Waits(j, job, ok)
     \/ Progresses(j, job, ok) \/ Resumes(j, job, ok) \/ Finalizes(j, job, ok)
     \/ Closes(j, job, ok)

(* The other steps of a worker.                                             *)
QuietWork(j) ==
  \/ RunStart(j) \/ NextBatch(j) \/ Reached(j) \/ MutateCheck(j) \/ EnterGate(j)
  \/ \E answer \in {"yes", "no", "rate", "soft", "fatal"} : Reach(j, answer)
  \/ \E answer \in Result, removed \in BOOLEAN : Answer(j, answer, removed)
  \/ AfterBatch(j) \/ WaitOver(j) \/ Finish(j) \/ NotifyWaiters(j) \/ Unmap(j)

(* A publication of the worker, as an edit.                                 *)
LEMMA PublishJobEdits ==
  ASSUME TypeOK, NEW j \in Job, NEW job \in JobRecord, Present(job), NEW then, NEW else,
         PublishJob(j, job, then, else)
  PROVE  \E ok \in BOOLEAN :
           Edit(j, job, ok) /\ worker'[j] = [worker[j] EXCEPT !.pc = IF ok THEN then ELSE else]
<1>1. PICK ok \in BOOLEAN : /\ Publish(WithJob(j, job), ok)
                            /\ worker' = [worker EXCEPT ![j].pc = IF ok THEN then ELSE else]
  BY DEF PublishJob
<1> QED BY <1>1, PublishEdits DEF TypeOK

(* Every step of a worker is an edit of its job or publishes nothing.       *)
LEMMA WorkEdits ==
  ASSUME IInv, NEW j \in Job, Work(j)
  PROVE  \/ \E job \in JobRecord, ok \in BOOLEAN : WorkEdit(j, job, ok)
         \/ QuietWork(j) /\ UNCHANGED <<state, store, failed>>
<1>0. TypeOK /\ RecordsOk /\ WorkersOk /\ BatchesOk
  BY DEF IInv
<1>1. /\ worker[j] \in WorkerRecord /\ state.jobs[j] \in JobRecord
      /\ worker[j].pc # "off" => Present(state.jobs[j])
  BY <1>0 DEF TypeOK, Projection, WorkersOk, WorkerOk
<1>2. CASE QuietWork(j)
  BY <1>2 DEF QuietWork, RunStart, NextBatch, Reached, MutateCheck, EnterGate, Reach, Answer,
              AfterBatch, WaitOver, Finish, NotifyWaiters, Unmap
<1>3. CASE RunClaim(j)
  <2> DEFINE job == [state.jobs[j] EXCEPT !.status = "Running"]
  <2>1. PICK ok \in BOOLEAN :
          /\ Publish(WithJob(j, job), ok)
          /\ worker' = [worker EXCEPT ![j].pc = IF ok THEN "top" ELSE "fail",
                                     ![j].next = state.jobs[j].next]
    BY <1>3 DEF RunClaim, FirstBatch
  <2>2. Present(state.jobs[j]) /\ worker[j].pc = "claim" /\ UNCHANGED <<applied, denied, control>>
    BY <1>1, <1>3 DEF RunClaim, At
  <2>3. job \in JobRecord /\ Present(job) /\ Labels(j, job, "Running", state.jobs[j].retry)
    BY <1>1, <2>2, JobForms, EditsRelabel, EditsKeepPlan DEF Labels
  <2> HIDE DEF job
  <2>4. worker'[j] = [worker[j] EXCEPT !.pc = IF ok THEN "top" ELSE "fail", !.next = state.jobs[j].next]
    BY <1>0, <2>1 DEF TypeOK
  <2> QED BY <1>0, <2>1, <2>2, <2>3, <2>4, PublishEdits DEF WorkEdit, Claims
<1>4. CASE SeeCancelled(j)
  <2> DEFINE job == Cancelled(state.jobs[j])
  <2>1. /\ Present(state.jobs[j]) /\ worker[j].pc \in {"top", "reached", "post", "wait"}
        /\ UNCHANGED <<applied, denied, control>> /\ PublishJob(j, job, "finish", "fail")
    BY <1>1, <1>4 DEF SeeCancelled, At
  <2>2. job \in JobRecord /\ Present(job) /\ Labels(j, job, "Cancelled", FALSE)
    BY <1>1, <2>1, JobForms, EditsRelabel, EditsKeepPlan DEF Labels, Cancelled, JobRecord
  <2> HIDE DEF job
  <2>3. PICK ok \in BOOLEAN :
          Edit(j, job, ok) /\ worker'[j] = [worker[j] EXCEPT !.pc = IF ok THEN "finish" ELSE "fail"]
    BY <1>0, <2>1, <2>2, PublishJobEdits
  <2>4. SeesCancelled(j, job, ok)
    BY <2>1, <2>2, <2>3 DEF SeesCancelled, Goes
  <2> QED BY <2>1, <2>2, <2>3, <2>4 DEF WorkEdit
<1>5. CASE WaitForRetry(j)
  <2> DEFINE job == [state.jobs[j] EXCEPT !.status = "Queued", !.retry = TRUE]
  <2>1. /\ Present(state.jobs[j]) /\ worker[j].pc = "settle" /\ worker[j].result = "rate"
        /\ UNCHANGED <<applied, denied, control>> /\ PublishJob(j, job, "wait", "fail")
    BY <1>1, <1>5 DEF WaitForRetry, At
  <2>2. job \in JobRecord /\ Present(job) /\ Labels(j, job, "Queued", TRUE)
    BY <1>1, <2>1, JobForms, EditsRelabel, EditsKeepPlan DEF Labels
  <2> HIDE DEF job
  <2>3. PICK ok \in BOOLEAN :
          Edit(j, job, ok) /\ worker'[j] = [worker[j] EXCEPT !.pc = IF ok THEN "wait" ELSE "fail"]
    BY <1>0, <2>1, <2>2, PublishJobEdits
  <2>4. Waits(j, job, ok)
    BY <2>1, <2>2, <2>3 DEF Waits, Goes
  <2> QED BY <2>1, <2>2, <2>3, <2>4 DEF WorkEdit
<1>6. CASE Progress(j)
  <2>1. /\ Present(state.jobs[j]) /\ worker[j].pc = "settle" /\ worker[j].result # "rate"
        /\ UNCHANGED <<applied, denied, control>> /\ PublishJob(j, Progressed(j), "post", "fail")
    BY <1>1, <1>6 DEF Progress, At
  <2>2. Progressed(j) \in JobRecord /\ Present(Progressed(j))
    BY <1>0, <1>1, <2>1, ProgressedForm, ProgressedKeepsPlan
  <2> QED BY <1>0, <2>1, <2>2, PublishJobEdits DEF WorkEdit, Progresses, Goes
<1>7. CASE Resume(j)
  <2> DEFINE job == [state.jobs[j] EXCEPT !.status = "Running", !.retry = FALSE]
  <2>1. /\ Present(state.jobs[j]) /\ worker[j].pc = "resume"
        /\ UNCHANGED <<applied, denied, control>> /\ PublishJob(j, job, "top", "fail")
    BY <1>1, <1>7 DEF Resume, At
  <2>2. job \in JobRecord /\ Present(job) /\ Labels(j, job, "Running", FALSE)
    BY <1>1, <2>1, JobForms, EditsRelabel, EditsKeepPlan DEF Labels
  <2> HIDE DEF job
  <2>3. PICK ok \in BOOLEAN :
          Edit(j, job, ok) /\ worker'[j] = [worker[j] EXCEPT !.pc = IF ok THEN "top" ELSE "fail"]
    BY <1>0, <2>1, <2>2, PublishJobEdits
  <2>4. Resumes(j, job, ok)
    BY <2>1, <2>2, <2>3 DEF Resumes, Goes
  <2> QED BY <2>1, <2>2, <2>3, <2>4 DEF WorkEdit
<1>8. CASE Finalize(j)
  <2> DEFINE status == IF state.jobs[j].failed > 0 THEN "Partial" ELSE "Completed"
             job == [state.jobs[j] EXCEPT !.status = status, !.retry = FALSE]
  <2>1. /\ Present(state.jobs[j]) /\ worker[j].pc = "final"
        /\ UNCHANGED <<applied, denied, control>> /\ PublishJob(j, job, "finish", "fail")
    BY <1>1, <1>8 DEF Finalize, At
  <2>2. status \in {"Partial", "Completed"}
    OBVIOUS
  <2> HIDE DEF status
  <2>3. job \in JobRecord /\ Present(job) /\ Labels(j, job, status, FALSE)
    <3>1. job.status = status /\ Relabelled(job, state.jobs[j]) /\ ~job.retry
      BY <1>1 DEF JobRecord, Relabelled
    <3>2. job \in JobRecord /\ job.retry \in BOOLEAN
      BY <1>1, <2>2, JobForms DEF JobRecord
    <3> QED BY <2>2, <3>1, <3>2 DEF Labels, Present
  <2> HIDE DEF job
  <2>4. PICK ok \in BOOLEAN :
          Edit(j, job, ok) /\ worker'[j] = [worker[j] EXCEPT !.pc = IF ok THEN "finish" ELSE "fail"]
    BY <1>0, <2>1, <2>3, PublishJobEdits
  <2>5. Finalizes(j, job, ok)
    BY <2>1, <2>3, <2>4 DEF Finalizes, Goes, status
  <2> QED BY <2>1, <2>3, <2>4, <2>5 DEF WorkEdit
<1>9. CASE RunFailed(j)
  <2> DEFINE job == Closed(state.jobs[j])
  <2>1. /\ Present(state.jobs[j]) /\ worker[j].pc = "fail"
        /\ UNCHANGED <<applied, denied, control>> /\ PublishJob(j, job, "finish", "finish")
    BY <1>1, <1>9 DEF RunFailed, At, IfUnpublished
  <2>2. /\ job \in JobRecord /\ Present(job) /\ Relabelled(job, state.jobs[j])
        /\ job = state.jobs[j] \/ (job.status \in {"Partial", "Failed"} /\ ~job.retry)
    <3> DEFINE old == state.jobs[j]
    <3>1. old \in JobRecord /\ Present(old)
      BY <1>1, <2>1
    <3>2. /\ Relabelled(job, old)
          /\ job = old \/ job = Stopped(old)
          /\ ~Stopped(old).retry /\ Stopped(old).status \in {"Partial", "Failed"}
      BY <3>1, EditsRelabel
    <3>3. job \in JobRecord /\ Present(job)
      BY <3>1, JobForms, EditsKeepPlan
    <3> QED BY <3>2, <3>3
  <2> HIDE DEF job
  <2>3. PICK ok \in BOOLEAN :
          Edit(j, job, ok) /\ worker'[j] = [worker[j] EXCEPT !.pc = IF ok THEN "finish" ELSE "finish"]
    BY <1>0, <2>1, <2>2, PublishJobEdits
  <2>4. Closes(j, job, ok)
    BY <2>1, <2>2, <2>3 DEF Closes, Goes
  <2> QED BY <2>1, <2>2, <2>3, <2>4 DEF WorkEdit
<1> QED BY <1>2, <1>3, <1>4, <1>5, <1>6, <1>7, <1>8, <1>9 DEF Work, QuietWork

(* The jobs are left alone, and a publication that failed is noticed.       *)
JobsKept ==
  /\ state'.jobs = state.jobs /\ store'.jobs = store.jobs
  /\ \/ state' = state /\ store' = store /\ failed' = failed
     \/ failed' \/ state' = store'

(* A command that leaves the jobs alone, that cancels one, or makes one.    *)
LEMMA PrepareEdits ==
  ASSUME TypeOK, CommandsOk, NEW c \in Client, PrepareCommit(c)
  PROVE  JobsKept
<1>1. CASE Check
  <2> DEFINE new == [state EXCEPT !.plans = @ \cup {call[c].plan}]
  <2>1. call[c].plan \in Plan
    BY DEF PrepareCommit, Calling, CommandsOk, CommandOk
  <2>2. new \in Projection /\ new.jobs = state.jobs
    BY <2>1 DEF TypeOK, Projection
  <2>3. PICK ok \in BOOLEAN : Publish(new, ok)
    BY <1>1 DEF PrepareCommit
  <2> HIDE DEF new
  <2>4. /\ state' = IF ok THEN new ELSE state
        /\ store' \in {store, new}
        /\ store' # store => store = state
        /\ ok => store = state
        /\ ok => store' = new
        /\ ~ok => failed'
    BY <2>2, <2>3, PublishEffect DEF Publishable
  <2>5. state'.jobs = state.jobs /\ store'.jobs = store.jobs
    BY <2>2, <2>4
  <2>6. ~failed' => state' = store'
    BY <2>4
  <2> QED BY <2>5, <2>6 DEF JobsKept
<1>2. CASE ~Check
  BY <1>2 DEF PrepareCommit, JobsKept
<1> QED BY <1>1, <1>2

CancelEdit(c, j, ok) ==
  /\ CancelCommit(c) /\ Present(state.jobs[j])
  /\ Edit(j, Cancelled(state.jobs[j]), ok)
StartEdit(c, j, ok) ==
  /\ StartCommit(c, j) /\ ~Present(state.jobs[j]) /\ ~Present(store.jobs[j])
  /\ call[c].plan \in Plan
  /\ Edit(j, NewJob(call[c].plan), ok)

LEMMA CommandEdits ==
  ASSUME IInv, NEW c \in Client, Handle(c) \/ Invoke(c)
  PROVE  \/ JobsKept
         \/ \E j \in Job, ok \in BOOLEAN : CancelEdit(c, j, ok) \/ StartEdit(c, j, ok)
<1>0. TypeOK /\ CommandsOk /\ WorkersOk
  BY DEF IInv
<1>1. CASE PrepareCommit(c)
  BY <1>0, <1>1, PrepareEdits
<1>2. CASE CancelCommit(c)
  <2> DEFINE j == call[c].job
  <2>1. j \in Job /\ state.jobs[j] \in JobRecord /\ 0 < control[j].spawn
    BY <1>0, <1>2 DEF CancelCommit, Calling, CommandsOk, CommandOk, AtCancel, TypeOK,
                      Projection, CallRecord, ControlRecord
  <2>2. Present(state.jobs[j])
    BY <1>0, <2>1 DEF WorkersOk, WorkerOk
  <2>3. PICK ok \in BOOLEAN : Publish(WithJob(j, Cancelled(state.jobs[j])), ok)
    BY <1>2 DEF CancelCommit
  <2> HIDE DEF j
  <2>4. Cancelled(state.jobs[j]) \in JobRecord /\ Present(Cancelled(state.jobs[j]))
    BY <2>1, <2>2, JobForms, EditsKeepPlan
  <2>5. Edit(j, Cancelled(state.jobs[j]), ok)
    BY <1>0, <2>1, <2>3, <2>4, PublishEdits
  <2> QED BY <1>2, <2>1, <2>2, <2>5 DEF CancelEdit
<1>3. ASSUME NEW j \in Job, StartCommit(c, j)
      PROVE  \E ok \in BOOLEAN : StartEdit(c, j, ok)
  <2>1. call[c].plan \in Plan /\ ~Present(state.jobs[j]) /\ ~Present(store.jobs[j])
    BY <1>0, <1>3 DEF StartCommit, Calling, CommandsOk, CommandOk
  <2>2. NewJob(call[c].plan) \in JobRecord /\ Present(NewJob(call[c].plan))
    BY <2>1, NewJobForm DEF NewJob, NoJob, Present
  <2>3. PICK ok \in BOOLEAN : Publish(WithJob(j, NewJob(call[c].plan)), ok)
    BY <1>3 DEF StartCommit
  <2> QED BY <1>0, <1>3, <2>1, <2>2, <2>3, PublishEdits DEF StartEdit
<1>4. CASE state' = state /\ store' = store
  <2>1. CASE StartRefused(c) \/ StartSchedule(c) \/ RecoverReturn(c) \/ CancelSignal(c)
    BY <2>1 DEF StartRefused, StartSchedule, RecoverReturn, CancelSignal, lifecycleVars, JobsKept
  <2>2. CASE CancelGate(c) \/ CancelArm(c) \/ CancelCheck(c) \/ CancelWake(c) \/ StopFlag(c)
    BY <2>2 DEF CancelGate, CancelArm, CancelCheck, CancelWake, StopFlag, lifecycleVars, JobsKept
  <2>3. CASE StopDrained(c) \/ StopPolls(c) \/ StopClear(c) \/ (\E j \in Job : RecoverSchedule(c, j))
    BY <2>3 DEF StopDrained, StopPolls, StopClear, RecoverSchedule, lifecycleVars, vars, JobsKept
  <2>4. CASE Invoke(c)
    BY <2>4 DEF Invoke, PrepareCall, AuthorizeCall, StartConsume, PromptApproved, CallRefused,
                RecoverCall, StopCall, CancelCall, lifecycleVars, JobsKept
  <2> QED BY <1>1, <1>2, <1>3, <2>1, <2>2, <2>3, <2>4 DEF Handle
<1> QED BY <1>1, <1>2, <1>3, <1>4, Publishers

-----------------------------------------------------------------------------
(* The parts of LedgerInv, one lemma each.                                  *)

(* A step, as far as the records are concerned.                             *)
EditStepOf(j, job, ok) ==
  \/ Work(j) /\ WorkStep(j) /\ WorkEdit(j, job, ok)
  \/ \E c \in Client : /\ CommandStep(c)
                       /\ \/ CancelEdit(c, j, ok) /\ job = Cancelled(state.jobs[j])
                          \/ StartEdit(c, j, ok) /\ job = NewJob(call[c].plan)
QuietStep ==
  /\ JobsKept
  /\ \/ \E j \in Job : Work(j) /\ WorkStep(j) /\ QuietWork(j)
     \/ \E c \in Client : (Handle(c) \/ Invoke(c)) /\ CommandStep(c)

LEMMA LedgerKinds ==
  ASSUME IInv, Next
  PROVE  \/ \E j \in Job, job \in JobRecord, ok \in BOOLEAN : EditStepOf(j, job, ok)
         \/ QuietStep
         \/ Elsewhere
<1>1. ASSUME NEW j \in Job, Work(j), WorkStep(j)
      PROVE  (\E job \in JobRecord, ok \in BOOLEAN : EditStepOf(j, job, ok)) \/ QuietStep
  <2>1. CASE \E job \in JobRecord, ok \in BOOLEAN : WorkEdit(j, job, ok)
    BY <1>1, <2>1 DEF EditStepOf
  <2>2. CASE QuietWork(j) /\ UNCHANGED <<state, store, failed>>
    BY <1>1, <2>2 DEF QuietStep, JobsKept
  <2> QED BY <1>1, <2>1, <2>2, WorkEdits
<1>2. ASSUME NEW c \in Client, Handle(c) \/ Invoke(c), CommandStep(c)
      PROVE  \/ \E j \in Job, job \in JobRecord, ok \in BOOLEAN : EditStepOf(j, job, ok)
             \/ QuietStep
  <2>1. CASE JobsKept
    BY <1>2, <2>1 DEF QuietStep
  <2>2. ASSUME NEW j \in Job, NEW ok \in BOOLEAN, CancelEdit(c, j, ok)
        PROVE  \E job \in JobRecord : EditStepOf(j, job, ok)
    <3>1. Cancelled(state.jobs[j]) \in JobRecord
      BY JobForms DEF IInv, TypeOK, Projection
    <3> QED BY <1>2, <2>2, <3>1 DEF EditStepOf
  <2>3. ASSUME NEW j \in Job, NEW ok \in BOOLEAN, StartEdit(c, j, ok)
        PROVE  \E job \in JobRecord : EditStepOf(j, job, ok)
    <3>1. NewJob(call[c].plan) \in JobRecord
      BY <2>3, NewJobForm DEF StartEdit
    <3> QED BY <1>2, <2>3, <3>1 DEF EditStepOf
  <2> QED BY <1>2, <2>1, <2>2, <2>3, CommandEdits
<1> QED BY <1>1, <1>2, StepKinds

(* What the environment does to the records.                                *)
LEMMA ElsewhereAgrees ==
  ASSUME IInv, Elsewhere
  PROVE  (state' = state /\ store' = store /\ failed' = failed) \/ state' = store'
BY ElsewhereMoves DEF IInv

(* Memory and file agree until a publication fails.                         *)
LEMMA AgreeStep ==
  ASSUME IInv, AgreeOk, Next
  PROVE  AgreeOk'
<1>1. ASSUME NEW j \in Job, NEW job \in JobRecord, NEW ok \in BOOLEAN, EditStepOf(j, job, ok)
      PROVE  AgreeOk'
  BY <1>1 DEF EditStepOf, WorkEdit, CancelEdit, StartEdit, Edit, JobStep, AgreeOk
<1>2. CASE QuietStep
  BY <1>2 DEF QuietStep, JobsKept, AgreeOk
<1>3. CASE Elsewhere
  BY <1>3, ElsewhereAgrees DEF AgreeOk
<1> QED BY <1>1, <1>2, <1>3, LedgerKinds

(* Faults and crashes are used up, and a crash uses one up.                 *)
Spends == budget'.crashes <= budget.crashes /\ budget'.faults <= budget.faults

LEMMA BudgetMoves ==
  ASSUME IInv, Next
  PROVE  Spends /\ (up /\ ~up' => budget'.crashes < budget.crashes)
<1>0. /\ TypeOK /\ CommandsOk
      /\ budget \in Budget /\ budget.faults \in Nat /\ budget.crashes \in Nat
  BY DEF IInv, TypeOK, Budget
<1>1. UNCHANGED budget => Spends
  BY <1>0 DEF Spends
<1>2. ASSUME NEW j \in Job, budget' = [budget EXCEPT !.rateLimits[j] = @ - 1]
      PROVE  Spends
  BY <1>0, <1>2 DEF Spends, Budget
<1>3. ASSUME NEW j \in Job, Work(j)
      PROVE  Spends
  <2>1. ASSUME NEW job \in JobRecord, NEW ok \in BOOLEAN, WorkEdit(j, job, ok)
        PROVE  Spends
    BY <1>0, <2>1 DEF WorkEdit, Edit, Spends
  <2>2. ASSUME NEW answer \in {"yes", "no", "rate", "soft", "fatal"}, Reach(j, answer)
        PROVE  Spends
    BY <1>1, <1>2, <2>2 DEF Reach
  <2>3. ASSUME NEW answer \in Result, NEW removed \in BOOLEAN, Answer(j, answer, removed)
        PROVE  Spends
    BY <1>1, <1>2, <2>3 DEF Answer
  <2>4. CASE \/ RunStart(j) \/ NextBatch(j) \/ Reached(j) \/ MutateCheck(j) \/ EnterGate(j)
             \/ AfterBatch(j) \/ WaitOver(j) \/ Finish(j) \/ NotifyWaiters(j) \/ Unmap(j)
    BY <1>1, <2>4 DEF RunStart, NextBatch, Reached, MutateCheck, EnterGate, AfterBatch, WaitOver,
                      Finish, NotifyWaiters, Unmap
  <2> QED BY <1>3, <2>1, <2>2, <2>3, <2>4, WorkEdits DEF QuietWork
<1>4. ASSUME NEW c \in Client, Handle(c) \/ Invoke(c)
      PROVE  Spends
  <2>1. ASSUME NEW j \in Job, NEW ok \in BOOLEAN, CancelEdit(c, j, ok) \/ StartEdit(c, j, ok)
        PROVE  Spends
    BY <1>0, <2>1 DEF CancelEdit, StartEdit, Edit, Spends
  <2>2. CASE PrepareCommit(c)
    <3>1. CASE Check
      <4>1. call[c].plan \in Plan
        BY <1>0, <2>2 DEF PrepareCommit, Calling, CommandsOk, CommandOk
      <4>2. [state EXCEPT !.plans = @ \cup {call[c].plan}] \in Projection
        BY <1>0, <4>1 DEF TypeOK, Projection
      <4>3. PICK ok \in BOOLEAN : Publish([state EXCEPT !.plans = @ \cup {call[c].plan}], ok)
        BY <2>2, <3>1 DEF PrepareCommit
      <4> QED BY <1>0, <4>2, <4>3, PublishCosts DEF Spends
    <3> QED BY <1>1, <2>2, <3>1 DEF PrepareCommit
  <2>3. CASE CancelCommit(c) \/ \E j \in Job : StartCommit(c, j)
    <3>1. CASE JobsKept
      <4>1. ASSUME NEW new, NEW ok \in BOOLEAN, Publish(new, ok)
            PROVE  Spends
        <5>1. CASE budget' = [budget EXCEPT !.faults = @ - 1]
          <6>1. budget'.faults = budget.faults - 1 /\ budget'.crashes = budget.crashes
            BY <1>0, <5>1 DEF Budget
          <6> QED BY <1>0, <6>1 DEF Spends
        <5> QED BY <1>1, <4>1, <5>1 DEF Publish
      <4> QED BY <2>3, <4>1 DEF CancelCommit, StartCommit
    <3> QED BY <1>4, <2>1, <3>1, CommandEdits
  <2>4. CASE StartRefused(c) \/ StartSchedule(c) \/ RecoverReturn(c) \/ CancelSignal(c)
    BY <1>1, <2>4 DEF StartRefused, StartSchedule, RecoverReturn, CancelSignal
  <2>5. CASE CancelGate(c) \/ CancelArm(c) \/ CancelCheck(c) \/ CancelWake(c) \/ StopFlag(c)
    BY <1>1, <2>5 DEF CancelGate, CancelArm, CancelCheck, CancelWake, StopFlag
  <2>6. CASE StopDrained(c) \/ StopPolls(c) \/ StopClear(c) \/ (\E j \in Job : RecoverSchedule(c, j))
    BY <1>1, <2>6 DEF StopDrained, StopPolls, StopClear, RecoverSchedule, vars
  <2>7. CASE Invoke(c)
    BY <1>1, <2>7 DEF Invoke, PrepareCall, AuthorizeCall, StartConsume, PromptApproved, CallRefused,
                RecoverCall, StopCall, CancelCall
  <2> QED BY <1>4, <2>2, <2>3, <2>4, <2>5, <2>6, <2>7 DEF Handle
<1>5. CASE Elsewhere
  <2>1. ASSUME NEW landed \in SUBSET Job, Crash(landed)
        PROVE  budget'.crashes < budget.crashes /\ Spends
    <3>1. budget'.crashes = budget.crashes - 1 /\ budget'.faults = budget.faults
      BY <1>0, <2>1 DEF Crash, Budget
    <3> QED BY <1>0, <3>1 DEF Spends
  <2>2. CASE OpenFails
    <3>1. budget'.crashes = budget.crashes /\ budget'.faults = budget.faults - 1
      BY <1>0, <2>2 DEF OpenFails, Budget
    <3> QED BY <1>0, <2>2, <3>1 DEF Spends, OpenFails
  <2>3. CASE Open \/ AtRest \/ \E p \in Plan : GrantExpires(p)
    BY <1>1, <2>3 DEF Open, AtRest, GrantExpires, vars
  <2> QED BY <1>5, <2>1, <2>2, <2>3 DEF Elsewhere, OpenFails, Open, AtRest, GrantExpires, vars
<1>6. Spends
  BY <1>3, <1>4, <1>5, NextCases
<1>7. up /\ ~up' => budget'.crashes < budget.crashes
  <2>1. ASSUME NEW landed \in SUBSET Job, Crash(landed)
        PROVE  budget'.crashes < budget.crashes
    <3>1. budget'.crashes = budget.crashes - 1
      BY <1>0, <2>1 DEF Crash, Budget
    <3> QED BY <1>0, <3>1
  <2>2. ASSUME up, ~up'
        PROVE  \E landed \in SUBSET Job : Crash(landed)
    BY <2>2, StepKinds DEF WorkStep, CommandStep, Elsewhere, Open, OpenFails, AtRest, GrantExpires, vars
  <2> QED BY <2>1, <2>2
<1> QED BY <1>6, <1>7

(* So the bounds hold, and an interruption is never forgotten.              *)
LEMMA BudgetStep ==
  ASSUME IInv, BudgetOk, Next
  PROVE  BudgetOk' /\ (Interrupted => Interrupted') /\ (up /\ ~up' => Interrupted')
<1>1. /\ budget.faults \in Nat /\ budget.crashes \in Nat
      /\ budget'.faults \in Nat /\ budget'.crashes \in Nat
  BY TypeStep DEF IInv, TypeOK, Budget
<1> QED BY <1>1, BudgetMoves, BoundsAssumption DEF Spends, BudgetOk, Interrupted

(* The numbers of a job and of a worker.                                    *)
LEMMA Numbers ==
  ASSUME TypeOK, NEW j \in Job
  PROVE  /\ worker[j] \in WorkerRecord /\ applied[j] \in Nat
         /\ worker[j].next \in Nat /\ worker[j].allowed \in Nat /\ worker[j].skipped \in Nat
         /\ state.jobs[j] \in JobRecord /\ store.jobs[j] \in JobRecord
         /\ \A job \in {state.jobs[j], store.jobs[j]} :
              /\ job.next \in Nat /\ job.deleted \in Nat /\ job.skipped \in Nat
              /\ job.failed \in Nat /\ job.uncertain \in Nat
BY DEF TypeOK, WorkerRecord, Projection, JobRecord

(* What progress adds to the counters: the batch, all of it, once.          *)
Added(j, job, d, f, u) ==
  LET old == state.jobs[j]  w == worker[j] IN
  /\ job.plan = old.plan /\ job.next = w.next + 1
  /\ job.deleted = old.deleted + d /\ job.skipped = old.skipped + w.skipped
  /\ job.failed = old.failed + f /\ job.uncertain = old.uncertain + u
  /\ ~job.retry
  /\ \/ job.status = old.status
     \/ IsFatal(w.result) /\ job.status \in {"Partial", "Failed"}

LEMMA ProgressedAccounts ==
  ASSUME IInv, NEW j \in Job, CursorOk(j), worker[j].pc = "settle", worker[j].result # "rate"
  PROVE  \E d, f, u \in Nat : /\ Added(j, Progressed(j), d, f, u)
                              /\ d + worker[j].skipped + f + u = Size(j)
                              /\ Unrecorded(j) <= d + u
                              /\ worker[j].result \in {"soft", "fatal"} => d = 0 /\ u = 0
<1> DEFINE w == worker[j]
           job == state.jobs[j]
           d == DeletedNow(j)
           f == IF w.result \in {"soft", "fatal"} THEN Affected(j) ELSE 0
           u == IF w.result = "ambiguous" THEN Affected(j) ELSE 0
           counted == [job EXCEPT !.next = Cursor(j), !.skipped = @ + w.skipped,
                                  !.deleted = @ + d, !.failed = @ + f,
                                  !.uncertain = @ + u, !.retry = FALSE]
<1>1. /\ TypeOK /\ WorkersOk /\ RecordsOk /\ BatchesOk /\ w \in WorkerRecord
      /\ w.next \in Nat /\ w.allowed \in Nat /\ w.skipped \in Nat
      /\ w.result \in {"ok", "ambiguous", "soft", "fatal"} /\ job \in JobRecord
  BY Numbers DEF IInv, WorkerRecord, Result
<1>2. job.plan \in Plan /\ w.next < Count(job.plan) /\ w.allowed + w.skipped <= Size(j)
  BY <1>1 DEF WorkersOk, WorkerOk, RecordsOk, Valid, BatchesOk, BatchOk, InBatch, TypeOK, ControlRecord
<1>3. Size(j) \in Nat
  BY <1>1, <1>2, BatchFacts DEF Size
<1>4. Affected(j) = Size(j) - w.skipped /\ Affected(j) \in Nat /\ w.allowed <= Affected(j)
  BY <1>1, <1>2, <1>3 DEF Affected
<1>5. w.result = "ok" => w.allowed + w.skipped = Size(j)
  BY DEF CursorOk, InBatch
<1>6. d = IF w.result = "ok" THEN w.allowed ELSE 0
  BY DEF DeletedNow
<1>7. Unrecorded(j) = IF w.result \in {"ok", "ambiguous"} THEN w.allowed ELSE 0
  BY DEF Unrecorded
<1>8. /\ d \in Nat /\ f \in Nat /\ u \in Nat
      /\ d + w.skipped + f + u = Size(j) /\ Unrecorded(j) <= d + u
      /\ w.result \in {"soft", "fatal"} => d = 0 /\ u = 0
  <2>1. CASE w.result = "ok"
    <3>1. d = w.allowed /\ f = 0 /\ u = 0 /\ Unrecorded(j) = w.allowed
      BY <1>6, <1>7, <2>1
    <3> QED BY <1>1, <1>3, <1>5, <2>1, <3>1
  <2>2. CASE w.result = "ambiguous"
    <3>1. d = 0 /\ f = 0 /\ u = Affected(j) /\ Unrecorded(j) = w.allowed
      BY <1>6, <1>7, <2>2
    <3>2. w.result \notin {"soft", "fatal"}
      BY <2>2
    <3> HIDE DEF d, f, u, w, job
    <3> QED BY <1>1, <1>3, <1>4, <3>1, <3>2
  <2>3. CASE w.result \in {"soft", "fatal"}
    <3>1. d = 0 /\ f = Affected(j) /\ u = 0 /\ Unrecorded(j) = 0
      BY <1>6, <1>7, <2>3
    <3> QED BY <1>1, <1>3, <1>4, <3>1
  <2> QED BY <1>1, <2>1, <2>2, <2>3
<1>9. Progressed(j) = IF IsFatal(w.result) /\ job.status # "Cancelled" THEN Stopped(counted) ELSE counted
  BY DEF Progressed
<1> HIDE DEF d, f, u
<1>10. /\ counted.plan = job.plan /\ counted.next = w.next + 1
       /\ counted.deleted = job.deleted + d /\ counted.skipped = job.skipped + w.skipped
       /\ counted.failed = job.failed + f /\ counted.uncertain = job.uncertain + u
       /\ ~counted.retry /\ counted.status = job.status
  BY <1>1 DEF JobRecord, Cursor
<1>11. LET s == Stopped(counted) IN
       /\ s.plan = counted.plan /\ s.next = counted.next /\ s.deleted = counted.deleted
       /\ s.skipped = counted.skipped /\ s.failed = counted.failed
       /\ s.uncertain = counted.uncertain /\ ~s.retry
       /\ s.status \in {"Partial", "Failed"}
  BY <1>1 DEF Stopped, JobRecord
<1> HIDE DEF counted
<1>12. Added(j, Progressed(j), d, f, u)
  BY <1>9, <1>10, <1>11 DEF Added
<1> QED BY <1>8, <1>12

(* What a job was relabelled to adds up as it did, and so does progress.    *)
LEMMA RelabelledAdds ==
  ASSUME NEW job, NEW old, Relabelled(job, old), Present(old), AddsUp(old)
  PROVE  AddsUp(job)
BY DEF Relabelled, AddsUp

LEMMA ProgressedAdds ==
  ASSUME IInv, NEW j \in Job, CursorOk(j), AddsUp(state.jobs[j]),
         worker[j].pc = "settle", worker[j].result # "rate"
  PROVE  AddsUp(Progressed(j)) /\ Progressed(j).next = worker[j].next + 1
<1>1. PICK d, f, u \in Nat : /\ Added(j, Progressed(j), d, f, u)
                             /\ d + worker[j].skipped + f + u = Size(j)
  BY ProgressedAccounts
<1>2. /\ worker[j].next \in Nat /\ worker[j].skipped \in Nat
      /\ state.jobs[j].deleted \in Nat /\ state.jobs[j].skipped \in Nat
      /\ state.jobs[j].failed \in Nat /\ state.jobs[j].uncertain \in Nat
  BY Numbers DEF IInv
<1>3. state.jobs[j].plan \in Plan /\ worker[j].next < Count(state.jobs[j].plan) /\ Present(state.jobs[j])
  BY DEF IInv, WorkersOk, WorkerOk, RecordsOk, Valid, BatchesOk, BatchOk, InBatch, TypeOK, ControlRecord
<1>4. state.jobs[j].next = worker[j].next
  BY DEF CursorOk, Loop, InBatch
<1> DEFINE p == state.jobs[j].plan
           n == worker[j].next
<1>5. Before(p, n) \in Nat /\ Before(p, n + 1) \in Nat /\ Size(j) = Before(p, n + 1) - Before(p, n)
  BY <1>2, <1>3, BatchFacts DEF Size, SizeOf
<1>6. state.jobs[j].deleted + state.jobs[j].skipped + state.jobs[j].failed + state.jobs[j].uncertain
        = Before(p, n)
  BY <1>3, <1>4 DEF AddsUp
<1> HIDE DEF p, n
<1>7. Progressed(j).next = n + 1 /\ Progressed(j).plan = p
  BY <1>1 DEF Added, p, n
<1>8. Progressed(j).deleted + Progressed(j).skipped + Progressed(j).failed + Progressed(j).uncertain
        = Before(p, n + 1)
  <2>1. /\ Progressed(j).deleted = state.jobs[j].deleted + d
        /\ Progressed(j).skipped = state.jobs[j].skipped + worker[j].skipped
        /\ Progressed(j).failed = state.jobs[j].failed + f
        /\ Progressed(j).uncertain = state.jobs[j].uncertain + u
    BY <1>1 DEF Added
  <2> DEFINE a == state.jobs[j].deleted
             b == state.jobs[j].skipped
             c == state.jobs[j].failed
             e == state.jobs[j].uncertain
             k == worker[j].skipped
             x == Before(p, n)
             y == Before(p, n + 1)
  <2>2. /\ a \in Nat /\ b \in Nat /\ c \in Nat /\ e \in Nat /\ k \in Nat /\ x \in Nat /\ y \in Nat
        /\ a + b + c + e = x
        /\ d + k + f + u = y - x
    BY <1>1, <1>2, <1>5, <1>6
  <2> HIDE DEF a, b, c, e, k, x, y
  <2>3. (a + d) + (b + k) + (c + f) + (e + u) = y
    BY <1>1, <2>2
  <2> QED BY <2>1, <2>3 DEF a, b, c, e, k, y
<1> QED BY <1>7, <1>8 DEF AddsUp, n

(* What an edit leaves of the copies of every job.                          *)
LEMMA EditCopies ==
  ASSUME NEW j \in Job, NEW job, NEW ok \in BOOLEAN, Edit(j, job, ok)
  PROVE  /\ state'.jobs[j] \in {state.jobs[j], job} /\ store'.jobs[j] \in {store.jobs[j], job}
         /\ ok => state'.jobs[j] = job /\ store'.jobs[j] = job /\ store = state
         /\ store'.jobs[j] = store.jobs[j] \/ store = state
         /\ \A i \in Job \ {j} : state'.jobs[i] = state.jobs[i] /\ store'.jobs[i] = store.jobs[i]
BY DEF Edit, JobStep

(* A relabelled job, what progress made of it, or a new one.                *)
LEMMA EditKinds ==
  ASSUME IInv, NEW j \in Job, NEW job \in JobRecord, NEW ok \in BOOLEAN, EditStepOf(j, job, ok)
  PROVE  /\ Edit(j, job, ok)
         /\ \/ Present(state.jobs[j]) /\ Relabelled(job, state.jobs[j])
            \/ /\ Present(state.jobs[j]) /\ job = Progressed(j)
               /\ worker[j].pc = "settle" /\ worker[j].result # "rate"
            \/ /\ ~Present(state.jobs[j]) /\ ~Present(store.jobs[j])
               /\ \E p \in Plan : job = NewJob(p)
<1>1. state.jobs[j] \in JobRecord
  BY Numbers DEF IInv
<1>2. CASE WorkEdit(j, job, ok)
  BY <1>2 DEF WorkEdit, Claims, SeesCancelled, Waits, Progresses, Resumes, Finalizes, Closes,
              Labels, Goes
<1>3. ASSUME NEW c \in Client, CancelEdit(c, j, ok), job = Cancelled(state.jobs[j])
      PROVE  Edit(j, job, ok) /\ Present(state.jobs[j]) /\ Relabelled(job, state.jobs[j])
  BY <1>1, <1>3, EditsRelabel DEF CancelEdit
<1>4. ASSUME NEW c \in Client, StartEdit(c, j, ok), job = NewJob(call[c].plan)
      PROVE  /\ Edit(j, job, ok) /\ ~Present(state.jobs[j]) /\ ~Present(store.jobs[j])
             /\ \E p \in Plan : job = NewJob(p)
  BY <1>4 DEF StartEdit
<1> QED BY <1>2, <1>3, <1>4 DEF EditStepOf

(* What opening the file makes of a job.                                    *)
LEMMA RecoveredRelabels ==
  ASSUME TypeOK, RecordsOk, NEW j \in Job
  PROVE  LET r == Recovered(state).jobs[j]  s == state.jobs[j] IN
         /\ Relabelled(r, s) /\ (Present(r) <=> Present(s)) /\ (r.retry => s.retry)
         /\ Present(r) => Terminal(r)
         /\ r.status = "Completed" => r = s
<1> DEFINE s == state.jobs[j]
           r == Recovered(state).jobs[j]
<1>1. s \in JobRecord
  BY Numbers
<1>2. r = IF Unfinished(s) THEN Stopped(s) ELSE s
  BY RecoveredForm DEF TypeOK
<1>3. /\ Relabelled(Stopped(s), s) /\ ~Stopped(s).retry
      /\ Stopped(s).status \in {"Partial", "Failed"}
  BY <1>1 DEF JobRecord, Relabelled, Stopped
<1> HIDE DEF r, s
<1>4. CASE Unfinished(s)
  <2>1. r = Stopped(s) /\ Present(s)
    BY <1>2, <1>4 DEF Unfinished
  <2>2. Present(r) /\ Terminal(r) /\ r.status # "Completed"
    BY <1>3, <2>1 DEF Present, Terminal, TerminalStatus
  <2> QED BY <1>3, <2>1, <2>2 DEF r, s
<1>5. CASE ~Unfinished(s)
  <2>1. r = s /\ Relabelled(s, s) /\ (Present(s) => Terminal(s))
    BY <1>2, <1>5 DEF Unfinished, Relabelled
  <2> QED BY <2>1 DEF r, s
<1> QED BY <1>4, <1>5

(* The copies of a job after a step of the environment.                     *)
LEMMA ElsewhereCopies ==
  ASSUME IInv, Elsewhere, NEW j \in Job
  PROVE  \/ state'.jobs[j] = state.jobs[j] /\ store'.jobs[j] = store.jobs[j] /\ up' = up
         \/ state'.jobs[j] = store.jobs[j] /\ store'.jobs[j] = store.jobs[j] /\ ~up'
         \/ /\ ~up /\ state'.jobs[j] \in {state.jobs[j], Recovered(state).jobs[j]}
            /\ store'.jobs[j] = state'.jobs[j]
BY ElsewhereMoves DEF IInv

(* Sums: a worker adds its batch once, everybody else keeps the counters.   *)
LEMMA SumsStep ==
  ASSUME IInv, SumsOk, CursorsOk, Next
  PROVE  SumsOk'
<1>1. ASSUME NEW j \in Job, NEW job \in JobRecord, NEW ok \in BOOLEAN, EditStepOf(j, job, ok)
      PROVE  SumsOk'
  <2>1. AddsUp(job)
    <3>1. CASE Present(state.jobs[j]) /\ Relabelled(job, state.jobs[j])
      BY <3>1, RelabelledAdds DEF SumsOk
    <3>2. CASE job = Progressed(j) /\ worker[j].pc = "settle" /\ worker[j].result # "rate"
      BY <3>2, ProgressedAdds DEF SumsOk, CursorsOk
    <3>3. ASSUME NEW p \in Plan, job = NewJob(p)
          PROVE  AddsUp(job)
      BY <3>3 DEF AddsUp, NewJob, NoJob, Before
    <3> QED BY <1>1, <3>1, <3>2, <3>3, EditKinds
  <2>2. Edit(j, job, ok)
    BY <1>1, EditKinds
  <2> QED BY <2>1, <2>2, EditCopies DEF SumsOk, AddsUp, Present
<1>2. CASE QuietStep
  BY <1>2 DEF QuietStep, JobsKept, SumsOk, AddsUp, Present
<1>3. CASE Elsewhere
  <2> SUFFICES ASSUME NEW j \in Job PROVE AddsUp(state'.jobs[j]) /\ AddsUp(store'.jobs[j])
    BY DEF SumsOk, AddsUp, Present
  <2>1. AddsUp(state.jobs[j]) /\ AddsUp(store.jobs[j])
    BY DEF SumsOk
  <2>2. AddsUp(Recovered(state).jobs[j])
    BY <2>1, RecoveredRelabels DEF IInv, Relabelled, AddsUp
  <2> QED BY <1>3, <2>1, <2>2, ElsewhereCopies
<1> QED BY <1>1, <1>2, <1>3, LedgerKinds

-----------------------------------------------------------------------------
(* Where the worker stands.                                                 *)

(* A step of a worker that publishes nothing, by what it does to the record *)
(* of the worker and to what is removed.                                    *)
Keeps(j) == /\ worker'[j].next = worker[j].next
            /\ applied'[j] = applied[j] /\ denied'[j] = denied[j]
InHand(j) == worker[j].allowed + worker[j].skipped

Outward(j) == /\ worker[j].pc # "settle" /\ worker'[j].pc \in Outside
              /\ applied'[j] = applied[j] /\ denied'[j] = denied[j]
Exhausts(j) == /\ worker[j].pc = "top" /\ worker'[j].pc = "final" /\ Keeps(j)
               /\ PastLastBatch(j)
Begins(j) == /\ worker[j].pc = "top" /\ Keeps(j)
             /\ worker'[j].pc = "reach" /\ worker'[j].result = "ok"
             /\ worker'[j].allowed = 0 /\ worker'[j].skipped = 0 /\ ~PastLastBatch(j)
Reaches(j) == /\ worker[j].pc = "reach" /\ Keeps(j)
              /\ InHand(j) + Gone(j) < Size(j)
              /\ worker'[j].result = worker[j].result
              /\ worker'[j].allowed + worker'[j].skipped = InHand(j) + 1
              /\ worker'[j].pc = IF InHand(j) + 1 = Size(j) THEN "reached" ELSE "reach"
Misses(j) == /\ Keeps(j) /\ worker'[j].result \notin {"ok", "ambiguous"}
             /\ worker'[j].allowed = worker[j].allowed
             /\ worker'[j].skipped = worker[j].skipped
             /\ \/ worker[j].pc = "reach" /\ worker'[j].pc = "reached"
                \/ worker[j].pc \in {"mutate", "gate"} /\ worker'[j].pc = "settle"
Advances(j) ==
  /\ Keeps(j)
  /\ worker[j].pc \in {"reached", "mutate", "gate"}
  /\ \E pc \in {"mutate", "gate", "flight", "settle"} :
       /\ worker'[j] = [worker[j] EXCEPT !.pc = pc]
       /\ pc # "settle" => worker[j].result = "ok" \/ worker[j].pc # "reached"
Answers(j) ==
  /\ worker[j].pc = "flight" /\ worker'[j].pc = "settle"
  /\ worker'[j].next = worker[j].next /\ worker'[j].allowed = worker[j].allowed
  /\ worker'[j].skipped = worker[j].skipped
  /\ \/ applied'[j] = applied[j]
     \/ /\ applied'[j] = applied[j] + worker[j].allowed
        /\ worker'[j].result \in {"ok", "ambiguous"}
  /\ \/ denied'[j] = denied[j]
     \/ denied'[j] = Denied(j) /\ worker'[j].result \in {"rate", "soft", "fatal"}
Advanced(j) == /\ worker[j].pc = "post" /\ worker'[j].pc = "top"
               /\ worker'[j].next = worker[j].next + 1
               /\ applied'[j] = applied[j] /\ denied'[j] = denied[j]
               /\ ~IsFatal(worker[j].result)
Wakes(j) == worker[j].pc = "wait" /\ worker'[j].pc = "resume" /\ Keeps(j)

QuietMove(j) ==
  \/ Outward(j) \/ Exhausts(j) \/ Begins(j) \/ Reaches(j) \/ Misses(j) \/ Advances(j)
  \/ Answers(j) \/ Advanced(j) \/ Wakes(j)

LEMMA QuietMoves ==
  ASSUME TypeOK, NEW j \in Job, QuietWork(j)
  PROVE  QuietMove(j)
<1> USE DEF Keeps, Outside, Leaving
<1>1. /\ worker \in [Job -> WorkerRecord] /\ worker[j] \in WorkerRecord
      /\ applied \in [Job -> Nat] /\ applied[j] \in Nat /\ denied \in [Job -> Denial]
      /\ worker[j].next \in Nat /\ worker[j].allowed \in Nat /\ worker[j].skipped \in Nat
  BY DEF TypeOK, WorkerRecord
<1>2. CASE RunStart(j) \/ Finish(j) \/ NotifyWaiters(j) \/ Unmap(j)
  <2>1. Outward(j)
    BY <1>1, <1>2 DEF RunStart, Finish, NotifyWaiters, Unmap, Goto, At, NoWorker, WorkerRecord, Outward
  <2> QED BY <2>1 DEF QuietMove
<1>3. CASE NextBatch(j)
  <2>1. CASE PastLastBatch(j)
    <3>1. Exhausts(j)
      BY <1>1, <1>3, <2>1 DEF NextBatch, Goto, At, WorkerRecord, Exhausts
    <3> QED BY <3>1 DEF QuietMove
  <2>2. CASE ~PastLastBatch(j)
    <3>1. Begins(j)
      BY <1>1, <1>3, <2>2 DEF NextBatch, At, WorkerRecord, Begins
    <3> QED BY <3>1 DEF QuietMove
  <2> QED BY <2>1, <2>2
<1>4. ASSUME NEW answer \in {"yes", "no", "rate", "soft", "fatal"}, Reach(j, answer)
      PROVE  QuietMove(j)
  <2>1. worker[j].pc = "reach" /\ applied' = applied /\ denied' = denied
    BY <1>4 DEF Reach, At
  <2>2. CASE worker'[j] = [worker[j] EXCEPT !.pc = "reached", !.result = answer]
             /\ answer \in {"rate", "soft", "fatal"}
    <3>1. Misses(j)
      BY <1>1, <2>1, <2>2 DEF Misses, WorkerRecord
    <3> QED BY <3>1 DEF QuietMove
  <2>3. CASE worker'[j] = [worker[j] EXCEPT !.pc = "reached", !.result = CheckError]
    <3>1. Misses(j)
      BY <1>1, <2>1, <2>3 DEF Misses, WorkerRecord, CheckError
    <3> QED BY <3>1 DEF QuietMove
  <2> DEFINE on == IF InHand(j) + 1 = Size(j) THEN "reached" ELSE "reach"
  <2>4. CASE /\ InHand(j) + Gone(j) < Size(j)
             /\ \/ worker'[j] = [worker[j] EXCEPT !.pc = on, !.allowed = @ + 1]
                \/ worker'[j] = [worker[j] EXCEPT !.pc = on, !.skipped = @ + 1]
    <3> HIDE DEF on
    <3>1. /\ worker'[j].pc = on /\ worker'[j].next = worker[j].next
          /\ worker'[j].result = worker[j].result
          /\ \/ /\ worker'[j].allowed = worker[j].allowed + 1
                /\ worker'[j].skipped = worker[j].skipped
             \/ /\ worker'[j].allowed = worker[j].allowed
                /\ worker'[j].skipped = worker[j].skipped + 1
      BY <1>1, <2>4 DEF WorkerRecord
    <3>2. worker'[j].allowed + worker'[j].skipped = InHand(j) + 1
      BY <1>1, <3>1 DEF InHand
    <3>3. Reaches(j)
      BY <2>1, <2>4, <3>1, <3>2 DEF Reaches, on
    <3> QED BY <3>3 DEF QuietMove
  <2>5. \/ worker'[j] = [worker[j] EXCEPT !.pc = "reached", !.result = answer]
             /\ answer \in {"rate", "soft", "fatal"}
        \/ worker'[j] = [worker[j] EXCEPT !.pc = "reached", !.result = CheckError]
        \/ /\ InHand(j) + Gone(j) < Size(j)
           /\ \/ worker'[j] = [worker[j] EXCEPT !.pc = on, !.allowed = @ + 1]
              \/ worker'[j] = [worker[j] EXCEPT !.pc = on, !.skipped = @ + 1]
    <3>1. answer \in {"yes", "no"} => InHand(j) + Gone(j) < Size(j)
      BY <1>4 DEF Reach, InHand
    <3> QED BY <1>1, <1>4, <3>1 DEF Reach, InHand
  <2> HIDE DEF on
  <2> QED BY <2>2, <2>3, <2>4, <2>5
<1>5. CASE Reached(j)
  <2>1. Advances(j)
    BY <1>1, <1>5 DEF Reached, Goto, At, WorkerRecord, Advances
  <2> QED BY <2>1 DEF QuietMove
<1>6. CASE MutateCheck(j)
  <2>1. CASE Check
    <3>1. Advances(j)
      BY <1>1, <1>6, <2>1 DEF MutateCheck, At, WorkerRecord, Advances
    <3> QED BY <3>1 DEF QuietMove
  <2>2. CASE ~Check
    <3>1. Misses(j)
      BY <1>1, <1>6, <2>2 DEF MutateCheck, At, WorkerRecord, Misses, CheckError
    <3> QED BY <3>1 DEF QuietMove
  <2> QED BY <2>1, <2>2
<1>7. CASE EnterGate(j)
  <2>1. CASE GateOpen(j)
    <3>1. Advances(j)
      BY <1>1, <1>7, <2>1 DEF EnterGate, At, WorkerRecord, Advances
    <3> QED BY <3>1 DEF QuietMove
  <2>2. CASE ~GateOpen(j)
    <3>1. Misses(j)
      BY <1>1, <1>7, <2>2 DEF EnterGate, At, WorkerRecord, Misses
    <3> QED BY <3>1 DEF QuietMove
  <2> QED BY <2>1, <2>2
<1>8. ASSUME NEW answer \in Result, NEW removed \in BOOLEAN, Answer(j, answer, removed)
      PROVE  QuietMove(j)
  <2>1. /\ worker[j].pc = "flight" /\ worker'[j].pc = "settle"
        /\ worker'[j].next = worker[j].next /\ worker'[j].allowed = worker[j].allowed
        /\ worker'[j].skipped = worker[j].skipped /\ worker'[j].result = Believed(answer)
    BY <1>1, <1>8 DEF Answer, At, WorkerRecord
  <2>2. \/ /\ Believed(answer) \in {"rate", "soft", "fatal"}
           /\ denied'[j] = Denied(j) /\ applied'[j] = applied[j]
        \/ /\ denied'[j] = denied[j]
           /\ removed => Believed(answer) \in {"ok", "ambiguous"}
           /\ applied'[j] = applied[j] + (IF removed THEN worker[j].allowed ELSE 0)
    BY <1>1, <1>8 DEF Answer, Believed, Result
  <2>3. Answers(j)
    BY <1>1, <2>1, <2>2 DEF Answers
  <2> QED BY <2>3 DEF QuietMove
<1>9. CASE AfterBatch(j)
  <2>1. CASE IsFatal(worker[j].result)
    <3>1. Outward(j)
      BY <1>1, <1>9, <2>1 DEF AfterBatch, At, WorkerRecord, Outward
    <3> QED BY <3>1 DEF QuietMove
  <2>2. CASE ~IsFatal(worker[j].result)
    <3>1. Advanced(j)
      BY <1>1, <1>9, <2>2 DEF AfterBatch, At, WorkerRecord, Advanced
    <3> QED BY <3>1 DEF QuietMove
  <2> QED BY <2>1, <2>2
<1>10. CASE WaitOver(j)
  <2>1. Outward(j) \/ Wakes(j)
    BY <1>1, <1>10 DEF WaitOver, Goto, At, WorkerRecord, Outward, Wakes
  <2> QED BY <2>1 DEF QuietMove
<1> QED BY <1>2, <1>3, <1>4, <1>5, <1>6, <1>7, <1>8, <1>9, <1>10 DEF QuietWork

(* An edit is the work of the job's worker, or a command's, which leaves    *)
(* workers alone.                                                           *)
Ordered(j, job) ==
  /\ UNCHANGED <<worker, control, applied, denied>>
  /\ \/ Present(state.jobs[j]) /\ job = Cancelled(state.jobs[j])
     \/ /\ ~Present(state.jobs[j]) /\ ~Present(store.jobs[j]) /\ worker[j].pc = "off"
        /\ \E p \in Plan : job = NewJob(p)

LEMMA EditSources ==
  ASSUME IInv, NEW j \in Job, NEW job \in JobRecord, NEW ok \in BOOLEAN, EditStepOf(j, job, ok)
  PROVE  /\ Edit(j, job, ok) /\ up /\ up' = up
         /\ \A i \in Job \ {j} : Untouched(i)
         /\ WorkEdit(j, job, ok) \/ Ordered(j, job)
<1>1. CASE Work(j) /\ WorkStep(j) /\ WorkEdit(j, job, ok)
  BY <1>1 DEF WorkStep, WorkEdit
<1>2. ASSUME NEW c \in Client, CommandStep(c), CancelEdit(c, j, ok), job = Cancelled(state.jobs[j])
      PROVE  Edit(j, job, ok) /\ up /\ up' = up /\ Ordered(j, job) /\ \A i \in Job \ {j} : Untouched(i)
  <2>1. /\ Edit(j, job, ok) /\ Present(state.jobs[j]) /\ up /\ up' = up
        /\ UNCHANGED <<worker, control, applied, denied>>
    BY <1>2 DEF CancelEdit, CancelCommit, CallFrame, CommandStep
  <2> QED BY <1>2, <2>1, EditCopies DEF Ordered, Untouched
<1>3. ASSUME NEW c \in Client, CommandStep(c), StartEdit(c, j, ok), job = NewJob(call[c].plan)
      PROVE  Edit(j, job, ok) /\ up /\ up' = up /\ Ordered(j, job) /\ \A i \in Job \ {j} : Untouched(i)
  <2>1. /\ Edit(j, job, ok) /\ ~Present(state.jobs[j]) /\ ~Present(store.jobs[j])
        /\ call[c].plan \in Plan /\ up /\ up' = up
        /\ UNCHANGED <<worker, control, applied, denied>>
    BY <1>3 DEF StartEdit, StartCommit, CallFrame, CommandStep
  <2>2. worker[j].pc = "off"
    BY <2>1 DEF IInv, WorkersOk, WorkerOk
  <2> QED BY <1>3, <2>1, <2>2, EditCopies DEF Ordered, Untouched
<1> QED BY <1>1, <1>2, <1>3 DEF EditStepOf

(* A worker and a job that are left alone keep their cursor.                *)
LEMMA CursorKept ==
  ASSUME NEW i \in Job, CursorOk(i), worker'[i] = worker[i],
         state'.jobs[i] = state.jobs[i], store'.jobs[i] = store.jobs[i]
  PROVE  CursorOk(i)'
BY DEF CursorOk, Size, Cancelled

(* A worker outside its loop has none.                                      *)
LEMMA CursorOutside ==
  ASSUME NEW i \in Job, worker'[i].pc \in Outside
  PROVE  CursorOk(i)'
BY DEF CursorOk, Outside, Leaving, Loop, InBatch

(* Steps of a worker that publish nothing.                                  *)
LEMMA CursorQuiet ==
  ASSUME IInv, NEW j \in Job, CursorOk(j), QuietMove(j),
         state'.jobs[j] = state.jobs[j], store'.jobs[j] = store.jobs[j]
  PROVE  CursorOk(j)'
<1> USE DEF Loop, InBatch, Keeps
<1> DEFINE job == state.jobs[j]
<1>1. /\ worker[j] \in WorkerRecord /\ worker[j].next \in Nat
      /\ worker[j].allowed \in Nat /\ worker[j].skipped \in Nat
      /\ job \in JobRecord /\ job.next \in Nat
  BY Numbers DEF IInv
<1>2. /\ state'.jobs[j] = job /\ store'.jobs[j] = store.jobs[j]
      /\ Cancelled(state'.jobs[j]) = Cancelled(job)
  BY DEF Cancelled
<1>3. worker'[j].next = worker[j].next => Size(j)' = Size(j)
  BY DEF Size
<1>4. CASE Outward(j)
  BY <1>4, CursorOutside DEF Outward
<1>5. CASE Exhausts(j)
  <2>1. worker[j].pc # "off"
    BY <1>5 DEF Exhausts
  <2>2. job.plan \in Plan /\ job.next <= Count(job.plan)
    BY <2>1 DEF IInv, WorkersOk, WorkerOk, RecordsOk, Valid, TypeOK, ControlRecord
  <2>3. job.next >= Count(job.plan) /\ Count(job.plan) \in Nat
    BY <1>5, <2>2, EndsAssumption DEF Exhausts, PastLastBatch, CursorOk, Count
  <2>4. job.next = Count(job.plan)
    BY <1>1, <2>2, <2>3
  <2> QED BY <1>2, <1>5, <2>4 DEF Exhausts, CursorOk
<1>6. CASE Begins(j)
  BY <1>2, <1>6 DEF Begins, CursorOk
<1>7. CASE Reaches(j)
  BY <1>2, <1>3, <1>7 DEF Reaches, CursorOk
<1>8. CASE Misses(j)
  BY <1>2, <1>3, <1>8 DEF Misses, CursorOk
<1>9. CASE Advances(j)
  <2>1. PICK pc \in {"mutate", "gate", "flight", "settle"} :
          /\ worker'[j] = [worker[j] EXCEPT !.pc = pc]
          /\ pc # "settle" => worker[j].result = "ok" \/ worker[j].pc # "reached"
    BY <1>9 DEF Advances
  <2>2. /\ worker'[j].pc = pc /\ worker'[j].next = worker[j].next
        /\ worker'[j].allowed = worker[j].allowed /\ worker'[j].skipped = worker[j].skipped
        /\ worker'[j].result = worker[j].result
    BY <1>1, <2>1 DEF WorkerRecord
  <2> QED BY <1>2, <1>3, <1>9, <2>1, <2>2 DEF Advances, CursorOk
<1>10. CASE Answers(j)
  BY <1>2, <1>3, <1>10 DEF Answers, CursorOk
<1>11. CASE Advanced(j)
  BY <1>1, <1>2, <1>11 DEF Advanced, CursorOk
<1>12. CASE Wakes(j)
  BY <1>2, <1>12 DEF Wakes, CursorOk
<1> QED BY <1>4, <1>5, <1>6, <1>7, <1>8, <1>9, <1>10, <1>11, <1>12 DEF QuietMove

(* Steps of a worker that publish.                                          *)
LEMMA CursorEdits ==
  ASSUME IInv, NEW j \in Job, CursorOk(j), NEW job \in JobRecord, NEW ok \in BOOLEAN,
         WorkEdit(j, job, ok)
  PROVE  CursorOk(j)'
<1> USE DEF Loop, InBatch
<1> DEFINE old == state.jobs[j]
<1>1. /\ worker[j] \in WorkerRecord /\ worker[j].next \in Nat
      /\ old \in JobRecord /\ old.next \in Nat
  BY Numbers DEF IInv
<1>2. ok => state'.jobs[j] = job /\ store'.jobs[j] = job
  BY EditCopies DEF WorkEdit
<1>3. \A pc \in {"finish", "fail"} : worker'[j] = [worker[j] EXCEPT !.pc = pc] => CursorOk(j)'
  <2>1. \A pc \in {"finish", "fail"} :
          worker'[j] = [worker[j] EXCEPT !.pc = pc] => worker'[j].pc \in Outside
    BY <1>1 DEF WorkerRecord, Outside, Leaving
  <2> QED BY <2>1, CursorOutside
<1>4. CASE SeesCancelled(j, job, ok) \/ Finalizes(j, job, ok) \/ Closes(j, job, ok)
  BY <1>3, <1>4 DEF SeesCancelled, Finalizes, Closes, Goes
<1>5. CASE Claims(j, job, ok)
  <2>1. worker'[j].pc = (IF ok THEN "top" ELSE "fail") /\ worker'[j].next = old.next
    BY <1>1, <1>5 DEF Claims, WorkerRecord
  <2>2. CASE ok
    BY <1>2, <1>5, <2>1, <2>2 DEF Claims, Labels, Relabelled, CursorOk
  <2>3. CASE ~ok
    BY <2>1, <2>3, CursorOutside DEF Outside
  <2> QED BY <2>2, <2>3
<1>6. ASSUME NEW pc \in {"wait", "post", "top"}, ok,
             worker'[j] = [worker[j] EXCEPT !.pc = pc],
             job.next = IF pc = "post" THEN worker[j].next + 1 ELSE worker[j].next,
             pc = "top" => job.status \in {"Running", "Cancelled"},
             pc = "post" /\ ~IsFatal(worker[j].result) => job.status \in {"Running", "Cancelled"}
      PROVE  CursorOk(j)'
  <2>1. /\ worker'[j].pc = pc /\ worker'[j].next = worker[j].next
        /\ worker'[j].result = worker[j].result
    BY <1>1, <1>6 DEF WorkerRecord
  <2> QED BY <1>2, <1>6, <2>1 DEF CursorOk
<1>7. CASE Waits(j, job, ok)
  BY <1>3, <1>6, <1>7 DEF Waits, Goes, Labels, Relabelled, CursorOk
<1>8. CASE Progresses(j, job, ok)
  <2>1. job.next = worker[j].next + 1 /\ (job.status = old.status \/ IsFatal(worker[j].result))
    BY <1>8, ProgressedAccounts DEF Progresses, Goes, Added
  <2>2. old.status \in {"Running", "Cancelled"}
    BY <1>8 DEF Progresses, Goes, CursorOk
  <2> QED BY <1>3, <1>6, <1>8, <2>1, <2>2 DEF Progresses, Goes
<1>9. CASE Resumes(j, job, ok)
  BY <1>3, <1>6, <1>9 DEF Resumes, Goes, Labels, Relabelled, CursorOk
<1> QED BY <1>4, <1>5, <1>7, <1>8, <1>9 DEF WorkEdit

(* A job that a command cancels or makes.                                   *)
LEMMA CursorOrdered ==
  ASSUME IInv, NEW j \in Job, CursorOk(j), NEW job \in JobRecord, NEW ok \in BOOLEAN,
         Edit(j, job, ok), Ordered(j, job)
  PROVE  CursorOk(j)'
<1>1. CASE worker[j].pc = "off"
  BY <1>1, CursorOutside DEF Ordered, Outside
<1>2. CASE Present(state.jobs[j]) /\ job = Cancelled(state.jobs[j])
  <2> DEFINE old == state.jobs[j]
  <2>1. old \in JobRecord /\ worker'[j] = worker[j]
    BY Numbers DEF IInv, Ordered
  <2>2. /\ job.plan = old.plan /\ job.next = old.next /\ job.status = "Cancelled"
        /\ Cancelled(job) = job
    BY <1>2, <2>1 DEF Cancelled, JobRecord
  <2>3. state'.jobs[j] \in {old, job}
    BY EditCopies
  <2>4. ASSUME store.jobs[j] \in {old, job}
        PROVE  store'.jobs[j] \in {state'.jobs[j], Cancelled(state'.jobs[j])}
    <3>1. CASE ok
      <4>1. store'.jobs[j] = job /\ state'.jobs[j] = job
        BY <3>1, EditCopies
      <4> QED BY <4>1
    <3>2. CASE ~ok
      <4>1. state'.jobs[j] = old /\ store'.jobs[j] \in {store.jobs[j], job}
        BY <3>2 DEF Edit, JobStep
      <4>2. Cancelled(state'.jobs[j]) = job
        BY <1>2, <4>1 DEF Cancelled
      <4> QED BY <2>4, <4>1, <4>2
    <3> QED BY <3>1, <3>2
  <2>5. /\ state'.jobs[j].plan = old.plan /\ state'.jobs[j].next = old.next
        /\ state'.jobs[j].status \in {old.status, "Cancelled"}
    BY <2>2, <2>3
  <2>6. Size(j)' = Size(j)
    BY <2>1, <2>5 DEF Size
  <2> QED BY <1>2, <2>1, <2>4, <2>5, <2>6 DEF CursorOk
<1> QED BY <1>1, <1>2 DEF Ordered

(* Cursors: in step with the worker, and with the file but for a cancel.    *)
LEMMA CursorsStep ==
  ASSUME IInv, CursorsOk, Next
  PROVE  CursorsOk'
<1>1. ASSUME NEW j \in Job, NEW job \in JobRecord, NEW ok \in BOOLEAN, EditStepOf(j, job, ok)
      PROVE  CursorsOk'
  <2>1. \A i \in Job \ {j} : CursorOk(i)'
    BY <1>1, EditSources, CursorKept DEF Untouched, CursorsOk
  <2>2. CursorOk(j)'
    BY <1>1, EditSources, CursorEdits, CursorOrdered DEF CursorsOk
  <2> QED BY <2>1, <2>2 DEF CursorsOk
<1>2. CASE QuietStep
  <2>1. \A i \in Job : state'.jobs[i] = state.jobs[i] /\ store'.jobs[i] = store.jobs[i]
    BY <1>2 DEF QuietStep, JobsKept
  <2>2. ASSUME NEW j \in Job, WorkStep(j), QuietWork(j)
        PROVE  CursorsOk'
    <3>1. CursorOk(j)'
      BY <2>1, <2>2, QuietMoves, CursorQuiet DEF CursorsOk, IInv
    <3>2. \A i \in Job \ {j} : CursorOk(i)'
      BY <2>2, CursorKept DEF WorkStep, Untouched, CursorsOk
    <3> QED BY <3>1, <3>2 DEF CursorsOk
  <2>3. ASSUME NEW c \in Client, CommandStep(c), NEW i \in Job
        PROVE  CursorOk(i)'
    <3>1. CASE Spawned(i)
      BY <3>1, CursorOutside DEF Spawned, NoWorker, Outside
    <3>2. CASE Signalled(i)
      BY <2>1, <3>2, CursorKept DEF Signalled, CursorsOk
    <3> QED BY <2>3, <3>1, <3>2 DEF CommandStep
  <2> QED BY <1>2, <2>2, <2>3 DEF QuietStep, CursorsOk
<1>3. CASE Elsewhere
  <2> SUFFICES ASSUME NEW i \in Job PROVE CursorOk(i)'
    BY DEF CursorsOk
  <2>1. CASE state' = state /\ store' = store /\ worker' = worker
    BY <2>1, CursorKept DEF CursorsOk
  <2>2. CASE Volatile
    BY <2>2, CursorOutside DEF Volatile, NoWorker, Outside
  <2>3. CASE ~up /\ worker' = worker
    <3>1. worker'[i].pc \in Outside
      BY <2>3 DEF IInv, WorkersOk, WorkerOk, Outside
    <3> QED BY <3>1, CursorOutside
  <2> QED BY <1>3, <2>1, <2>2, <2>3, ElsewhereMoves DEF IInv, taskVars
<1> QED BY <1>1, <1>2, <1>3, LedgerKinds

-----------------------------------------------------------------------------
(* Removals that were told of as refusals.                                  *)

(* What stays of a job and its denials keeps what they account for, and so  *)
(* does an edit that leaves the counters alone.                             *)
LEMMA AccountsKept ==
  ASSUME NEW job, NEW old, NEW d, Relabelled(job, old), Accounts(old, d)
  PROVE  Accounts(job, d)
BY DEF Relabelled, Accounts, DeniedBefore

LEMMA DenialFacts ==
  ASSUME TypeOK, NEW j \in Job
  PROVE  /\ denied[j] \in Denial
         /\ denied[j].batch \in Nat /\ denied[j].here \in Nat /\ denied[j].before \in Nat
         /\ Gone(j) \in Nat
BY DEF TypeOK, Denial, Gone

(* A worker, a job and denials that are left alone.                         *)
LEMMA DenialKept ==
  ASSUME NEW i \in Job, DenialOk(i), worker'[i] = worker[i], denied'[i] = denied[i],
         state'.jobs[i] = state.jobs[i], store'.jobs[i] = store.jobs[i]
  PROVE  DenialOk(i)'
BY DEF DenialOk, Accounts, DeniedBefore, Gone, Size, Present

(* A worker that has no batch in hand.                                      *)
Unhanded == WorkerPc \ InBatch

LEMMA DenialOutside ==
  ASSUME NEW i \in Job, worker'[i].pc \in Unhanded,
         Accounts(state'.jobs[i], denied'[i]), Accounts(store'.jobs[i], denied'[i]),
         ~Present(store'.jobs[i]) => denied'[i] = NoDenial
  PROVE  DenialOk(i)'
<1>1. Accounts(state.jobs[i], denied[i])' /\ Accounts(store.jobs[i], denied[i])'
  BY DEF Accounts, DeniedBefore
<1> QED BY <1>1 DEF DenialOk, Unhanded, InBatch, Present

(* Progress is past the batch in hand, whose denied targets have failed.    *)
LEMMA DenialProgress ==
  ASSUME IInv, NEW j \in Job, CursorOk(j), DenialOk(j),
         worker[j].pc = "settle", worker[j].result # "rate"
  PROVE  Accounts(Progressed(j), denied[j])
<1> DEFINE old == state.jobs[j]
           w == worker[j]
           d == denied[j]
<1>1. /\ w.next \in Nat /\ w.skipped \in Nat /\ old.failed \in Nat
      /\ d.batch \in Nat /\ d.here \in Nat /\ d.before \in Nat /\ Gone(j) \in Nat
  BY Numbers, DenialFacts DEF IInv
<1>2. old.next = w.next /\ Accounts(old, d) /\ w.skipped + Gone(j) <= Size(j)
  BY DEF CursorOk, Loop, InBatch, DenialOk
<1>3. PICK a, f, u \in Nat : /\ Added(j, Progressed(j), a, f, u)
                             /\ a + w.skipped + f + u = Size(j)
                             /\ Gone(j) > 0 => f >= Gone(j)
  <2>1. CASE Gone(j) > 0
    <3>1. w.result \notin {"ok", "ambiguous"}
      BY <2>1 DEF DenialOk
    <3>2. w.result \in {"soft", "fatal"}
      BY <3>1, Numbers DEF IInv, WorkerRecord, Result
    <3>3. PICK a, f, u \in Nat : /\ Added(j, Progressed(j), a, f, u)
                                 /\ a + w.skipped + f + u = Size(j) /\ a = 0 /\ u = 0
      BY <3>2, ProgressedAccounts
    <3>4. f >= Gone(j)
      BY <1>1, <1>2, <3>3
    <3> QED BY <3>3, <3>4
  <2>2. CASE ~(Gone(j) > 0)
    BY <2>2, ProgressedAccounts
  <2> QED BY <2>1, <2>2
<1>4. /\ Progressed(j).plan = old.plan /\ Progressed(j).next = w.next + 1
      /\ Progressed(j).failed = old.failed + f
  BY <1>3 DEF Added
<1>5. /\ d.batch <= old.next
      /\ d.here > 0 => d.batch < Count(old.plan) /\ d.here <= SizeOf(old.plan, d.batch)
      /\ d.before + (IF d.batch < old.next THEN d.here ELSE 0) <= old.failed
  BY <1>2 DEF Accounts, DeniedBefore
<1>6. d.batch < Progressed(j).next
  BY <1>1, <1>2, <1>4, <1>5
<1>7. d.before + d.here <= old.failed + f
  <2>1. CASE d.batch = w.next
    <3>1. Gone(j) = d.here /\ d.before <= old.failed
      BY <1>1, <1>2, <1>5, <2>1 DEF Gone
    <3>2. d.here <= f
      BY <1>1, <1>3, <3>1
    <3> QED BY <1>1, <1>3, <3>1, <3>2
  <2>2. CASE d.batch # w.next
    <3>1. d.before + d.here <= old.failed
      BY <1>1, <1>2, <1>5, <2>2
    <3> QED BY <1>1, <1>3, <3>1
  <2> QED BY <2>1, <2>2
<1> QED BY <1>4, <1>5, <1>6, <1>7, <1>1 DEF Accounts, DeniedBefore

(* The size of a batch in hand is a number.                                 *)
LEMMA SizeInt ==
  ASSUME IInv, NEW j \in Job, worker[j].pc \in InBatch
  PROVE  Size(j) \in Int
<1>1. /\ state.jobs[j].plan \in Plan /\ worker[j].next \in Nat
      /\ worker[j].next < Count(state.jobs[j].plan)
  BY Numbers DEF IInv, WorkersOk, WorkerOk, RecordsOk, Valid, BatchesOk, BatchOk, InBatch,
                 TypeOK, ControlRecord
<1> QED BY <1>1, BatchFacts DEF Size

(* Steps of a worker that publish nothing.                                  *)
LEMMA DenialQuiet ==
  ASSUME IInv, NEW j \in Job, CursorOk(j), DenialOk(j), QuietMove(j), TypeOK',
         state'.jobs[j] = state.jobs[j], store'.jobs[j] = store.jobs[j]
  PROVE  DenialOk(j)'
<1> USE DEF Loop, InBatch, Keeps
<1> DEFINE job == state.jobs[j]
           d == denied[j]
<1>1. /\ worker[j] \in WorkerRecord /\ worker'[j] \in WorkerRecord
      /\ worker[j].next \in Nat /\ worker[j].allowed \in Nat /\ worker[j].skipped \in Nat
      /\ job \in JobRecord /\ job.next \in Nat
      /\ d.batch \in Nat /\ d.here \in Nat /\ d.before \in Nat /\ Gone(j) \in Nat
  BY Numbers, DenialFacts DEF IInv, TypeOK
<1>2. worker'[j].next = worker[j].next => Size(j)' = Size(j)
  BY DEF Size
<1>3. denied'[j] = denied[j] =>
        /\ worker'[j].next = worker[j].next => Gone(j)' = Gone(j)
        /\ Accounts(state.jobs[j], denied[j])' /\ Accounts(store.jobs[j], denied[j])'
        /\ ~Present(store'.jobs[j]) => denied'[j] = NoDenial
  BY DEF Gone, DenialOk, Accounts, DeniedBefore, Present
<1>4. ASSUME denied'[j] = denied[j], worker'[j].pc \notin InBatch
      PROVE  DenialOk(j)'
  BY <1>3, <1>4 DEF DenialOk
<1>5. CASE Outward(j) \/ Exhausts(j) \/ Advanced(j) \/ Wakes(j)
  BY <1>4, <1>5 DEF Outward, Exhausts, Advanced, Wakes, Outside, Leaving
<1>6. CASE Begins(j)
  <2>1. job.next = worker[j].next /\ Accounts(job, d)
    BY <1>6 DEF Begins, CursorOk, DenialOk
  <2>2. Gone(j) <= Size(j)
    <3>1. job.plan \in Plan /\ worker[j].next < Count(job.plan)
      <4>1. Present(job) /\ worker[j].pc = "top"
        BY <1>6 DEF Begins, IInv, WorkersOk, WorkerOk, TypeOK, ControlRecord
      <4>2. job.plan \in Plan /\ Count(job.plan) \in Nat
        BY <4>1, EndsAssumption DEF IInv, RecordsOk, Valid, Count
      <4> QED BY <1>1, <1>6, <4>2 DEF Begins, PastLastBatch
    <3>2. Size(j) \in Nat
      BY <1>1, <3>1, BatchFacts DEF Size
    <3>3. CASE Gone(j) = 0
      BY <3>2, <3>3
    <3>4. CASE Gone(j) # 0
      BY <1>1, <2>1, <3>4 DEF Gone, Accounts, Size
    <3> QED BY <3>3, <3>4
  <2> QED BY <1>1, <1>2, <1>3, <1>6, <2>2 DEF Begins, DenialOk
<1>7. CASE Reaches(j)
  <2>1. worker'[j].allowed + worker'[j].skipped + Gone(j) <= Size(j)
    <3>1. /\ Size(j) \in Int /\ InHand(j) \in Nat /\ InHand(j) + Gone(j) < Size(j)
          /\ worker'[j].allowed + worker'[j].skipped = InHand(j) + 1
      BY <1>1, <1>7, SizeInt DEF Reaches, InHand
    <3> DEFINE x == InHand(j)
               y == Gone(j)
               z == Size(j)
    <3>2. x + 1 + y <= z
      <4>1. x \in Nat /\ y \in Nat /\ z \in Int /\ x + y < z
        BY <1>1, <3>1
      <4> HIDE DEF x, y, z
      <4> QED BY <4>1
    <3> QED BY <3>1, <3>2
  <2>2. worker'[j].pc \in {"reach", "reached"} /\ worker'[j].result = "ok"
    BY <1>7 DEF Reaches, CursorOk
  <2>3. worker'[j].allowed + worker'[j].skipped + Gone(j)' <= Size(j)'
    BY <1>2, <1>3, <1>7, <2>1 DEF Reaches
  <2> QED BY <1>3, <1>7, <2>2, <2>3 DEF Reaches, DenialOk
<1>8. CASE Misses(j)
  <2>1. worker[j].allowed + worker[j].skipped <= Size(j)
    BY <1>8 DEF Misses, IInv, BatchesOk, BatchOk
  <2>2. /\ worker[j].pc = "reach" => worker[j].allowed + worker[j].skipped + Gone(j) <= Size(j)
        /\ worker[j].pc # "reach" => Gone(j) = 0
    BY <1>8 DEF Misses, DenialOk
  <2>3. Size(j) \in Int
    BY <1>8, SizeInt DEF Misses
  <2>4. worker[j].skipped + Gone(j) <= Size(j)
    BY <1>1, <2>1, <2>2, <2>3
  <2>5. /\ Size(j)' = Size(j) /\ Gone(j)' = Gone(j)
        /\ worker'[j].allowed = worker[j].allowed /\ worker'[j].skipped = worker[j].skipped
    BY <1>2, <1>3, <1>8 DEF Misses
  <2> HIDE DEF job, d
  <2> QED BY <1>3, <1>8, <2>2, <2>4, <2>5 DEF Misses, DenialOk
<1>9. CASE Advances(j)
  <2>1. PICK pc \in {"mutate", "gate", "flight", "settle"} :
          /\ worker'[j] = [worker[j] EXCEPT !.pc = pc]
          /\ pc # "settle" => worker[j].result = "ok" \/ worker[j].pc # "reached"
    BY <1>9 DEF Advances
  <2>2. /\ worker'[j].pc = pc /\ worker'[j].next = worker[j].next
        /\ worker'[j].allowed = worker[j].allowed /\ worker'[j].skipped = worker[j].skipped
        /\ worker'[j].result = worker[j].result
    BY <1>1, <2>1 DEF WorkerRecord
  <2>3. worker[j].pc = "reached" /\ worker[j].result = "ok" => Gone(j) = 0
    BY <1>1 DEF CursorOk, DenialOk
  <2>4. worker[j].allowed + worker[j].skipped <= Size(j)
    BY <1>9 DEF Advances, IInv, BatchesOk, BatchOk
  <2>5. /\ pc # "settle" => Gone(j) = 0
        /\ Gone(j) > 0 => worker[j].result \notin {"ok", "ambiguous"}
    BY <1>1, <1>9, <2>1, <2>3 DEF Advances, DenialOk
  <2>6. Size(j) \in Int
    BY <1>9, SizeInt DEF Advances
  <2>7. worker[j].skipped + Gone(j) <= Size(j)
    <3>1. CASE worker[j].pc = "reached"
      <4>1. worker[j].allowed + worker[j].skipped + Gone(j) <= Size(j)
        BY <3>1 DEF DenialOk
      <4> QED BY <1>1, <2>6, <4>1
    <3>2. CASE worker[j].pc # "reached"
      <4>1. Gone(j) = 0
        BY <1>9, <3>2 DEF Advances, DenialOk
      <4> QED BY <1>1, <2>4, <2>6, <4>1
    <3> QED BY <3>1, <3>2
  <2>8. Size(j)' = Size(j) /\ Gone(j)' = Gone(j)
    BY <1>2, <1>3, <1>9, <2>2 DEF Advances
  <2> HIDE DEF job, d
  <2> QED BY <1>3, <1>9, <2>2, <2>5, <2>7, <2>8 DEF Advances, DenialOk
<1>10. CASE Answers(j)
  <2>1. /\ worker[j].pc = "flight" /\ job.next = worker[j].next
        /\ worker[j].allowed + worker[j].skipped = Size(j) /\ Gone(j) = 0
        /\ store.jobs[j] \in {job, Cancelled(job)}
    BY <1>10 DEF Answers, CursorOk, DenialOk
  <2>2. Size(j)' = Size(j) /\ worker'[j].skipped = worker[j].skipped
    BY <1>2, <1>10 DEF Answers
  <2>3. CASE denied'[j] = denied[j]
    <3>1. Gone(j)' = 0
      BY <1>3, <1>10, <2>1, <2>3 DEF Answers
    <3> QED BY <1>1, <1>3, <1>10, <2>1, <2>2, <2>3, <3>1 DEF Answers, DenialOk
  <2>4. CASE denied'[j] = Denied(j) /\ worker'[j].result \in {"rate", "soft", "fatal"}
    <3>1. /\ denied'[j].batch = worker[j].next /\ denied'[j].here = worker[j].allowed
          /\ denied'[j].before = d.before + d.here
      BY <2>4 DEF Denied
    <3>2. Gone(j)' = worker[j].allowed
      BY <1>10, <3>1 DEF Gone, Answers
    <3>3. /\ job.plan \in Plan /\ worker[j].next < Count(job.plan)
          /\ Present(job) /\ worker[j].allowed <= SizeOf(job.plan, worker[j].next)
      <4>1. Size(j) = SizeOf(job.plan, worker[j].next)
        BY DEF Size
      <4>2. /\ job.plan \in Plan /\ worker[j].next < Count(job.plan) /\ Present(job)
        BY <2>1 DEF IInv, WorkersOk, WorkerOk, RecordsOk, Valid, BatchesOk, BatchOk, TypeOK, ControlRecord
      <4>3. Size(j) \in Nat
        BY <1>1, <4>2, BatchFacts DEF Size
      <4> QED BY <1>1, <2>1, <4>1, <4>2, <4>3
    <3>4. /\ job.failed \in Nat /\ d.before + d.here <= job.failed
      <4>1. d.batch <= job.next /\ DeniedBefore(d, job.next) <= job.failed /\ job.failed \in Nat
        BY Numbers DEF DenialOk, Accounts, IInv
      <4>2. d.batch = job.next => d.here = 0
        BY <2>1 DEF Gone
      <4> QED BY <1>1, <4>1, <4>2 DEF DeniedBefore
    <3>5. Accounts(job, denied'[j])
      BY <1>1, <2>1, <3>1, <3>3, <3>4 DEF Accounts, DeniedBefore
    <3>6. Accounts(store.jobs[j], denied'[j])
      <4>1. Relabelled(store.jobs[j], job)
        BY <1>1, <2>1, EditsRelabel, <3>3 DEF Relabelled
      <4> QED BY <3>5, <4>1, AccountsKept
    <3>7. Accounts(state.jobs[j], denied[j])' /\ Accounts(store.jobs[j], denied[j])'
      BY <3>5, <3>6 DEF Accounts, DeniedBefore
    <3>8. Present(store'.jobs[j])
      <4>1. Present(Cancelled(job))
        BY <1>1 DEF Cancelled, JobRecord, Present
      <4> HIDE DEF job
      <4> QED BY <2>1, <3>3, <4>1
    <3>9. worker'[j].skipped + Gone(j)' <= Size(j)'
      BY <1>1, <2>1, <2>2, <3>2
    <3>10. Present(store.jobs[j])'
      BY <3>8 DEF Present
    <3> QED BY <1>10, <2>4, <3>7, <3>9, <3>10 DEF Answers, DenialOk
  <2> QED BY <1>10, <2>3, <2>4 DEF Answers
<1> QED BY <1>5, <1>6, <1>7, <1>8, <1>9, <1>10 DEF QuietMove

(* Denials: told once, counted by progress, and nobody else's business.     *)
LEMMA DenialsStep ==
  ASSUME IInv, CursorsOk, DenialsOk, Next
  PROVE  DenialsOk'
<1>0. TypeOK' /\ \A i \in Job : CursorOk(i) /\ DenialOk(i)
  BY TypeStep DEF CursorsOk, DenialsOk
<1>1. ASSUME NEW j \in Job, NEW job \in JobRecord, NEW ok \in BOOLEAN, EditStepOf(j, job, ok)
      PROVE  DenialsOk'
  <2>1. \A i \in Job \ {j} : DenialOk(i)'
    BY <1>0, <1>1, EditSources, DenialKept DEF Untouched
  <2>2. /\ Edit(j, job, ok) /\ (WorkEdit(j, job, ok) \/ Ordered(j, job))
        /\ denied'[j] = denied[j]
    BY <1>1, EditSources DEF WorkEdit, Ordered
  <2>3. Accounts(job, denied[j])
    <3>1. CASE Present(state.jobs[j]) /\ Relabelled(job, state.jobs[j])
      BY <1>0, <3>1, AccountsKept DEF DenialOk
    <3>2. CASE job = Progressed(j) /\ worker[j].pc = "settle" /\ worker[j].result # "rate"
      BY <1>0, <3>2, DenialProgress
    <3>3. ASSUME NEW p \in Plan, job = NewJob(p), ~Present(store.jobs[j])
          PROVE  Accounts(job, denied[j])
      <4>1. denied[j] = NoDenial /\ job.next = 0 /\ job.failed = 0
        BY <1>0, <3>3 DEF DenialOk, NewJob, NoJob
      <4> QED BY <4>1 DEF Accounts, DeniedBefore, NoDenial
    <3> QED BY <1>1, <3>1, <3>2, <3>3, EditKinds
  <2>4. /\ Accounts(state'.jobs[j], denied'[j]) /\ Accounts(store'.jobs[j], denied'[j])
        /\ ~Present(store'.jobs[j]) => denied'[j] = NoDenial
    <3>1. /\ state'.jobs[j] \in {state.jobs[j], job} /\ store'.jobs[j] \in {store.jobs[j], job}
      BY <2>2, EditCopies
    <3>2. Present(job)
      BY <2>2 DEF Edit
    <3> QED BY <1>0, <2>2, <2>3, <3>1, <3>2 DEF DenialOk
  <2>5. CASE WorkEdit(j, job, ok)
    <3>1. worker[j] \in WorkerRecord
      BY Numbers DEF IInv
    <3>2. worker'[j].pc \in Unhanded
      BY <2>5, <3>1 DEF WorkEdit, Claims, SeesCancelled, Waits, Progresses, Resumes, Finalizes,
                        Closes, Goes, WorkerRecord, WorkerPc, Unhanded, InBatch
    <3> QED BY <2>1, <2>4, <3>2, DenialOutside DEF DenialsOk
  <2>6. CASE Ordered(j, job)
    <3>1. CASE worker[j].pc = "off"
      <4>1. worker'[j].pc \in Unhanded
        BY <2>6, <3>1 DEF Ordered, Unhanded, WorkerPc, InBatch
      <4> QED BY <2>1, <2>4, <4>1, DenialOutside DEF DenialsOk
    <3>2. CASE Present(state.jobs[j]) /\ job = Cancelled(state.jobs[j])
      <4>1. state.jobs[j] \in JobRecord
        BY Numbers DEF IInv
      <4>2. job.plan = state.jobs[j].plan /\ state'.jobs[j] \in {state.jobs[j], job}
        BY <2>2, <3>2, <4>1, EditCopies DEF Cancelled, JobRecord
      <4>3. /\ worker' = worker /\ Size(j)' = Size(j) /\ Gone(j)' = Gone(j)
        BY <2>2, <2>6, <4>2 DEF Ordered, Size, Gone
      <4>4. /\ Accounts(state.jobs[j], denied[j])' /\ Accounts(store.jobs[j], denied[j])'
            /\ ~Present(store.jobs[j])' => denied'[j] = NoDenial
        BY <2>4 DEF Accounts, DeniedBefore, Present
      <4>5. DenialOk(j)'
        BY <1>0, <4>3, <4>4 DEF DenialOk
      <4> QED BY <2>1, <4>5 DEF DenialsOk
    <3> QED BY <2>6, <3>1, <3>2 DEF Ordered
  <2> QED BY <2>2, <2>5, <2>6
<1>2. CASE QuietStep
  <2>1. \A i \in Job : state'.jobs[i] = state.jobs[i] /\ store'.jobs[i] = store.jobs[i]
    BY <1>2 DEF QuietStep, JobsKept
  <2>2. ASSUME NEW j \in Job, WorkStep(j), QuietWork(j)
        PROVE  DenialsOk'
    <3>1. DenialOk(j)'
      BY <1>0, <2>1, <2>2, QuietMoves, DenialQuiet DEF IInv
    <3>2. \A i \in Job \ {j} : DenialOk(i)'
      BY <1>0, <2>2, DenialKept DEF WorkStep, Untouched
    <3> QED BY <3>1, <3>2 DEF DenialsOk
  <2>3. ASSUME NEW c \in Client, CommandStep(c), NEW i \in Job
        PROVE  DenialOk(i)'
    <3>1. denied'[i] = denied[i]
      BY <2>3 DEF CommandStep
    <3>2. CASE Spawned(i)
      <4>1. worker'[i].pc \in Unhanded
        BY <3>2 DEF Spawned, NoWorker, Unhanded, WorkerPc, InBatch
      <4>2. /\ Accounts(state'.jobs[i], denied'[i]) /\ Accounts(store'.jobs[i], denied'[i])
            /\ ~Present(store'.jobs[i]) => denied'[i] = NoDenial
        BY <1>0, <2>1, <3>1 DEF DenialOk
      <4> QED BY <4>1, <4>2, DenialOutside
    <3>3. CASE Signalled(i)
      BY <1>0, <2>1, <3>1, <3>3, DenialKept DEF Signalled
    <3> QED BY <2>3, <3>2, <3>3 DEF CommandStep
  <2> QED BY <1>2, <2>2, <2>3 DEF QuietStep, DenialsOk
<1>3. CASE Elsewhere
  <2> SUFFICES ASSUME NEW i \in Job PROVE DenialOk(i)'
    BY DEF DenialsOk
  <2>0. denied' = denied
    BY <1>3 DEF Elsewhere, GrantExpires, Crash, Open, OpenFails, AtRest, vars
  <2>1. CASE state' = state /\ store' = store /\ worker' = worker
    BY <1>0, <2>0, <2>1, DenialKept
  <2>2. /\ Accounts(state.jobs[i], denied[i]) /\ Accounts(store.jobs[i], denied[i])
        /\ Accounts(Recovered(state).jobs[i], denied[i])
        /\ ~Present(store.jobs[i]) => denied[i] = NoDenial
        /\ Present(Recovered(state).jobs[i]) <=> Present(state.jobs[i])
    BY <1>0, RecoveredRelabels, AccountsKept DEF DenialOk, IInv
  <2>3. CASE Volatile /\ state' = store /\ store' = store
    <3>1. worker'[i].pc \in Unhanded
      BY <2>3 DEF Volatile, NoWorker, Unhanded, WorkerPc, InBatch
    <3> QED BY <2>0, <2>2, <2>3, <3>1, DenialOutside
  <2>4. CASE /\ ~up /\ worker' = worker /\ store' = state'
             /\ state' = state \/ state' = Recovered(state)
    <3>1. worker'[i].pc \in Unhanded
      BY <2>4 DEF IInv, WorkersOk, WorkerOk, Unhanded, WorkerPc, InBatch
    <3>2. state = store
      BY <2>4 DEF IInv, RecordsOk
    <3> QED BY <2>0, <2>2, <2>4, <3>1, <3>2, DenialOutside
  <2> QED BY <1>3, <2>1, <2>3, <2>4, ElsewhereMoves DEF IInv, taskVars
<1> QED BY <1>1, <1>2, <1>3, LedgerKinds

-----------------------------------------------------------------------------
(* Completion and deadlines.                                                *)

(* A worker publishes a completion after its last batch, and leaves.        *)
LEMMA CompletedEdits ==
  ASSUME IInv, CursorsOk, CompletedOk, NEW j \in Job, NEW job \in JobRecord,
         NEW ok \in BOOLEAN, EditStepOf(j, job, ok),
         store'.jobs[j].status = "Completed"
  PROVE  store'.jobs[j].next = Count(store'.jobs[j].plan) /\ worker'[j].pc \in Outside
<1> USE DEF Outside, Leaving
<1>1. /\ Edit(j, job, ok) /\ worker[j] \in WorkerRecord /\ state.jobs[j] \in JobRecord
      /\ WorkEdit(j, job, ok) \/ Ordered(j, job)
  BY EditSources, Numbers DEF IInv
<1>2. /\ store'.jobs[j] \in {store.jobs[j], job} /\ (ok => store'.jobs[j] = job)
      /\ store'.jobs[j] = store.jobs[j] \/ store = state
  BY <1>1, EditCopies
<1>3. CASE store'.jobs[j] = store.jobs[j]
  <2>1. store.jobs[j].next = Count(store.jobs[j].plan) /\ worker[j].pc \in Outside
    BY <1>3 DEF CompletedOk
  <2>2. CASE Ordered(j, job)
    BY <1>3, <2>1, <2>2 DEF Ordered
  <2>3. CASE Claims(j, job, ok)
    <3>1. ~ok
      BY <1>2, <1>3, <2>3 DEF Claims, Labels
    <3>2. worker'[j].pc = "fail"
      BY <1>1, <2>3, <3>1 DEF Claims, WorkerRecord
    <3> QED BY <1>3, <2>1, <3>2
  <2>4. CASE Closes(j, job, ok)
    BY <1>1, <1>3, <2>1, <2>4 DEF Closes, Goes, WorkerRecord
  <2> QED BY <1>1, <2>1, <2>2, <2>3, <2>4
          DEF WorkEdit, SeesCancelled, Waits, Progresses, Resumes, Finalizes, Goes
<1>4. CASE store'.jobs[j] # store.jobs[j]
  <2>1. store'.jobs[j] = job /\ job.status = "Completed" /\ store.jobs[j] = state.jobs[j]
    BY <1>2, <1>4
  <2>2. CASE Finalizes(j, job, ok)
    <3>1. job.next = Count(job.plan)
      BY <2>2 DEF Finalizes, Goes, Labels, Relabelled, CursorsOk, CursorOk
    <3>2. worker'[j].pc \in Outside
      BY <1>1, <2>2 DEF Finalizes, Goes, WorkerRecord
    <3> QED BY <2>1, <3>1, <3>2
  <2>3. ~Progresses(j, job, ok)
    <3>1. ASSUME Progresses(j, job, ok)
          PROVE  job.status # "Completed"
      <4>1. worker[j].pc = "settle" /\ state.jobs[j].status \in {"Running", "Cancelled"}
        BY <3>1 DEF Progresses, Goes, CursorsOk, CursorOk, InBatch
      <4>2. job.status = state.jobs[j].status \/ job.status \in {"Partial", "Failed"}
        BY <3>1, <4>1, ProgressedAccounts DEF Progresses, Added, CursorsOk
      <4> QED BY <4>1, <4>2
    <3> QED BY <2>1, <3>1
  <2>4. ~Closes(j, job, ok)
    BY <1>4, <2>1 DEF Closes
  <2>5. ~Ordered(j, job)
    BY <1>1, <2>1 DEF Ordered, Cancelled, NewJob, NoJob, JobRecord
  <2>6. ~(Claims(j, job, ok) \/ SeesCancelled(j, job, ok) \/ Waits(j, job, ok) \/ Resumes(j, job, ok))
    BY <2>1 DEF Claims, SeesCancelled, Waits, Resumes, Labels
  <2> QED BY <1>1, <2>2, <2>3, <2>4, <2>5, <2>6 DEF WorkEdit
<1> QED BY <1>3, <1>4

LEMMA CompletedStep ==
  ASSUME IInv, CursorsOk, CompletedOk, Next
  PROVE  CompletedOk'
<1>1. ASSUME NEW j \in Job, NEW job \in JobRecord, NEW ok \in BOOLEAN, EditStepOf(j, job, ok)
      PROVE  CompletedOk'
  BY <1>1, EditSources, CompletedEdits DEF Untouched, CompletedOk
<1>2. CASE QuietStep
  <2>1. \A i \in Job : store'.jobs[i] = store.jobs[i]
    BY <1>2 DEF QuietStep, JobsKept
  <2>2. \A i \in Job : worker[i].pc \in Outside => worker'[i].pc \in Outside
    <3>1. ASSUME NEW j \in Job, WorkStep(j), QuietWork(j), worker[j].pc \in Outside
          PROVE  worker'[j].pc \in Outside
      BY <3>1, QuietMoves
      DEF IInv, QuietMove, Outward, Exhausts, Begins, Reaches, Misses, Advances, Answers, Advanced,
          Wakes, Outside, Leaving
    <3>2. ASSUME NEW c \in Client, CommandStep(c), NEW i \in Job, worker[i].pc \in Outside
          PROVE  worker'[i].pc \in Outside
      BY <3>2 DEF CommandStep, Spawned, Signalled, NoWorker, Outside
    <3> QED BY <1>2, <3>1, <3>2 DEF QuietStep, WorkStep, Untouched
  <2> QED BY <2>1, <2>2 DEF CompletedOk
<1>3. CASE Elsewhere
  <2> SUFFICES ASSUME NEW j \in Job, store'.jobs[j].status = "Completed"
               PROVE  store'.jobs[j] = store.jobs[j] /\ (worker[j].pc \in Outside => worker'[j].pc \in Outside)
    BY DEF CompletedOk
  <2>1. store'.jobs[j] = store.jobs[j]
    BY <1>3, ElsewhereCopies, RecoveredRelabels DEF IInv, RecordsOk
  <2>2. worker[j].pc \in Outside => worker'[j].pc \in Outside
    <3>1. worker' = worker \/ Volatile
      BY <1>3, ElsewhereMoves DEF IInv, taskVars
    <3>2. Volatile => worker'[j].pc = "off"
      BY DEF Volatile, NoWorker
    <3> QED BY <3>1, <3>2 DEF Outside
  <2> QED BY <2>1, <2>2
<1> QED BY <1>1, <1>2, <1>3, LedgerKinds

(* Deadlines: set by a worker, and gone when the file is opened again.      *)
LEMMA DeadlinesStep ==
  ASSUME IInv, DeadlinesOk, Next
  PROVE  DeadlinesOk'
<1>1. ASSUME NEW j \in Job, NEW job \in JobRecord, NEW ok \in BOOLEAN, EditStepOf(j, job, ok)
      PROVE  DeadlinesOk'
  <2>1. /\ Edit(j, job, ok) /\ Present(job) /\ up' = up /\ up
        /\ \A i \in Job \ {j} : Untouched(i)
        /\ WorkEdit(j, job, ok) \/ Ordered(j, job)
    BY <1>1, EditSources DEF Edit
  <2>2. ASSUME control'[j].spawn = 0
        PROVE  ~state'.jobs[j].retry
    <3>1. CASE WorkEdit(j, job, ok)
      <4>1. worker[j].pc # "off"
        BY <3>1 DEF WorkEdit, Claims, SeesCancelled, Waits, Progresses, Resumes, Finalizes, Closes, Goes
      <4> QED BY <2>2, <3>1, <4>1 DEF WorkEdit, IInv, WorkersOk, WorkerOk
    <3>2. CASE Ordered(j, job)
      <4>1. ~state.jobs[j].retry
        BY <2>1, <2>2, <3>2 DEF Ordered, DeadlinesOk
      <4>2. ~job.retry
        BY <3>2, Numbers DEF IInv, Ordered, Cancelled, NewJob, NoJob, JobRecord
      <4> QED BY <2>1, <4>1, <4>2, EditCopies
    <3> QED BY <2>1, <3>1, <3>2
  <2>3. state'.jobs[j] \in {state.jobs[j], job} /\ store'.jobs[j] \in {store.jobs[j], job}
    BY <2>1, EditCopies
  <2>4. \A i \in Job \ {j} : /\ control'[i] = control[i] /\ state'.jobs[i] = state.jobs[i]
                            /\ store'.jobs[i] = store.jobs[i]
    BY <2>1 DEF Untouched
  <2> QED BY <2>1, <2>2, <2>3, <2>4 DEF DeadlinesOk, Present
<1>2. CASE QuietStep
  <2>1. \A i \in Job : state'.jobs[i] = state.jobs[i] /\ store'.jobs[i] = store.jobs[i]
    BY <1>2 DEF QuietStep, JobsKept
  <2>2. up' = up /\ \A i \in Job : control'[i].spawn = 0 => control[i].spawn = 0
    <3>1. ASSUME NEW j \in Job, Work(j), WorkStep(j), NEW i \in Job
          PROVE  control'[i].spawn = control[i].spawn
      <4>1. control \in [Job -> ControlRecord]
        BY DEF IInv, TypeOK
      <4>2. Move(j)
        BY <3>1, WorkMoves DEF IInv
      <4> QED BY <3>1, <4>1, <4>2 DEF Move, ControlRecord
    <3>2. ASSUME NEW c \in Client, CommandStep(c), NEW i \in Job, control'[i].spawn = 0
          PROVE  control[i].spawn = 0
      <4>1. control[i] \in ControlRecord /\ control[i].spawn \in Nat
        BY DEF IInv, TypeOK, ControlRecord
      <4>2. CASE Spawned(i)
        <5>1. control'[i].spawn = control[i].spawn + 1
          BY <4>2 DEF Spawned
        <5> QED BY <3>2, <4>1, <5>1
      <4>3. CASE Signalled(i)
        BY <3>2, <4>1, <4>3 DEF Signalled, ControlRecord
      <4> QED BY <3>2, <4>2, <4>3 DEF CommandStep
    <3> QED BY <1>2, <3>1, <3>2 DEF QuietStep, WorkStep, CommandStep
  <2> QED BY <2>1, <2>2 DEF DeadlinesOk, Present
<1>3. CASE Elsewhere
  <2> SUFFICES ASSUME NEW j \in Job
               PROVE  /\ state'.jobs[j].retry => Present(state'.jobs[j])
                      /\ store'.jobs[j].retry => Present(store'.jobs[j])
                      /\ up' /\ control'[j].spawn = 0 => ~state'.jobs[j].retry
    BY DEF DeadlinesOk, Present
  <2>1. LET r == Recovered(state).jobs[j]  s == state.jobs[j] IN
        /\ (r.retry => s.retry) /\ (Present(r) <=> Present(s)) /\ (Present(r) => Terminal(r))
        /\ s.retry => Present(s)
    BY RecoveredRelabels DEF IInv, DeadlinesOk
  <2>2. /\ state'.jobs[j].retry => Present(state'.jobs[j])
        /\ store'.jobs[j].retry => Present(store'.jobs[j])
    BY <1>3, <2>1, ElsewhereCopies DEF DeadlinesOk
  <2>3. ASSUME up', control'[j].spawn = 0
        PROVE  ~state'.jobs[j].retry
    <3>1. CASE Open
      <4>1. state'.jobs[j] = Recovered(state).jobs[j]
        BY <3>1 DEF Open
      <4>2. Valid(Recovered(state).jobs[j])
        BY RecoveredJobs DEF IInv, RecordsOk
      <4> QED BY <2>1, <4>1, <4>2 DEF Valid
    <3>2. CASE up /\ state' = state /\ control' = control
      BY <2>3, <3>2 DEF DeadlinesOk
    <3> QED BY <1>3, <2>3, <3>1, <3>2
            DEF Elsewhere, GrantExpires, Crash, OpenFails, AtRest, taskVars, vars
  <2> QED BY <2>2, <2>3
<1> QED BY <1>1, <1>2, <1>3, LedgerKinds

-----------------------------------------------------------------------------
(* What was removed and what is recorded of it.                             *)

(* Of a worker that is not about to settle nothing is unrecorded.           *)
LEMMA UnrecordedFacts ==
  ASSUME TypeOK, NEW j \in Job
  PROVE  /\ Unrecorded(j) \in Nat
         /\ worker[j].pc # "settle" => Unrecorded(j) = 0
         /\ worker[j].result \notin {"ok", "ambiguous"} => Unrecorded(j) = 0
         /\ Known(state.jobs[j]) \in Nat /\ Known(store.jobs[j]) \in Nat /\ applied[j] \in Nat
BY Numbers DEF Unrecorded, Known

(* The batch in flight is one the file can account for.                     *)
LEMMA FlightCounts ==
  ASSUME IInv, NEW j \in Job, CursorOk(j), BalanceOk(j), InFlight(j)
  PROVE  /\ Present(store.jobs[j]) /\ applied[j] <= Known(state.jobs[j])
         /\ Known(store.jobs[j]) = Known(state.jobs[j])
         /\ \E n \in Sizes(store.jobs[j].plan) : n \in Nat /\ worker[j].allowed <= n
<1> DEFINE job == state.jobs[j]
           n == worker[j].next
<1>1. /\ worker[j].pc = "flight" /\ Present(job) /\ job.plan \in Plan /\ job \in JobRecord
      /\ n \in Nat /\ worker[j].allowed \in Nat /\ worker[j].skipped \in Nat
      /\ n < Count(job.plan) /\ worker[j].allowed + worker[j].skipped <= Size(j)
  BY Numbers
  DEF IInv, InFlight, WorkersOk, WorkerOk, RecordsOk, Valid, BatchesOk, BatchOk, InBatch, TypeOK,
      ControlRecord
<1>2. /\ Size(j) = SizeOf(job.plan, n) /\ Size(j) \in Nat /\ Count(job.plan) \in Nat
  BY <1>1, BatchFacts DEF Size
<1>3. worker[j].allowed <= Size(j) /\ n \in 0..(Count(job.plan) - 1)
  <2> DEFINE a == worker[j].allowed
             k == worker[j].skipped
             m == Count(job.plan)
             z == Size(j)
  <2>1. a \in Nat /\ k \in Nat /\ m \in Nat /\ z \in Nat /\ a + k <= z /\ n \in Nat /\ n < m
    BY <1>1, <1>2
  <2> HIDE DEF a, k, m, z, n
  <2>2. a <= z /\ n \in 0..(m - 1)
    BY <2>1
  <2> QED BY <2>2 DEF a, m, z
<1>4. store.jobs[j].plan = job.plan /\ Known(store.jobs[j]) = Known(job)
  <2>1. store.jobs[j] \in {job, Cancelled(job)}
    BY <1>1 DEF CursorOk, Loop, InBatch
  <2> QED BY <1>1, <2>1 DEF Cancelled, JobRecord, Known
<1>5. Present(store.jobs[j]) /\ Balanced(j)
  BY <1>1 DEF BalanceOk, Loop, InBatch
<1>6. applied[j] <= Known(job)
  BY <1>1, <1>5, UnrecordedFacts DEF Balanced, IInv
<1>7. Size(j) \in Sizes(job.plan)
  BY <1>2, <1>3 DEF Sizes
<1> QED BY <1>2, <1>3, <1>4, <1>5, <1>6, <1>7

(* A job left alone, whose worker gains no batch it does not know of.       *)
LEMMA BalanceKept ==
  ASSUME IInv, TypeOK', NEW j \in Job, BalanceOk(j),
         state'.jobs[j] = state.jobs[j], store'.jobs[j] = store.jobs[j],
         applied'[j] = applied[j], Unrecorded(j) <= Unrecorded(j)',
         failed => failed', up' = up, Interrupted => Interrupted',
         worker'[j].pc \in Loop => worker[j].pc \in Loop
  PROVE  BalanceOk(j)'
<1>1. Unrecorded(j) \in Nat /\ Unrecorded(j)' \in Nat /\ Known(state.jobs[j]) \in Nat /\ applied[j] \in Nat
  BY UnrecordedFacts, Numbers DEF IInv, Unrecorded, TypeOK, WorkerRecord
<1>2. Balanced(j) => Balanced(j)'
  BY <1>1 DEF Balanced, Known
<1> QED BY <1>2 DEF BalanceOk, Terminal, Present, Known

(* A published job that knows what the old one knew.                        *)
LEMMA BalanceRelabelled ==
  ASSUME IInv, TypeOK', NEW j \in Job, BalanceOk(j), NEW job \in JobRecord, NEW ok \in BOOLEAN,
         Edit(j, job, ok), Present(state.jobs[j]), Relabelled(job, state.jobs[j]),
         applied'[j] = applied[j], Unrecorded(j)' = Unrecorded(j), up, up' = up,
         Interrupted => Interrupted',
         worker'[j].pc \in Loop => worker[j].pc \in Loop \/ (ok /\ ~Terminal(job))
  PROVE  BalanceOk(j)'
<1> DEFINE old == state.jobs[j]
<1>1. /\ state'.jobs[j] \in {old, job} /\ store'.jobs[j] \in {store.jobs[j], job}
      /\ store'.jobs[j] = store.jobs[j] \/ store = state
      /\ ok => state'.jobs[j] = job /\ store'.jobs[j] = job
      /\ ~failed' => ok /\ ~failed
      /\ ok => ~failed /\ (Terminal(old) => Terminal(job))
      /\ Present(job) /\ Present(store.jobs[j])
  BY EditCopies DEF Edit, JobStep, Follows, BalanceOk
<1>2. Known(job) = Known(old) /\ job.plan = old.plan
  BY DEF Relabelled, Known
<1>3. Known(state'.jobs[j]) = Known(old) /\ (Balanced(j) => Balanced(j)')
  BY <1>1, <1>2 DEF Balanced, Known
<1>4. worker'[j].pc \in Loop => Balanced(j)'
  BY <1>1, <1>3 DEF BalanceOk
<1>5. ~failed' /\ ~Terminal(state'.jobs[j]) => Balanced(j)'
  BY <1>1, <1>3 DEF BalanceOk
<1>6. ~failed' /\ ~Interrupted' => Balanced(j)'
  BY <1>1, <1>3 DEF BalanceOk
<1>7. Present(state'.jobs[j]) /\ Present(store'.jobs[j])
  BY <1>1
<1>8. \E n \in {0} \cup Sizes(store'.jobs[j].plan) : applied'[j] <= Known(store'.jobs[j]) + n
  <2>1. \E n \in {0} \cup Sizes(store.jobs[j].plan) : applied[j] <= Known(store.jobs[j]) + n
    BY <1>1 DEF BalanceOk
  <2>2. store'.jobs[j].plan = store.jobs[j].plan /\ Known(store'.jobs[j]) = Known(store.jobs[j])
    BY <1>1, <1>2
  <2> QED BY <2>1, <2>2
<1> QED BY <1>4, <1>5, <1>6, <1>7, <1>8 DEF BalanceOk, Terminal, Present, Known

(* Progress accounts for the batch.                                         *)
LEMMA BalanceProgress ==
  ASSUME IInv, TypeOK', NEW j \in Job, CursorOk(j), BalanceOk(j), NEW job \in JobRecord,
         NEW ok \in BOOLEAN, Edit(j, job, ok), Progresses(j, job, ok), applied'[j] = applied[j],
         Present(state.jobs[j])
  PROVE  BalanceOk(j)'
<1> DEFINE old == state.jobs[j]
<1>1. /\ worker[j].pc = "settle" /\ worker[j] \in WorkerRecord
      /\ worker'[j].pc = IF ok THEN "post" ELSE "fail"
  BY Numbers DEF IInv, Progresses, Goes, WorkerRecord
<1>2. Balanced(j) /\ Present(store.jobs[j])
  BY <1>1 DEF BalanceOk, Loop, InBatch
<1>3. PICK d, f, u \in Nat : Added(j, job, d, f, u) /\ Unrecorded(j) <= d + u
  BY <1>1, ProgressedAccounts DEF Progresses
<1>4. applied[j] <= Known(job) /\ Known(job) \in Nat
  <2> DEFINE k == old.deleted
             e == old.uncertain
             x == Unrecorded(j)
             a == applied[j]
  <2>1. /\ job.deleted = k + d /\ job.uncertain = e + u
        /\ k \in Nat /\ e \in Nat /\ x \in Nat /\ a \in Nat /\ x <= d + u
        /\ a <= (k + e) + x
    BY <1>2, <1>3, Numbers, UnrecordedFacts DEF IInv, Added, Balanced, Known
  <2> HIDE DEF k, e, x, a
  <2>2. a <= (k + d) + (e + u) /\ (k + d) + (e + u) \in Nat
    BY <2>1, <1>3
  <2> QED BY <2>1, <2>2 DEF Known, a
<1>5. /\ store'.jobs[j] \in {store.jobs[j], job} /\ Present(job)
      /\ ok => state'.jobs[j] = job /\ store'.jobs[j] = job
      /\ ~ok => failed' /\ state'.jobs[j] = old
  BY EditCopies DEF Edit, JobStep
<1>6. Unrecorded(j)' = 0
  BY <1>1 DEF Unrecorded
<1>7. ok => Balanced(j)'
  BY <1>4, <1>5, <1>6 DEF Balanced, Known
<1>8. ~ok => worker'[j].pc \notin Loop
  BY <1>1 DEF Loop, InBatch
<1>9. Present(store'.jobs[j])
  BY <1>2, <1>5
<1>10. \E n \in {0} \cup Sizes(store'.jobs[j].plan) : applied'[j] <= Known(store'.jobs[j]) + n
  <2>1. CASE store'.jobs[j] = job
    <3>1. applied'[j] <= Known(store'.jobs[j]) + 0
      BY <1>4, <2>1
    <3> QED BY <3>1
  <2>2. CASE store'.jobs[j] = store.jobs[j]
    BY <1>2, <2>2 DEF BalanceOk
  <2> QED BY <1>5, <2>1, <2>2
<1> QED BY <1>5, <1>7, <1>8, <1>9, <1>10 DEF BalanceOk, Terminal, Present, Known

(* A new job has removed nothing.                                           *)
LEMMA BalanceNew ==
  ASSUME IInv, TypeOK', NEW j \in Job, BalanceOk(j), NEW job \in JobRecord, NEW ok \in BOOLEAN,
         Edit(j, job, ok), ~Present(state.jobs[j]), ~Present(store.jobs[j]),
         applied'[j] = applied[j]
  PROVE  BalanceOk(j)'
<1>1. applied'[j] = 0
  BY DEF BalanceOk
<1>2. /\ Unrecorded(j)' \in Nat /\ Known(state'.jobs[j]) \in Nat /\ Known(store'.jobs[j]) \in Nat
  BY DEF TypeOK, Projection, JobRecord, WorkerRecord, Unrecorded, Known
<1>3. Balanced(j)'
  BY <1>1, <1>2 DEF Balanced, Known
<1>4. Present(state'.jobs[j]) => Present(store'.jobs[j])
  BY EditCopies DEF Edit, JobStep
<1>5. applied'[j] <= Known(store'.jobs[j]) + 0
  BY <1>1, <1>2
<1> QED BY <1>1, <1>3, <1>4, <1>5 DEF BalanceOk, Terminal, Present, Known

(* Any edit.                                                                *)
LEMMA BalanceEdits ==
  ASSUME IInv, TypeOK', NEW j \in Job, CursorOk(j), BalanceOk(j), NEW job \in JobRecord,
         NEW ok \in BOOLEAN, EditStepOf(j, job, ok), Interrupted => Interrupted'
  PROVE  BalanceOk(j)'
<1>1. /\ Edit(j, job, ok) /\ up /\ up' = up /\ applied'[j] = applied[j]
      /\ WorkEdit(j, job, ok) \/ Ordered(j, job)
      /\ worker[j] \in WorkerRecord /\ state.jobs[j] \in JobRecord
  BY EditSources, Numbers DEF IInv, WorkEdit, Ordered
<1>2. CASE WorkEdit(j, job, ok) /\ ~Progresses(j, job, ok)
  <2>1. /\ Present(state.jobs[j]) /\ Relabelled(job, state.jobs[j])
        /\ worker[j].pc = "settle" => worker[j].result = "rate"
        /\ worker'[j].pc # "settle"
        /\ worker'[j].pc \in Loop => worker[j].pc \in Loop \/ (ok /\ ~Terminal(job))
    <3>1. CASE Claims(j, job, ok)
      BY <1>1, <1>2, <3>1
      DEF WorkEdit, Claims, Labels, Terminal, TerminalStatus, WorkerRecord, Loop, InBatch
    <3>2. CASE SeesCancelled(j, job, ok) \/ Waits(j, job, ok) \/ Resumes(j, job, ok)
      BY <1>1, <1>2, <3>2
      DEF WorkEdit, SeesCancelled, Waits, Resumes, Goes, Labels, WorkerRecord, Loop, InBatch
    <3>3. CASE Finalizes(j, job, ok) \/ Closes(j, job, ok)
      BY <1>1, <1>2, <3>3
      DEF WorkEdit, Finalizes, Closes, Goes, Labels, WorkerRecord, Loop, InBatch
    <3> QED BY <1>2, <3>1, <3>2, <3>3 DEF WorkEdit
  <2>2. Unrecorded(j)' = Unrecorded(j)
    BY <2>1 DEF Unrecorded
  <2> QED BY <1>1, <2>1, <2>2, BalanceRelabelled
<1>3. CASE WorkEdit(j, job, ok) /\ Progresses(j, job, ok)
  BY <1>1, <1>3, BalanceProgress DEF WorkEdit
<1>4. CASE Ordered(j, job) /\ Present(state.jobs[j])
  <2>1. Relabelled(job, state.jobs[j])
    <3>1. job = Cancelled(state.jobs[j])
      BY <1>4 DEF Ordered
    <3> QED BY <1>1, <3>1 DEF Cancelled, Relabelled, JobRecord
  <2>2. worker'[j] = worker[j] /\ Unrecorded(j)' = Unrecorded(j)
    BY <1>4 DEF Ordered, Unrecorded
  <2> QED BY <1>1, <1>4, <2>1, <2>2, BalanceRelabelled
<1>5. CASE Ordered(j, job) /\ ~Present(state.jobs[j])
  BY <1>1, <1>5, BalanceNew DEF Ordered
<1> QED BY <1>1, <1>2, <1>3, <1>4, <1>5

(* A worker that publishes nothing, and an answer of the provider.          *)
LEMMA BalanceQuiet ==
  ASSUME IInv, TypeOK', NEW j \in Job, CursorOk(j), BalanceOk(j), QuietMove(j),
         state'.jobs[j] = state.jobs[j], store'.jobs[j] = store.jobs[j],
         failed => failed', up' = up, Interrupted => Interrupted'
  PROVE  BalanceOk(j)'
<1> USE DEF Keeps
<1>1. /\ Unrecorded(j)' \in Nat /\ Unrecorded(j) \in Nat
      /\ worker[j].pc # "settle" => Unrecorded(j) = 0
      /\ worker'[j].pc \in Outside => worker'[j].pc \notin Loop
  BY UnrecordedFacts, Numbers
  DEF IInv, Unrecorded, TypeOK, WorkerRecord, Outside, Leaving, Loop, InBatch
<1>2. CASE ~Answers(j)
  <2>1. /\ worker[j].pc # "settle" /\ applied'[j] = applied[j]
        /\ worker'[j].pc \in Loop => worker[j].pc \in Loop
    <3>1. CASE Outward(j)
      BY <1>1, <3>1 DEF Outward
    <3>2. CASE Exhausts(j) \/ Begins(j) \/ Reaches(j) \/ Misses(j) \/ Advances(j) \/ Advanced(j) \/ Wakes(j)
      BY <3>2 DEF Exhausts, Begins, Reaches, Misses, Advances, Advanced, Wakes, Loop, InBatch
    <3> QED BY <1>2, <3>1, <3>2 DEF QuietMove
  <2>2. Unrecorded(j) <= Unrecorded(j)'
    BY <1>1, <2>1
  <2> QED BY <2>1, <2>2, BalanceKept
<1>3. CASE Answers(j) /\ applied'[j] = applied[j]
  <2>1. worker[j].pc = "flight" /\ Unrecorded(j) <= Unrecorded(j)'
    BY <1>1, <1>3 DEF Answers
  <2> QED BY <1>3, <2>1, BalanceKept DEF Loop, InBatch
<1>4. CASE Answers(j) /\ applied'[j] = applied[j] + worker[j].allowed
            /\ worker'[j].result \in {"ok", "ambiguous"}
  <2>1. InFlight(j) /\ Unrecorded(j)' = worker[j].allowed
    BY <1>4 DEF Answers, InFlight, Unrecorded
  <2>2. /\ Present(store.jobs[j]) /\ applied[j] <= Known(state.jobs[j])
        /\ Known(store.jobs[j]) = Known(state.jobs[j])
        /\ \E n \in Sizes(store.jobs[j].plan) : n \in Nat /\ worker[j].allowed <= n
    BY <2>1, FlightCounts
  <2>3. PICK n \in Sizes(store.jobs[j].plan) : n \in Nat /\ worker[j].allowed <= n
    BY <2>2
  <2> DEFINE a == applied[j]
             b == worker[j].allowed
             k == Known(state.jobs[j])
  <2>4. a \in Nat /\ b \in Nat /\ k \in Nat /\ a <= k /\ b <= n /\ applied'[j] = a + b
    BY <1>4, <2>2, <2>3, Numbers, UnrecordedFacts DEF IInv
  <2> HIDE DEF a, b, k
  <2>5. applied'[j] <= k + b /\ applied'[j] <= k + n
    BY <2>3, <2>4
  <2>6. Balanced(j)'
    BY <2>1, <2>5 DEF Balanced, Known, k, b
  <2>7. Present(store'.jobs[j]) /\ applied'[j] <= Known(store'.jobs[j]) + n /\ n \in Sizes(store'.jobs[j].plan)
    BY <2>2, <2>3, <2>5 DEF k
  <2>8. \E m \in {0} \cup Sizes(store'.jobs[j].plan) : applied'[j] <= Known(store'.jobs[j]) + m
    BY <2>7
  <2> QED BY <2>6, <2>7, <2>8 DEF BalanceOk, Terminal, Present, Known
<1> QED BY <1>2, <1>3, <1>4 DEF Answers

(* The death of the process: what is in flight may be removed, or not.      *)
LEMMA BalanceCrash ==
  ASSUME IInv, TypeOK', NEW j \in Job, CursorOk(j), BalanceOk(j), NEW landed \in SUBSET Job,
         Crash(landed), Interrupted'
  PROVE  BalanceOk(j)'
<1>1. /\ state' = store /\ store' = store /\ ~up' /\ worker'[j].pc = "off"
      /\ applied'[j] = applied[j] + (IF j \in landed THEN worker[j].allowed ELSE 0)
      /\ j \in landed => InFlight(j)
  BY DEF Crash, Volatile, NoWorker
<1>2. worker'[j].pc \notin Loop
  BY <1>1 DEF Loop, InBatch
<1>3. /\ ~Present(store.jobs[j]) => applied'[j] = 0
      /\ Present(store.jobs[j]) =>
           \E n \in {0} \cup Sizes(store.jobs[j].plan) : applied'[j] <= Known(store.jobs[j]) + n
  <2>1. CASE j \notin landed
    <3>1. applied'[j] = applied[j]
      BY <1>1, <2>1, Numbers DEF IInv
    <3> QED BY <3>1 DEF BalanceOk
  <2>2. CASE j \in landed
    <3>1. /\ Present(store.jobs[j]) /\ applied[j] <= Known(state.jobs[j])
          /\ Known(store.jobs[j]) = Known(state.jobs[j])
          /\ \E n \in Sizes(store.jobs[j].plan) : n \in Nat /\ worker[j].allowed <= n
      BY <1>1, <2>2, FlightCounts
    <3>2. PICK n \in Sizes(store.jobs[j].plan) : n \in Nat /\ worker[j].allowed <= n
      BY <3>1
    <3> DEFINE a == applied[j]
               b == worker[j].allowed
               k == Known(store.jobs[j])
    <3>3. a \in Nat /\ b \in Nat /\ k \in Nat /\ a <= k /\ b <= n /\ applied'[j] = a + b
      BY <1>1, <2>2, <3>1, <3>2, Numbers, UnrecordedFacts DEF IInv
    <3> HIDE DEF a, b, k
    <3>4. applied'[j] <= k + n
      BY <3>2, <3>3
    <3> QED BY <3>1, <3>2, <3>4 DEF k
  <2> QED BY <2>1, <2>2
<1> QED BY <1>1, <1>2, <1>3 DEF BalanceOk, Terminal, Present, Known

(* Opening the file: what it closes keeps its counters.                     *)
LEMMA BalanceOpen ==
  ASSUME IInv, TypeOK', NEW j \in Job, BalanceOk(j), Open \/ OpenFails, Interrupted => Interrupted'
  PROVE  BalanceOk(j)'
<1> DEFINE old == state.jobs[j]
           new == state'.jobs[j]
<1>1. /\ ~up /\ state = store /\ worker' = worker /\ applied' = applied /\ failed' = failed
      /\ worker[j].pc = "off" /\ store' = state'
  BY DEF IInv, RecordsOk, WorkersOk, WorkerOk, Open, OpenFails, taskVars
<1>2. /\ new \in {old, Recovered(state).jobs[j]}
      /\ up' => new = Recovered(state).jobs[j]
  BY <1>1 DEF Open, OpenFails
<1>3. /\ Known(new) = Known(old) /\ new.plan = old.plan /\ (Present(new) <=> Present(old))
      /\ up' /\ Present(new) => Terminal(new)
  <2>1. LET r == Recovered(state).jobs[j] IN
        Relabelled(r, old) /\ (Present(r) <=> Present(old)) /\ (Present(r) => Terminal(r))
    BY RecoveredRelabels DEF IInv
  <2> QED BY <1>2, <2>1 DEF Relabelled, Known
<1>4. Balanced(j) => Balanced(j)'
  BY <1>1, <1>3 DEF Balanced, Unrecorded, Known
<1>5. worker'[j].pc \notin Loop
  BY <1>1 DEF Loop, InBatch
<1>6. up' /\ ~Terminal(new) => Balanced(j)'
  <2>1. ASSUME up', ~Terminal(new)
        PROVE  Balanced(j)'
    <3>1. ~Present(store.jobs[j])
      BY <1>1, <1>3, <2>1
    <3>2. applied'[j] = 0
      BY <1>1, <3>1 DEF BalanceOk
    <3>3. Unrecorded(j)' \in Nat /\ Known(new) \in Nat
      BY <1>3, Numbers, UnrecordedFacts DEF IInv, TypeOK, WorkerRecord, Unrecorded
    <3> QED BY <3>2, <3>3 DEF Balanced, Known
  <2> QED BY <2>1
<1>7. ~failed' /\ ~Interrupted' => Balanced(j)'
  BY <1>1, <1>4 DEF BalanceOk
<1>8. /\ ~Present(store'.jobs[j]) => applied'[j] = 0
      /\ Present(store'.jobs[j]) =>
           \E n \in {0} \cup Sizes(store'.jobs[j].plan) : applied'[j] <= Known(store'.jobs[j]) + n
  <2>1. /\ Known(store'.jobs[j]) = Known(store.jobs[j]) /\ store'.jobs[j].plan = store.jobs[j].plan
        /\ Present(store'.jobs[j]) <=> Present(store.jobs[j])
    BY <1>1, <1>3
  <2> QED BY <1>1, <2>1 DEF BalanceOk
<1> QED BY <1>1, <1>5, <1>6, <1>7, <1>8 DEF BalanceOk, Terminal, Present, Known

(* Balances: at most the batch in hand is missing, and none before a fault. *)
LEMMA BalancesStep ==
  ASSUME IInv, BudgetOk, CursorsOk, BalancesOk, Next
  PROVE  BalancesOk'
<1>1. /\ TypeOK' /\ (Interrupted => Interrupted') /\ (up /\ ~up' => Interrupted')
      /\ \A i \in Job : CursorOk(i) /\ BalanceOk(i)
  BY TypeStep, BudgetStep DEF CursorsOk, BalancesOk
<1>2. ASSUME NEW i \in Job, Untouched(i), failed => failed', up' = up
      PROVE  BalanceOk(i)'
  <2>1. Unrecorded(i) <= Unrecorded(i)' /\ worker'[i] = worker[i]
    BY <1>2, UnrecordedFacts DEF Untouched, Unrecorded, IInv
  <2> QED BY <1>1, <1>2, <2>1, BalanceKept DEF Untouched
<1>3. ASSUME NEW j \in Job, NEW job \in JobRecord, NEW ok \in BOOLEAN, EditStepOf(j, job, ok)
      PROVE  BalancesOk'
  <2>1. /\ \A i \in Job \ {j} : Untouched(i)
        /\ up' = up /\ (failed => failed')
    BY <1>3, EditSources DEF Edit, JobStep
  <2>2. BalanceOk(j)'
    BY <1>1, <1>3, BalanceEdits
  <2> QED BY <1>2, <2>1, <2>2 DEF BalancesOk
<1>4. CASE QuietStep
  <2>1. \A i \in Job : state'.jobs[i] = state.jobs[i] /\ store'.jobs[i] = store.jobs[i]
    BY <1>4 DEF QuietStep, JobsKept
  <2>2. ASSUME NEW j \in Job, WorkStep(j), QuietWork(j)
        PROVE  BalancesOk'
    <3>1. failed => failed'
      BY <2>2 DEF WorkStep, Grown
    <3>2. BalanceOk(j)'
      BY <1>1, <2>1, <2>2, <3>1, QuietMoves, BalanceQuiet DEF IInv, WorkStep
    <3> QED BY <1>2, <2>2, <3>1, <3>2 DEF WorkStep, BalancesOk
  <2>3. ASSUME NEW c \in Client, CommandStep(c), NEW i \in Job
        PROVE  BalanceOk(i)'
    <3>1. up' = up /\ applied'[i] = applied[i] /\ (failed => failed')
      BY <2>3 DEF CommandStep, Grown
    <3>2. Unrecorded(i) <= Unrecorded(i)' /\ (worker'[i].pc \in Loop => worker[i].pc \in Loop)
      <4>1. CASE Spawned(i)
        <5>1. worker'[i].pc = "start" /\ worker[i].pc = "off"
          BY <4>1 DEF Spawned, NoWorker, IInv, WorkersOk, WorkerOk
        <5> QED BY <5>1 DEF Unrecorded, Loop, InBatch
      <4>2. CASE Signalled(i)
        BY <4>2, UnrecordedFacts DEF Signalled, Unrecorded, IInv
      <4> QED BY <2>3, <4>1, <4>2 DEF CommandStep
    <3> QED BY <1>1, <2>1, <3>1, <3>2, BalanceKept
  <2> QED BY <1>4, <2>2, <2>3 DEF QuietStep, BalancesOk
<1>5. CASE Elsewhere
  <2> SUFFICES ASSUME NEW i \in Job PROVE BalanceOk(i)'
    BY DEF BalancesOk
  <2>1. ASSUME NEW landed \in SUBSET Job, Crash(landed)
        PROVE  BalanceOk(i)'
    BY <1>1, <2>1, BalanceCrash DEF Crash
  <2>2. CASE Open \/ OpenFails
    BY <1>1, <2>2, BalanceOpen
  <2>3. CASE (\E p \in Plan : GrantExpires(p)) \/ AtRest
    <3>1. Untouched(i) /\ failed' = failed /\ up' = up
      BY <2>3 DEF GrantExpires, AtRest, vars, taskVars, Untouched
    <3> QED BY <1>2, <3>1
  <2> QED BY <1>5, <2>1, <2>2, <2>3 DEF Elsewhere
<1> QED BY <1>3, <1>4, <1>5, LedgerKinds

-----------------------------------------------------------------------------
(* What an approval of a plan is spent on.                                  *)

(* The claims on the approvals of a plan: starts under way, jobs started,   *)
(* and a grant not consumed yet.                                            *)
Granted(p) == IF grants[p] = "live" THEN 1 ELSE 0
SpentOk(p) ==
  /\ IsFiniteSet(Spending(p)) /\ IsFiniteSet(StartedOf(p))
  /\ Cardinality(Spending(p)) + Cardinality(StartedOf(p)) + Granted(p) <= approvals[p]

LEMMA SpentForm == CountableOk /\ ApprovalSpentOnce <=> \A p \in Plan : SpentOk(p)
BY DEF CountableOk, ApprovalSpentOnce, SpentOk, Granted, Spending, StartedOf

LEMMA SpentFormNext == (CountableOk /\ ApprovalSpentOnce)' <=> \A p \in Plan : SpentOk(p)'
BY DEF CountableOk, ApprovalSpentOnce, SpentOk, Granted, Spending, StartedOf

(* Fewer claims, and no approval lost.                                      *)
LEMMA SpendsLess ==
  ASSUME NEW p \in Plan, SpentOk(p), approvals[p] \in Nat, approvals'[p] = approvals[p],
         Spending(p)' \subseteq Spending(p), StartedOf(p)' \subseteq StartedOf(p),
         grants'[p] = "live" => grants[p] = "live"
  PROVE  SpentOk(p)'
<1> DEFINE A == Spending(p)
           B == StartedOf(p)
           C == Spending(p)'
           D == StartedOf(p)'
<1>1. /\ IsFiniteSet(A) /\ IsFiniteSet(B)
      /\ Cardinality(A) + Cardinality(B) + Granted(p) <= approvals[p]
      /\ Granted(p) \in {0, 1} /\ Granted(p)' \in {0, 1} /\ Granted(p)' <= Granted(p)
  BY DEF SpentOk, Granted
<1>2. IsFiniteSet(C) /\ Cardinality(C) <= Cardinality(A)
  BY <1>1, FS_Subset
<1>3. IsFiniteSet(D) /\ Cardinality(D) <= Cardinality(B)
  BY <1>1, FS_Subset
<1>4. /\ Cardinality(A) \in Nat /\ Cardinality(B) \in Nat
      /\ Cardinality(C) \in Nat /\ Cardinality(D) \in Nat
  BY <1>1, <1>2, <1>3, FS_CardinalityType
<1>5. Cardinality(C) + Cardinality(D) + Granted(p)' <= approvals'[p]
  <2> DEFINE a == Cardinality(A)
             b == Cardinality(B)
             k == Cardinality(C)
             d == Cardinality(D)
             g == Granted(p)
             h == Granted(p)'
             n == approvals[p]
  <2>1. /\ a \in Nat /\ b \in Nat /\ k \in Nat /\ d \in Nat /\ g \in Nat /\ h \in Nat /\ n \in Nat
        /\ k <= a /\ d <= b /\ h <= g /\ a + b + g <= n
    BY <1>1, <1>2, <1>3, <1>4
  <2> HIDE DEF a, b, k, d, g, h, n
  <2>2. k + d + h <= n
    BY <2>1
  <2> QED BY <2>2 DEF k, d, h, n
<1> QED BY <1>2, <1>3, <1>5 DEF SpentOk

(* The owner approves once more: one more approval, at most one more grant. *)
LEMMA SpendsApproved ==
  ASSUME NEW p \in Plan, SpentOk(p), approvals[p] \in Nat, approvals'[p] = approvals[p] + 1,
         Spending(p)' = Spending(p), StartedOf(p)' = StartedOf(p)
  PROVE  SpentOk(p)'
<1> DEFINE a == Cardinality(Spending(p))
           b == Cardinality(StartedOf(p))
           g == Granted(p)
           h == Granted(p)'
           n == approvals[p]
<1>1. /\ IsFiniteSet(Spending(p)) /\ IsFiniteSet(StartedOf(p))
      /\ a \in Nat /\ b \in Nat /\ g \in {0, 1} /\ h \in {0, 1} /\ n \in Nat /\ a + b + g <= n
  BY FS_CardinalityType DEF SpentOk, Granted
<1> HIDE DEF a, b, g, h, n
<1>2. a + b + h <= n + 1
  BY <1>1
<1> QED BY <1>1, <1>2 DEF SpentOk, a, b, h, n

(* The grant is consumed by a start.                                        *)
LEMMA SpendsGrant ==
  ASSUME NEW p \in Plan, SpentOk(p), approvals[p] \in Nat, approvals'[p] = approvals[p],
         NEW c, Spending(p)' = Spending(p) \cup {c}, StartedOf(p)' = StartedOf(p),
         grants[p] = "live", grants'[p] = "none"
  PROVE  SpentOk(p)'
<1> DEFINE a == Cardinality(Spending(p))
           b == Cardinality(StartedOf(p))
           k == Cardinality(Spending(p) \cup {c})
           n == approvals[p]
<1>1. /\ IsFiniteSet(Spending(p)) /\ IsFiniteSet(StartedOf(p))
      /\ a \in Nat /\ b \in Nat /\ n \in Nat /\ a + b + 1 <= n
  BY FS_CardinalityType DEF SpentOk, Granted
<1>2. IsFiniteSet(Spending(p) \cup {c}) /\ k \in {a, a + 1}
  BY <1>1, FS_AddElement
<1>3. Granted(p)' = 0
  BY DEF Granted
<1> HIDE DEF a, b, k, n
<1>4. k + b + 0 <= n
  BY <1>1, <1>2
<1> QED BY <1>1, <1>2, <1>3, <1>4 DEF SpentOk, a, b, k, n

(* The start becomes a job.                                                 *)
LEMMA SpendsStart ==
  ASSUME NEW p \in Plan, SpentOk(p), approvals[p] \in Nat, approvals'[p] = approvals[p],
         NEW c \in Spending(p), Spending(p)' = Spending(p) \ {c},
         NEW j, StartedOf(p)' = StartedOf(p) \cup {j}, grants'[p] = grants[p]
  PROVE  SpentOk(p)'
<1> DEFINE a == Cardinality(Spending(p))
           b == Cardinality(StartedOf(p))
           k == Cardinality(Spending(p) \ {c})
           d == Cardinality(StartedOf(p) \cup {j})
           g == Granted(p)
           n == approvals[p]
<1>1. /\ IsFiniteSet(Spending(p)) /\ IsFiniteSet(StartedOf(p))
      /\ a \in Nat /\ b \in Nat /\ g \in {0, 1} /\ n \in Nat /\ a + b + g <= n
  BY FS_CardinalityType DEF SpentOk, Granted
<1>2. IsFiniteSet(Spending(p) \ {c}) /\ k = a - 1
  BY <1>1, FS_RemoveElement
<1>3. IsFiniteSet(StartedOf(p) \cup {j}) /\ d \in {b, b + 1}
  BY <1>1, FS_AddElement
<1>4. Granted(p)' = g
  BY DEF Granted
<1> HIDE DEF a, b, k, d, g, n
<1>5. k + d + g <= n
  BY <1>1, <1>2, <1>3
<1> QED BY <1>2, <1>3, <1>4, <1>5 DEF SpentOk, k, d, n

(* A command that starts nothing.                                           *)
Claimless(c) ==
  /\ UNCHANGED <<started, approvals>>
  /\ \A p \in Plan : grants'[p] = "live" => grants[p] = "live"
  /\ call'[c] = call[c] \/ call'[c].at # "startCommit"

(* The commands that make a claim are the approval and the start.           *)
LEMMA Claimants ==
  ASSUME IInv, NEW c \in Client, Handle(c) \/ Invoke(c)
  PROVE  \/ Claimless(c)
         \/ PromptApproved(c)
         \/ \E p \in Plan : StartConsume(c, p)
         \/ \E j \in Job : StartCommit(c, j)
<1>0. TypeOK /\ call \in [Client -> CallRecord] /\ grants \in [Plan -> {"none", "live"}]
  BY DEF IInv, TypeOK
<1>1. ASSUME UNCHANGED <<started, approvals, grants>>,
             call'[c] = Idle \/ call'[c] = call[c] \/ call'[c].at # "startCommit"
      PROVE  Claimless(c)
  BY <1>1 DEF Claimless, Idle
<1>2. CASE StartRefused(c) \/ StartSchedule(c) \/ RecoverReturn(c) \/ CallRefused(c) \/ PrepareCommit(c)
  BY <1>0, <1>1, <1>2 DEF StartRefused, StartSchedule, RecoverReturn, CallRefused, PrepareCommit,
                          Return, lifecycleVars, observers
<1>3. ASSUME NEW at \in CallPc \ {"startCommit"}, Step(c, at), UNCHANGED <<started, approvals, grants>>
      PROVE  Claimless(c)
  <2>1. call'[c].at = at
    BY <1>0, <1>3 DEF Step, CallRecord
  <2> QED BY <1>1, <1>3, <2>1
<1>4. CASE CancelSignal(c) \/ CancelGate(c) \/ CancelArm(c) \/ CancelWake(c)
  BY <1>3, <1>4 DEF CancelSignal, CancelGate, CancelArm, CancelWake, lifecycleVars, observers, CallPc
<1>5. CASE StopFlag(c) \/ StopDrained(c)
  BY <1>3, <1>5 DEF StopFlag, StopDrained, lifecycleVars, observers, CallPc
<1>6. CASE CancelCheck(c)
  BY <1>0, <1>1, <1>3, <1>6 DEF CancelCheck, Return, lifecycleVars, CallPc
<1>7. CASE StopPolls(c)
  BY <1>1, <1>7 DEF StopPolls, vars
<1>8. CASE StopClear(c)
  <2>1. call'[c].at = "idle"
    BY <1>0, <1>8 DEF StopClear, Return, Idle
  <2> QED BY <1>8, <2>1 DEF StopClear, observers, Claimless
<1>9. ASSUME NEW j \in Job, RecoverSchedule(c, j)
      PROVE  Claimless(c)
  <2>1. call'[c].at = "recover"
    BY <1>0, <1>9 DEF RecoverSchedule, Calling, CallRecord
  <2> QED BY <1>1, <1>9, <2>1 DEF RecoverSchedule, lifecycleVars, observers
<1>10. ASSUME NEW r, Begin(c, r), r.at # "startCommit", UNCHANGED <<started, approvals, grants>>
       PROVE  Claimless(c)
  BY <1>0, <1>1, <1>10, BeginEffect
<1>11. CASE RecoverCall(c) \/ StopCall(c)
  <2> DEFINE r == [Idle EXCEPT !.at = "recover", !.todo = {j \in Job : Unfinished(state.jobs[j])}]
             s == [Idle EXCEPT !.at = "stopFlag"]
  <2>1. r.at # "startCommit" /\ s.at # "startCommit"
    BY DEF Idle
  <2>2. (Begin(c, r) \/ Begin(c, s)) /\ UNCHANGED <<started, approvals, grants>>
    BY <1>11 DEF RecoverCall, StopCall, lifecycleVars, observers
  <2> HIDE DEF r, s
  <2> QED BY <1>10, <2>1, <2>2
<1>12. ASSUME NEW p \in Plan, PrepareCall(c, p) \/ AuthorizeCall(c, p)
       PROVE  Claimless(c)
  <2> DEFINE r == [Idle EXCEPT !.at = "describe", !.plan = p]
             s == [Idle EXCEPT !.at = "prompt", !.plan = p]
  <2>1. r.at # "startCommit" /\ s.at # "startCommit"
    BY DEF Idle
  <2>2. (Begin(c, r) \/ Begin(c, s)) /\ UNCHANGED <<started, approvals, grants>>
    BY <1>12 DEF PrepareCall, AuthorizeCall, lifecycleVars, observers
  <2> HIDE DEF r, s
  <2> QED BY <1>10, <2>1, <2>2
<1>13. ASSUME NEW j \in Job, CancelCall(c, j)
       PROVE  Claimless(c)
  <2> DEFINE r == [Idle EXCEPT !.at = "cancelCommit", !.job = j, !.spawn = control[j].spawn]
  <2>1. r.at # "startCommit"
    BY DEF Idle
  <2>2. Begin(c, r) /\ UNCHANGED <<started, approvals, grants>>
    BY <1>13 DEF CancelCall, lifecycleVars, observers
  <2> HIDE DEF r
  <2> QED BY <1>10, <2>1, <2>2
<1>14. CASE CancelCommit(c)
  <2>1. call'[c] = Idle \/ Step(c, "cancelSignal")
    BY <1>0, <1>14 DEF CancelCommit, Return
  <2>2. UNCHANGED <<grants, started, approvals>>
    BY <1>14 DEF CancelCommit, observers
  <2> QED BY <1>1, <1>3, <2>1, <2>2 DEF CallPc
<1> QED BY <1>2, <1>4, <1>5, <1>6, <1>7, <1>8, <1>9, <1>11, <1>12, <1>13, <1>14 DEF Handle, Invoke

(* Approvals: every step that makes a claim uses up another or an approval. *)
LEMMA ApprovalStep ==
  ASSUME IInv, CountableOk, ApprovalSpentOnce, Next
  PROVE  CountableOk' /\ ApprovalSpentOnce'
<1>0. /\ \A p \in Plan : SpentOk(p) /\ approvals[p] \in Nat
      /\ \A i \in started : Present(state.jobs[i]) /\ i \in Job
  BY SpentForm DEF IInv, TypeOK, AuthorityOk
<1> SUFFICES ASSUME NEW p \in Plan PROVE SpentOk(p)'
  BY SpentFormNext
<1>1. ASSUME \A i \in Job : Grown(i), started' = started
      PROVE  StartedOf(p)' = StartedOf(p)
  BY <1>0, <1>1 DEF Grown, StartedOf
<1>2. ASSUME NEW j \in Job, WorkStep(j)
      PROVE  SpentOk(p)'
  <2>1. UNCHANGED <<call, grants, approvals, started>>
    BY <1>2 DEF WorkStep
  <2>2. \A i \in started : state'.jobs[i].plan = state.jobs[i].plan
    BY <1>0, <1>2 DEF WorkStep, Untouched, Grown
  <2>3. Spending(p)' \subseteq Spending(p) /\ StartedOf(p)' \subseteq StartedOf(p)
    BY <2>1, <2>2 DEF Spending, StartedOf
  <2> QED BY <1>0, <2>1, <2>3, SpendsLess
<1>3. ASSUME NEW c \in Client, Handle(c) \/ Invoke(c), CommandStep(c)
      PROVE  SpentOk(p)'
  <2>0. /\ call \in [Client -> CallRecord] /\ approvals \in [Plan -> Nat]
        /\ grants \in [Plan -> {"none", "live"}]
        /\ \A d \in Client \ {c} : call'[d] = call[d]
        /\ \A i \in Job : Grown(i)
    BY <1>3 DEF IInv, TypeOK, CommandStep
  <2>1. CASE Claimless(c)
    <3>1. Spending(p)' \subseteq Spending(p)
      BY <2>0, <2>1 DEF Claimless, Spending
    <3>2. StartedOf(p)' \subseteq StartedOf(p)
      BY <1>1, <2>0, <2>1 DEF Claimless
    <3> QED BY <1>0, <2>1, <3>1, <3>2, SpendsLess DEF Claimless
  <2>2. CASE PromptApproved(c)
    <3>1. call[c].at = "prompt" /\ call'[c].at = "idle" /\ started' = started
      BY <2>0, <2>2 DEF PromptApproved, Calling, Return, Idle
    <3>2. Spending(p)' = Spending(p) /\ StartedOf(p)' = StartedOf(p)
      BY <1>1, <2>0, <3>1 DEF Spending
    <3>3. CASE call[c].plan = p
      <4>1. approvals'[p] = approvals[p] + 1
        BY <2>0, <2>2, <3>3 DEF PromptApproved
      <4> QED BY <1>0, <3>2, <4>1, SpendsApproved
    <3>4. CASE call[c].plan # p
      <4>1. approvals'[p] = approvals[p] /\ grants'[p] = grants[p]
        BY <2>0, <2>2, <3>4 DEF PromptApproved
      <4> QED BY <1>0, <3>2, <4>1, SpendsLess
    <3> QED BY <3>3, <3>4
  <2>3. ASSUME NEW q \in Plan, StartConsume(c, q), ~Claimless(c)
        PROVE  SpentOk(p)'
    <3>1. /\ UNCHANGED <<started, approvals>> /\ call[c].at = "idle"
          /\ grants' = [grants EXCEPT ![q] = "none"]
      BY <2>3 DEF StartConsume, Calling, Consumed, observers
    <3>2. /\ grants[q] = "live"
          /\ call'[c] = [Idle EXCEPT !.at = "startCommit", !.plan = q]
      BY <2>0, <2>3, <3>1 DEF StartConsume, Begin, Claimless
    <3>3. call'[c].at = "startCommit" /\ call'[c].plan = q
      BY <3>2 DEF Idle
    <3>4. StartedOf(p)' = StartedOf(p)
      BY <1>1, <2>0, <3>1
    <3>5. CASE p = q
      <4>1. Spending(p)' = Spending(p) \cup {c} /\ grants'[p] = "none"
        BY <2>0, <3>1, <3>3, <3>5 DEF Spending
      <4> QED BY <1>0, <3>1, <3>2, <3>4, <3>5, <4>1, SpendsGrant
    <3>6. CASE p # q
      <4>1. Spending(p)' \subseteq Spending(p) /\ grants'[p] = grants[p]
        BY <2>0, <3>1, <3>3, <3>6 DEF Spending
      <4> QED BY <1>0, <3>1, <3>4, <4>1, SpendsLess
    <3> QED BY <3>5, <3>6
  <2>4. ASSUME NEW j \in Job, StartCommit(c, j), ~Claimless(c)
        PROVE  SpentOk(p)'
    <3> DEFINE q == call[c].plan
    <3>1. /\ call[c].at = "startCommit" /\ UNCHANGED <<grants, approvals>> /\ q \in Plan
          /\ ~Present(state.jobs[j])
      BY <2>4 DEF StartCommit, Calling, IInv, CommandsOk, CommandOk
    <3>2. PICK ok \in BOOLEAN :
            /\ Publish(WithJob(j, NewJob(q)), ok)
            /\ IF ok THEN /\ Begin(c, [Idle EXCEPT !.at = "schedule", !.job = j])
                          /\ started' = started \cup {j}
                     ELSE Return(c) /\ UNCHANGED started
      BY <2>4 DEF StartCommit
    <3>3. ok
      <4>1. CASE ~ok
        <5>1. call'[c].at = "idle" /\ started' = started
          BY <2>0, <3>2, <4>1 DEF Return, Idle
        <5> QED BY <2>4, <3>1, <5>1 DEF Claimless
      <4> QED BY <4>1
    <3>4. call'[c].at = "schedule" /\ started' = started \cup {j}
      <4>1. call'[c] = [Idle EXCEPT !.at = "schedule", !.job = j]
        BY <2>0, <3>2, <3>3 DEF Begin
      <4> QED BY <3>2, <3>3, <4>1 DEF Idle
    <3>5. /\ state'.jobs[j].plan = q
          /\ \A i \in Job \ {j} : state'.jobs[i] = state.jobs[i]
      <4>1. JobStep(j, NewJob(q), ok)
        BY <3>1, <3>2, NewJobForm, PublishJobStep DEF IInv
      <4>2. NewJob(q).plan = q
        BY DEF NewJob, NoJob
      <4> QED BY <3>3, <4>1, <4>2 DEF JobStep
    <3>6. j \notin started
      BY <1>0, <3>1
    <3> HIDE DEF q
    <3>7. CASE p = q
      <4>1. c \in Spending(p) /\ Spending(p)' = Spending(p) \ {c}
        BY <2>0, <3>1, <3>4, <3>7 DEF Spending, q
      <4>2. StartedOf(p)' = StartedOf(p) \cup {j}
        BY <1>0, <3>4, <3>5, <3>6, <3>7 DEF StartedOf
      <4> QED BY <1>0, <3>1, <4>1, <4>2, SpendsStart
    <3>8. CASE p # q
      <4>1. Spending(p)' \subseteq Spending(p)
        BY <2>0, <3>4 DEF Spending
      <4>2. StartedOf(p)' \subseteq StartedOf(p)
        BY <1>0, <3>4, <3>5, <3>6, <3>8 DEF StartedOf
      <4> QED BY <1>0, <3>1, <4>1, <4>2, SpendsLess
    <3> QED BY <3>7, <3>8
  <2> QED BY <1>3, <2>1, <2>2, <2>3, <2>4, Claimants
<1>4. CASE Elsewhere
  <2>1. CASE Volatile
    <3>1. Spending(p)' = {} /\ StartedOf(p)' = {} /\ approvals'[p] = 0 /\ Granted(p)' = 0
      BY <2>1 DEF Volatile, Spending, StartedOf, Granted, Idle
    <3>2. IsFiniteSet({}) /\ Cardinality({}) = 0
      BY FS_EmptySet
    <3>3. IsFiniteSet(Spending(p)') /\ Cardinality(Spending(p)') = 0
      BY <3>1, <3>2
    <3>4. IsFiniteSet(StartedOf(p)') /\ Cardinality(StartedOf(p)') = 0
      BY <3>1, <3>2
    <3> QED BY <3>1, <3>3, <3>4 DEF SpentOk
  <2>2. ASSUME UNCHANGED <<call, started, approvals>>,
               grants'[p] = "live" => grants[p] = "live",
               \A i \in Job : Present(state.jobs[i]) => state'.jobs[i].plan = state.jobs[i].plan
        PROVE  SpentOk(p)'
    <3>1. Spending(p)' \subseteq Spending(p) /\ StartedOf(p)' \subseteq StartedOf(p)
      BY <1>0, <2>2 DEF Spending, StartedOf
    <3> QED BY <1>0, <2>2, <3>1, SpendsLess
  <2>3. ASSUME NEW q \in Plan, GrantExpires(q)
        PROVE  SpentOk(p)'
    <3>1. grants'[p] = "live" => grants[p] = "live"
      BY <2>3 DEF GrantExpires, IInv, TypeOK
    <3> QED BY <2>2, <2>3, <3>1 DEF GrantExpires, taskVars, observers
  <2>4. CASE Open \/ OpenFails
    <3>1. \A i \in Job : state'.jobs[i].plan = state.jobs[i].plan
      BY <2>4, RecoveredJobs DEF Open, OpenFails, IInv, RecordsOk
    <3> QED BY <2>2, <2>4, <3>1 DEF Open, OpenFails, taskVars, observers
  <2>5. CASE AtRest
    BY <2>2, <2>5 DEF AtRest, vars
  <2> QED BY <1>4, <2>1, <2>3, <2>4, <2>5 DEF Elsewhere, Crash
<1> QED BY <1>2, <1>3, <1>4, StepKinds

-----------------------------------------------------------------------------
(* The invariant and what it shows.                                         *)

(* Nothing has happened yet.                                                *)
LEMMA InitLedger ==
  ASSUME Init
  PROVE  LedgerInv
<1>1. IInv
  BY InitIInv
<1>2. /\ \A j \in Job : /\ state.jobs[j] = NoJob /\ store.jobs[j] = NoJob
                        /\ worker[j] = NoWorker /\ control[j] = NoControl /\ applied[j] = 0
      /\ state = store /\ started = {}
  BY DEF Init, Empty
<1>3. \A j \in Job : /\ ~Present(state.jobs[j]) /\ ~Present(store.jobs[j])
                     /\ ~state.jobs[j].retry /\ ~store.jobs[j].retry
                     /\ store.jobs[j].status = "Absent" /\ worker[j].pc = "off"
                     /\ Unrecorded(j) = 0 /\ Known(state.jobs[j]) = 0
  BY <1>2 DEF NoJob, NoWorker, Present, Unrecorded, Known
<1>4. AgreeOk /\ BudgetOk
  BY <1>2, BoundsAssumption DEF Init, AgreeOk, BudgetOk
<1>5. CountableOk /\ ApprovalSpentOnce
  <2> SUFFICES ASSUME NEW p \in Plan PROVE SpentOk(p)
    BY SpentForm
  <2>1. Spending(p) = {} /\ StartedOf(p) = {} /\ approvals[p] = 0 /\ Granted(p) = 0
    BY DEF Init, Spending, StartedOf, Granted, Idle
  <2> QED BY <2>1, FS_EmptySet DEF SpentOk
<1>6. DeadlinesOk /\ SumsOk /\ CompletedOk
  BY <1>3 DEF DeadlinesOk, SumsOk, AddsUp, CompletedOk
<1>7. CursorsOk
  BY <1>3 DEF CursorsOk, CursorOk, Loop, InBatch
<1>8. BalancesOk
  BY <1>2, <1>3 DEF BalancesOk, BalanceOk, Balanced
<1>9. DenialsOk
  <2>1. \A j \in Job : denied[j] = NoDenial
    BY DEF Init
  <2>2. Accounts(NoJob, NoDenial)
    BY DEF Accounts, DeniedBefore, NoJob, NoDenial
  <2> QED BY <1>2, <1>3, <2>1, <2>2 DEF DenialsOk, DenialOk
<1> QED BY <1>1, <1>4, <1>5, <1>6, <1>7, <1>8, <1>9 DEF LedgerInv

(* Every step keeps all of it.                                              *)
LEMMA NextLedger ==
  ASSUME LedgerInv, [Next]_vars
  PROVE  LedgerInv'
<1>0. /\ IInv /\ AgreeOk /\ BudgetOk /\ CountableOk /\ ApprovalSpentOnce
      /\ DeadlinesOk /\ SumsOk /\ CursorsOk /\ BalancesOk /\ CompletedOk /\ DenialsOk
  BY DEF LedgerInv
<1>1. IInv'
  BY <1>0, NextIInv
<1>2. CASE Next
  <2>1. AgreeOk' /\ BudgetOk' /\ CountableOk' /\ ApprovalSpentOnce'
    BY <1>0, <1>2, AgreeStep, BudgetStep, ApprovalStep
  <2>2. DeadlinesOk' /\ SumsOk' /\ CursorsOk' /\ BalancesOk' /\ CompletedOk' /\ DenialsOk'
    BY <1>0, <1>2, DeadlinesStep, SumsStep, CursorsStep, BalancesStep, CompletedStep, DenialsStep
  <2> QED BY <1>1, <2>1, <2>2 DEF LedgerInv
<1>3. CASE UNCHANGED vars
  <2>1. AgreeOk' /\ BudgetOk' /\ CountableOk' /\ ApprovalSpentOnce' /\ DeadlinesOk' /\ SumsOk'
    BY <1>0, <1>3
    DEF vars, AgreeOk, BudgetOk, CountableOk, ApprovalSpentOnce, Spending, StartedOf, DeadlinesOk,
        SumsOk, AddsUp, Present
  <2>2. CursorsOk' /\ CompletedOk' /\ DenialsOk'
    BY <1>0, <1>3, CursorKept, DenialKept DEF vars, CursorsOk, CompletedOk, DenialsOk
  <2>3. BalancesOk'
    BY <1>0, <1>3
    DEF vars, BalancesOk, BalanceOk, Balanced, Unrecorded, Known, Interrupted, Terminal, Present
  <2> QED BY <1>1, <2>1, <2>2, <2>3 DEF LedgerInv
<1> QED BY <1>2, <1>3

(* LedgerInv holds in every state of every behaviour.                       *)
THEOREM LedgerKept == Spec => []LedgerInv
<1>1. Init => LedgerInv
  BY InitLedger
<1>2. LedgerInv /\ [Next]_vars => LedgerInv'
  BY NextLedger
<1> QED BY <1>1, <1>2, PTL DEF Spec

(* Grants, starts under way and jobs started of a plan never outnumber the  *)
(* owner's approvals of it: authorize and start spend each of them once.    *)
THEOREM ApprovalsSpentOnce == Spec => []ApprovalSpentOnce
<1>1. LedgerInv => ApprovalSpentOnce
  BY DEF LedgerInv
<1> QED BY <1>1, LedgerKept, PTL

(* A job that waits for a deadline has its worker, so that run, which reads *)
(* the deadline of a job it starts, never has one to wait for.              *)
THEOREM WaitingHasWorker == Spec => []WaitingJobHasWorker
<1>1. LedgerInv => WaitingJobHasWorker
  <2> SUFFICES ASSUME LedgerInv, NEW j \in Job, up, ~failed, state.jobs[j].retry,
                      ~control[j].mapped
               PROVE  FALSE
    BY DEF WaitingJobHasWorker
  <2>1. IInv /\ control[j].spawn \in Nat /\ control[j].spawn # 0 /\ Present(state.jobs[j])
    BY DEF LedgerInv, DeadlinesOk, IInv, TypeOK, ControlRecord
  <2>2. Over(j)
    BY <2>1 DEF IInv, EndsOk, EndOk
  <2>3. Valid(state.jobs[j])
    BY <2>1 DEF IInv, RecordsOk
  <2> QED BY <2>1, <2>2, <2>3 DEF Over, Valid
<1> QED BY <1>1, LedgerKept, PTL

(* The record of a job is honest about what the provider removed, whatever  *)
(* fails.  Removed in calls it confirmed, left open or died in: counted as  *)
(* deleted or uncertain, but for one batch at most, and for none before the *)
(* first fault of the store or death of the process.  Removed in calls that *)
(* told of a refusal: counted as failed, once the record is past the batch. *)
THEOREM RecordHonest == Spec => []RecordIsHonest
<1>1. LedgerInv => RecordIsHonest
  <2> SUFFICES ASSUME LedgerInv, NEW j \in Job, Present(store.jobs[j])
               PROVE  LET job == store.jobs[j] IN
        /\ InFlight(j) => job.next = worker[j].next /\ job.status \in {"Running", "Cancelled"}
        /\ job.deleted + job.skipped + job.failed + job.uncertain
             = Before(job.plan, job.next)
        /\ \E n \in {0} \cup Sizes(job.plan) : applied[j] <= job.deleted + job.uncertain + n
        /\ ~Interrupted /\ ~failed =>
             applied[j] <= job.deleted + job.uncertain + Unrecorded(j)
        /\ DeniedBefore(denied[j], job.next) <= job.failed
        /\ job.status = "Completed" =>
             /\ job.next = Count(job.plan)
             /\ denied[j].before + denied[j].here = 0
             /\ worker[j].pc \in {"off", "start", "claim", "finish", "notify", "unmap", "fail"}
    BY DEF RecordIsHonest
  <2>0. /\ IInv /\ AgreeOk /\ CursorOk(j) /\ BalanceOk(j)
        /\ AddsUp(store.jobs[j]) /\ CompletedOk /\ state.jobs[j] \in JobRecord
        /\ Accounts(store.jobs[j], denied[j])
    BY Numbers DEF LedgerInv, CursorsOk, BalancesOk, SumsOk, IInv, DenialsOk, DenialOk
  <2> DEFINE job == store.jobs[j]
  <2>1. ASSUME InFlight(j)
        PROVE  job.next = worker[j].next /\ job.status \in {"Running", "Cancelled"}
    <3>1. /\ job \in {state.jobs[j], Cancelled(state.jobs[j])}
          /\ state.jobs[j].next = worker[j].next
          /\ state.jobs[j].status \in {"Running", "Cancelled"}
      BY <2>0, <2>1 DEF InFlight, CursorOk, Loop, InBatch
    <3> QED BY <2>0, <3>1 DEF Cancelled, JobRecord
  <2>2. job.deleted + job.skipped + job.failed + job.uncertain = Before(job.plan, job.next)
    BY <2>0 DEF AddsUp
  <2>3. \E n \in {0} \cup Sizes(job.plan) : applied[j] <= job.deleted + job.uncertain + n
    BY <2>0 DEF BalanceOk, Known
  <2>4. ASSUME ~Interrupted, ~failed
        PROVE  applied[j] <= job.deleted + job.uncertain + Unrecorded(j)
    BY <2>0, <2>4 DEF AgreeOk, BalanceOk, Balanced, Known
  <2>5. ASSUME job.status = "Completed"
        PROVE  /\ job.next = Count(job.plan)
               /\ worker[j].pc \in {"off", "start", "claim", "finish", "notify", "unmap", "fail"}
    BY <2>0, <2>5 DEF CompletedOk, Outside, Leaving
  <2>6. DeniedBefore(denied[j], job.next) <= job.failed
    BY <2>0 DEF Accounts
  <2>7. ASSUME job.status = "Completed"
        PROVE  denied[j].before + denied[j].here = 0
    <3>1. job.next = Count(job.plan) /\ job.failed = 0 /\ job.next \in Nat
      BY <2>0, <2>7, Numbers DEF CompletedOk, IInv, RecordsOk, Valid
    <3>2. /\ denied[j].batch \in Nat /\ denied[j].here \in Nat /\ denied[j].before \in Nat
      BY <2>0, DenialFacts DEF IInv
    <3>3. denied[j].batch <= job.next /\ (denied[j].here > 0 => denied[j].batch < Count(job.plan))
      BY <2>0 DEF Accounts
    <3> HIDE DEF job
    <3> QED BY <2>6, <3>1, <3>2, <3>3 DEF DeniedBefore
  <2> QED BY <2>1, <2>2, <2>3, <2>4, <2>5, <2>6, <2>7
<1> QED BY <1>1, LedgerKept, PTL

=============================================================================
