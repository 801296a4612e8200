--------------------------- MODULE TelegramCleanup ---------------------------
(***************************************************************************)
(* The Telegram cleanup owner of providers/telegram/remediation: one        *)
(* reviewed plan, the job that executes it, and the commands that authorize,*)
(* start, recover, cancel and stop it.  The worker deletes frozen batches,  *)
(* or asks for one operation on the whole chat, or cleans up and then       *)
(* leaves, each native call under the mutation gate of the job.             *)
(*                                                                          *)
(* The chat is external: it belongs to Telegram and other devices change it.*)
(* A native call may be refused, rate limited, or lose its answer.          *)
(*                                                                          *)
(* An operator named X_Y, with X the definition that follows it, is X with  *)
(* a mistake: the mutants that show each property is able to fail.          *)
(***************************************************************************)
EXTENDS Integers, Sequences, FiniteSets

CONSTANTS
  Operation,   \* the operations the plan may have been prepared for
  Client,      \* concurrent command handlers
  Sizes,       \* the sizes of the batches the plan froze
  MaxPrompts,  \* bound: owner prompts approved
  MaxSpawns,   \* bound: workers spawned, those recover adds included
  MaxCalls,    \* bound: recover, cancel and stop calls
  MaxRates,    \* bound: rate-limited answers
  MaxSetbacks, \* bound: publications while the wall clock is behind the record
  MaxTroubles  \* bound: store faults, deaths, lost sessions and changes of
               \* the chat made on another device, together

ASSUME SizesAssumption == Sizes \in Seq(Nat \ {0})
ASSUME BoundsAssumption ==
  {MaxPrompts, MaxSpawns, MaxCalls, MaxRates, MaxSetbacks, MaxTroubles} \subseteq Nat

VARIABLES
  op,        \* PlanOperation of the frozen plan
  store,     \* the job as the foundation store has it
  state,     \* the job in TelegramCleanup.jobs, and the repository's `last`
  failed,    \* persistence_failed, and with it EngineContext.quarantined
  live,      \* the session binding still names this engine's context
  grants,    \* system_grants holds a grant for the plan
  control,   \* the TelegramJobControl of the job in the cancellation map
  worker,    \* the task in run_job
  call,      \* the commands in progress
  up,        \* the process is running
  chat,      \* what ChatSummary would tell of the chat now
  budget,    \* what is left of the bounds
  acked,     \* observer: the native calls Telegram acknowledged to the job
  lost,      \* observer: a call was sent and its outcome never learnt
  removed,   \* observer: targets really deleted for everyone
  saved,     \* observer: a publication succeeded after the leave
  gone,      \* observer: a lookup of the job did not find the chat
  cancelled  \* observer: a cancel of the job returned its record

taskVars   == <<control, worker, call>>
observers  == <<acked, lost, removed, saved, gone, cancelled>>
vars == <<op, store, state, failed, live, grants, control, worker, call, up,
          chat, budget, acked, lost, removed, saved, gone, cancelled>>

-----------------------------------------------------------------------------
(* Plans, chats and records.                                                *)

Batched == {"SelectedMessages", "DeleteMyMessages",
            "DeleteAllMessagesAndLeave", "LeaveChat"}
Leaving == {"ClearHistoryAndLeave", "DeleteAllMessagesAndLeave", "LeaveChat"}
Capability == {"listed", "clear", "others", "self", "group", "sender", "leave"}

(* The native call of a chat-wide phase, and the capabilities               *)
(* resolve_plan_chat demands for it.                                        *)
ChatCall ==
  CASE op \in {"ClearHistory", "ClearHistoryAndLeave"} -> "clear"
    [] op = "RemoveChatForSelf" -> "self"
    [] op = "DeleteGroup" -> "group"
    [] OTHER -> "sender"
Demanded ==
  {ChatCall} \cup IF op = "ClearHistoryAndLeave" THEN {"leave"} ELSE {}

(* next_batch once the cleanup that precedes leaving is recorded.           *)
LastCursor == IF op = "ClearHistoryAndLeave" THEN 1
              ELSE IF op \in Batched THEN Len(Sizes) ELSE 0

(* The targets of the batches before a cursor, each by its batch and its    *)
(* place there; a chat-wide plan has no batches.                            *)
Passed(cursor) ==
  UNION {{b} \X (1..Sizes[b]) :
           b \in {n \in DOMAIN Sizes : op \in Batched /\ n <= cursor}}
Total == Cardinality(Passed(Len(Sizes)))

TerminalStatus == {"Completed", "Partial", "Failed", "Cancelled"}
JobRecord ==
  [status : {"Absent", "Queued", "Running"} \cup TerminalStatus, next : Nat,
   deleted : Nat, skipped : Nat, failed : Nat, uncertain : Nat, retry : BOOLEAN]
NoJob == [status |-> "Absent", next |-> 0, deleted |-> 0, skipped |-> 0,
          failed |-> 0, uncertain |-> 0, retry |-> FALSE]
Terminal(job) == job.status \in TerminalStatus
Unfinished(job) == job.status \in {"Queued", "Running"}

Idle == [at |-> "idle", spawn |-> 0]
NoWorker == [pc |-> "off", native |-> "delete", allowed |-> 0, skipped |-> 0,
             result |-> "ok", seen |-> {}]
NoControl == [mapped |-> FALSE, spawn |-> 0, cancelled |-> FALSE,
              finished |-> FALSE]
WorkerPc == {"off", "start", "claim", "batch", "reached", "chat",
             "leave", "looked", "left", "relooked", "gate", "flight",
             "settle", "post", "wait", "resume", "final", "fail", "finish",
             "unmap"}
CallPc == {"idle", "prompt", "startCommit", "cancelCommit", "cancelSignal",
           "cancelGate", "cancelWait", "recoverPersist", "recoverSpawn",
           "stopFlag", "stopGate", "stopWait", "stopClear"}

-----------------------------------------------------------------------------
(* Publication: TelegramCleanup::transition over                            *)
(* FoundationTelegramRepository::save.                                      *)

(* check_context: not quarantined, and the session is the one verified.     *)
Check == ~failed /\ live

(* TelegramPayloadValidator::validate_job: the cursor is within the plan,   *)
(* and every target of the batches before it is counted exactly once.       *)
Results(job) == job.deleted + job.failed + job.uncertain
Accounted(job) ==
  /\ job.next <= LastCursor
  /\ Results(job) + job.skipped = Cardinality(Passed(job.next))

(* ScopedJobRecord::validate                                                *)
Consistent(job) ==
  /\ Terminal(job) => ~job.retry
  /\ Results(job) <= Total
  /\ job.status = "Completed" => job.failed = 0 /\ job.uncertain = 0
  /\ job.uncertain > 0 => Terminal(job)

(* What save and ScopedRepository::commit accept of a changed job, but for  *)
(* its updated_at: see Publish.                                             *)
Publishable(new) ==
  /\ store = state
  /\ state.status # "Absent" =>
       /\ new.status # "Absent"
       /\ new.next >= state.next
       /\ new.deleted >= state.deleted
       /\ new.skipped >= state.skipped
       /\ new.failed >= state.failed
       /\ new.uncertain >= state.uncertain
       /\ Terminal(state) => Terminal(new)
  /\ Accounted(new) /\ Consistent(new)

(* The publication goes through; or the engine is quarantined already; or   *)
(* the repository refuses the record; or it refuses its updated_at, because *)
(* the wall clock was set back since the record was last stamped; or the    *)
(* store fails, perhaps after it replaced its file, and then has published  *)
(* `new` while the engine keeps its old state.                              *)
Publish(new, ok) ==
  \/ /\ ok /\ ~failed /\ Publishable(new)
     /\ state' = new /\ store' = new
     /\ saved' = (saved \/ "leave" \in acked)
     /\ UNCHANGED <<failed, budget>>
  \/ /\ ~ok /\ failed
     /\ UNCHANGED <<state, store, failed, budget, saved>>
  \/ /\ ~ok /\ ~failed /\ ~Publishable(new)
     /\ failed' = TRUE
     /\ UNCHANGED <<state, store, budget, saved>>
  \/ /\ ~ok /\ ~failed /\ state.status # "Absent" /\ budget.setbacks > 0
     /\ failed' = TRUE
     /\ budget' = [budget EXCEPT !.setbacks = @ - 1]
     /\ UNCHANGED <<state, store, saved>>
  \/ /\ ~ok /\ ~failed /\ Publishable(new) /\ budget.troubles > 0
     /\ failed' = TRUE
     /\ store' \in {store, new}
     /\ budget' = [budget EXCEPT !.troubles = @ - 1]
     /\ UNCHANGED <<state, saved>>

(* A transition by the worker; what follows it is `then` or `else`.  Its    *)
(* locals are used again only by the steps named here.                      *)
WorkerPublish(new, then, else) ==
  \E ok \in BOOLEAN :
    /\ Publish(new, ok)
    /\ worker' = IF ok /\ then \in {"post", "wait"} THEN [worker EXCEPT !.pc = then]
                 ELSE [NoWorker EXCEPT !.pc = IF ok THEN then ELSE else]

Stopped(job) ==
  [job EXCEPT !.status = IF job.deleted > 0 THEN "Partial" ELSE "Failed",
              !.retry = FALSE]
FinishCancelled(job) ==
  IF Terminal(job) THEN job
  ELSE [job EXCEPT !.status = "Cancelled", !.retry = FALSE]

-----------------------------------------------------------------------------
(* The worker: run_job, run_job_inner and the phases of a plan.             *)

At(pc) == up /\ worker.pc = pc
Goto(pc) == worker' = [worker EXCEPT !.pc = pc]
Flagged == control.cancelled
UnPublished == UNCHANGED <<store, state, failed, saved>>
WorkerFrame == UNCHANGED <<op, live, grants, call, up, cancelled>>

(* run_job_inner up to the first publication.                               *)
RunStart ==
  /\ At("start")
  /\ Goto(IF ~Check THEN "fail" ELSE IF state.retry THEN "wait" ELSE "claim")
  /\ UnPublished /\ WorkerFrame
  /\ UNCHANGED <<control, chat, budget, acked, lost, removed, gone>>

(* The phase a job begins with.                                             *)
FirstPhase ==
  CASE op = "ClearHistoryAndLeave" /\ state.next # 0 -> "leave"
    [] op \in Batched -> "batch"
    [] OTHER -> "chat"

(* A terminal job is never claimed again.                                   *)
MayClaim == ~Terminal(state)

RunClaim ==
  /\ At("claim")
  /\ IF MayClaim
     THEN WorkerPublish([state EXCEPT !.status = "Running"], FirstPhase, "fail")
     ELSE Goto("fail") /\ UnPublished /\ UNCHANGED budget
  /\ WorkerFrame
  /\ UNCHANGED <<control, chat, acked, lost, removed, gone>>

(* stop_if_cancelled and the loop heads that read the flag themselves.      *)
StopPoints == {"batch", "reached", "chat", "leave", "looked",
               "left", "relooked", "post", "wait"}
PastLastBatch_Early == state.next + 1 >= Len(Sizes)
PastLastBatch == state.next >= Len(Sizes)

SeeCancelled ==
  /\ up /\ worker.pc \in StopPoints /\ Flagged
  /\ worker.pc = "batch" => ~PastLastBatch
  /\ WorkerPublish(FinishCancelled(state), "finish", "fail")
  /\ WorkerFrame
  /\ UNCHANGED <<control, chat, acked, lost, removed, gone>>

(* run_frozen_batches: past the last batch a leaving plan goes on to leave  *)
(* the chat, else the targets of the batch are preflighted one after the    *)
(* other until one of them fails.                                           *)
Preflight ==
  /\ At("batch")
  /\ IF PastLastBatch
     THEN /\ Goto(IF op \in Leaving THEN "leave" ELSE "final")
          /\ UNCHANGED budget
     ELSE /\ ~Flagged
          /\ \E allowed, skipped \in 0..Sizes[state.next + 1],
                result \in {"ok", "soft", "fatal", "rate"} :
               /\ allowed + skipped <= Sizes[state.next + 1]
               /\ result = "ok" <=> allowed + skipped = Sizes[state.next + 1]
               /\ result = "ok" => Check
               /\ result = "fatal" => ~Check
               /\ result = "rate" => budget.rates > 0
               /\ budget' = [budget EXCEPT !.rates = @ - IF result = "rate" THEN 1 ELSE 0]
               /\ worker' = [worker EXCEPT !.pc = "reached", !.native = "delete",
                                           !.allowed = allowed, !.skipped = skipped,
                                           !.result = result]
  /\ UnPublished /\ WorkerFrame
  /\ UNCHANGED <<control, chat, acked, lost, removed, gone>>

Reached ==
  /\ At("reached") /\ ~Flagged
  /\ Goto(IF worker.result = "ok" /\ worker.allowed > 0 THEN "gate" ELSE "settle")
  /\ UnPublished /\ WorkerFrame
  /\ UNCHANGED <<control, chat, budget, acked, lost, removed, gone>>

(* resolve_plan_chat: the authority check before a chat-wide call.  An      *)
(* error of it, a rate limit too, ends the job.  The stop point after it    *)
(* does what the gate does next.                                            *)
Resolve ==
  /\ At("chat") /\ ~Flagged
  /\ \E answered \in BOOLEAN :
       worker' = IF answered /\ Check /\ Demanded \cup {"listed"} \subseteq chat
                 THEN [worker EXCEPT !.pc = "gate", !.native = ChatCall]
                 ELSE [worker EXCEPT !.pc = "fail"]
  /\ UnPublished /\ WorkerFrame
  /\ UNCHANGED <<control, chat, budget, acked, lost, removed, gone>>

(* leave_and_remove_chat: the state check before the leave and the one      *)
(* after it.  A rate-limited lookup makes the whole step wait and start     *)
(* over; any other error ends the job.                                      *)
Lookup ==
  /\ up /\ ~Flagged /\ worker.pc \in {"leave", "left"}
  /\ \/ /\ Check
        /\ worker' = [worker EXCEPT !.pc = IF @ = "leave" THEN "looked" ELSE "relooked",
                                    !.seen = chat]
        /\ gone' = (gone \/ "listed" \notin chat)
        /\ UNCHANGED budget
     \/ Goto("fail") /\ UNCHANGED <<budget, gone>>
     \/ /\ Check /\ budget.rates > 0
        /\ budget' = [budget EXCEPT !.rates = @ - 1]
        /\ worker' = [worker EXCEPT !.pc = "settle", !.native = "leave",
                                    !.result = "rate"]
        /\ UNCHANGED gone
  /\ UnPublished /\ WorkerFrame
  /\ UNCHANGED <<control, chat, acked, lost, removed>>

(* What leave_and_remove_chat does with a chat it has looked up: nothing    *)
(* when it is gone, leave while a member, else remove it for this account.  *)
LeaveOrRemove ==
  /\ up /\ ~Flagged /\ worker.pc \in {"looked", "relooked"}
  /\ LET seen == worker.seen
         leaves == worker.pc = "looked" /\ "leave" \in seen
     IN worker' =
          CASE "listed" \notin seen -> [NoWorker EXCEPT !.pc = "final"]
            [] "listed" \in seen /\ leaves ->
                 [NoWorker EXCEPT !.pc = "gate", !.native = "leave"]
            [] "listed" \in seen /\ ~leaves /\ "self" \in seen ->
                 [NoWorker EXCEPT !.pc = "gate", !.native = "self"]
            [] OTHER -> [NoWorker EXCEPT !.pc = "fail"]
  /\ UnPublished /\ WorkerFrame
  /\ UNCHANGED <<control, chat, budget, acked, lost, removed, gone>>

(* guarded_mutation: the cancellation is read under the gate, and the gate  *)
(* kept until the call is answered.  SessionMutation then checks the        *)
(* context and sends.                                                       *)
GateOpen_Unread == TRUE
GateOpen == ~Flagged

EnterGate ==
  /\ At("gate")
  /\ CASE ~GateOpen ->
            WorkerPublish(FinishCancelled(state),
                          IF worker.native = "delete" THEN "post" ELSE "finish",
                          "fail")
       [] GateOpen /\ Check ->
            Goto("flight") /\ UnPublished /\ UNCHANGED budget
       [] GateOpen /\ ~Check ->
            /\ worker' = [worker EXCEPT !.pc = "settle",
                                        !.result = IF failed THEN "soft" ELSE "fatal"]
            /\ UnPublished /\ UNCHANGED budget
  /\ WorkerFrame
  /\ UNCHANGED <<control, chat, acked, lost, removed, gone>>

(* What a call that Telegram performed does to the chat.  External: leaving *)
(* may take the chat out of the list or leave a copy to be removed.         *)
Performed(native) ==
  CASE native \in {"group", "self"} -> {{}}
    [] native = "leave" -> {{}, {"listed"}, {"listed", "self"}}
    [] OTHER -> {chat}

(* The answer: performed and acknowledged, refused, rate limited, or lost   *)
(* after it was or was not performed.  mutation_result makes any answer     *)
(* ambiguous when the context is no longer valid.                           *)
Classified(answer) == IF ~Check \/ answer = "lost" THEN "ambiguous" ELSE answer

Answered ==
  /\ At("flight")
  /\ \E answer \in {"ok", "soft", "rate", "lost"}, performed \in BOOLEAN :
       /\ answer = "ok" => performed
       /\ answer \in {"soft", "rate"} => ~performed
       /\ answer = "rate" => budget.rates > 0
       /\ budget' = [budget EXCEPT !.rates = @ - IF answer = "rate" THEN 1 ELSE 0]
       /\ IF performed THEN chat' \in Performed(worker.native) ELSE UNCHANGED chat
       /\ worker' = [worker EXCEPT !.pc = "settle", !.result = Classified(answer)]
       /\ acked' = IF answer = "ok" /\ Check THEN acked \cup {worker.native} ELSE acked
       /\ lost' = (lost \/ answer = "lost" \/ (performed /\ ~Check))
       /\ removed' = IF performed /\ worker.native = "delete"
                     THEN removed + worker.allowed ELSE removed
  /\ UnPublished /\ WorkerFrame
  /\ UNCHANGED <<control, gone>>

(* Where a phase starts over after a rate limit.                            *)
PhaseHead ==
  CASE worker.native = "delete" -> "batch"
    [] op \in Leaving /\ worker.native \in {"leave", "self"} -> "leave"
    [] OTHER -> "chat"

(* wait_for_retry: the job is queued until the deadline, whatever it is now.*)
WaitForRetry ==
  /\ At("settle") /\ worker.result = "rate"
  /\ WorkerPublish([state EXCEPT !.status = "Queued", !.retry = TRUE], "wait", "fail")
  /\ WorkerFrame
  /\ UNCHANGED <<control, chat, acked, lost, removed, gone>>

WaitOver ==
  /\ At("wait")
  /\ \/ ~Check /\ Goto("fail")
     \/ ~Flagged /\ Check /\ Goto("resume")
  /\ UnPublished /\ WorkerFrame
  /\ UNCHANGED <<control, chat, budget, acked, lost, removed, gone>>

Resume ==
  /\ At("resume")
  /\ WorkerPublish([state EXCEPT !.status = "Running", !.retry = FALSE],
                   PhaseHead, "fail")
  /\ WorkerFrame
  /\ UNCHANGED <<control, chat, acked, lost, removed, gone>>

(* TelegramFrozenDriver::progress, and the end of the loop when fatal.      *)
Cursor_Same == state.next
Cursor == state.next + 1

Progressed ==
  LET w == worker
      affected == Sizes[state.next + 1] - w.skipped
      counted == [state EXCEPT
        !.next = Cursor,
        !.skipped = @ + w.skipped,
        !.deleted = @ + IF w.result = "ok" THEN w.allowed ELSE 0,
        !.failed = @ + IF w.result \in {"soft", "fatal"} THEN affected ELSE 0,
        !.uncertain = @ + IF w.result = "ambiguous" THEN affected ELSE 0,
        !.retry = FALSE]
  IN IF w.result \in {"fatal", "ambiguous"} THEN Stopped(counted) ELSE counted

Progress ==
  /\ At("settle") /\ worker.native = "delete" /\ worker.result # "rate"
  /\ WorkerPublish(Progressed, "post", "fail")
  /\ WorkerFrame
  /\ UNCHANGED <<control, chat, acked, lost, removed, gone>>

AfterBatch ==
  /\ At("post") /\ ~Flagged
  /\ Goto(IF worker.result \in {"fatal", "ambiguous"} THEN "finish" ELSE "batch")
  /\ UnPublished /\ WorkerFrame
  /\ UNCHANGED <<control, chat, budget, acked, lost, removed, gone>>

(* What follows an acknowledged chat call: a clear that precedes a leave is *)
(* recorded as phase 1, a leave is recorded before the chat is removed, and *)
(* any other call was the last.                                             *)
Recorded(native) == native = "leave"
PhaseRecorded_Later(native) == FALSE
PhaseRecorded(native) == op = "ClearHistoryAndLeave" /\ native = "clear"

Acknowledged ==
  /\ At("settle") /\ worker.native # "delete" /\ worker.result # "rate"
  /\ LET native == worker.native IN
       CASE worker.result # "ok" ->
              Goto("fail") /\ UnPublished /\ UNCHANGED budget
         [] worker.result = "ok" /\ PhaseRecorded(native) ->
              WorkerPublish([state EXCEPT !.next = 1], "leave", "fail")
         [] worker.result = "ok" /\ Recorded(native) ->
              WorkerPublish(state, "left", "fail")
         [] OTHER ->
              /\ Goto(IF native = "leave" THEN "left"
                      ELSE IF native = "clear" /\ op \in Leaving THEN "leave" ELSE "final")
              /\ UnPublished /\ UNCHANGED budget
  /\ WorkerFrame
  /\ UNCHANGED <<control, chat, acked, lost, removed, gone>>

(* run_job_inner, after the last phase.                                     *)
Outcome == IF state.failed > 0 THEN "Partial" ELSE "Completed"

Finalize ==
  /\ At("final")
  /\ WorkerPublish(IF state.status = "Cancelled" THEN [state EXCEPT !.retry = FALSE]
                   ELSE [state EXCEPT !.status = Outcome, !.retry = FALSE],
                   "finish", "fail")
  /\ WorkerFrame
  /\ UNCHANGED <<control, chat, acked, lost, removed, gone>>

(* run_job: an error closes the job once, unless publication is quarantined.*)
Closed_Left(job) == job
Closed(job) == IF Unfinished(job) THEN Stopped(job) ELSE job

RunFailed ==
  /\ At("fail")
  /\ WorkerPublish(Closed(state), "finish", "finish")
  /\ WorkerFrame
  /\ UNCHANGED <<control, chat, acked, lost, removed, gone>>

Finish ==
  /\ At("finish")
  /\ control' = [control EXCEPT !.finished = TRUE]
  /\ Goto("unmap")
  /\ UnPublished /\ WorkerFrame
  /\ UNCHANGED <<chat, budget, acked, lost, removed, gone>>

Unmap ==
  /\ At("unmap")
  /\ control' = [control EXCEPT !.mapped = FALSE]
  /\ worker' = NoWorker
  /\ UnPublished /\ WorkerFrame
  /\ UNCHANGED <<chat, budget, acked, lost, removed, gone>>

Work ==
  \/ RunStart \/ RunClaim \/ SeeCancelled \/ Preflight \/ Reached \/ Resolve
  \/ Lookup \/ LeaveOrRemove \/ EnterGate \/ Answered
  \/ WaitForRetry \/ WaitOver \/ Resume \/ Progress \/ AfterBatch
  \/ Acknowledged \/ Finalize \/ RunFailed \/ Finish \/ Unmap

-----------------------------------------------------------------------------
(* The commands.                                                            *)

In(c, at) == up /\ call[c].at = at
Now(c, at) == call' = [call EXCEPT ![c].at = at]
Return(c) == call' = [call EXCEPT ![c] = Idle]
UseCall == budget' = [budget EXCEPT !.calls = @ - 1]
Quiet == UNCHANGED <<op, worker, up, chat, acked, lost, removed, gone>>

(* The control a command holds is the one of the worker that runs now.      *)
Holds(c) == call[c].spawn = control.spawn

Spawn ==
  /\ control' = [mapped |-> TRUE, spawn |-> control.spawn + 1,
                 cancelled |-> FALSE, finished |-> FALSE]
  /\ worker' = [NoWorker EXCEPT !.pc = "start"]

(* authorize_plan: a prompt approved while the context was still checked.   *)
AuthorizeCall(c) ==
  /\ In(c, "idle") /\ Check /\ budget.prompts > 0
  /\ Now(c, "prompt")
  /\ budget' = [budget EXCEPT !.prompts = @ - 1]
  /\ UnPublished /\ Quiet /\ UNCHANGED <<live, grants, control, cancelled>>

PromptApproved(c) ==
  /\ In(c, "prompt")
  /\ grants' = (grants \/ Check)
  /\ Return(c)
  /\ UnPublished /\ Quiet /\ UNCHANGED <<live, control, budget, cancelled>>

(* start_execution consumes the grant first, and checks only under the      *)
(* publication whether the plan was started before.                         *)
StartConsume(c) ==
  /\ In(c, "idle") /\ Check /\ grants
  /\ grants' = FALSE
  /\ Now(c, "startCommit")
  /\ UnPublished /\ Quiet /\ UNCHANGED <<live, control, budget, cancelled>>

HasJob == state.status # "Absent"

StartCommit(c) ==
  /\ In(c, "startCommit")
  /\ control.spawn < MaxSpawns
  /\ IF Check /\ ~HasJob
     THEN \E ok \in BOOLEAN :
            /\ Publish([NoJob EXCEPT !.status = "Queued"], ok)
            /\ IF ok THEN Spawn ELSE UNCHANGED <<control, worker>>
     ELSE UnPublished /\ UNCHANGED <<budget, control, worker>>
  /\ Return(c)
  /\ UNCHANGED <<op, live, grants, up, chat, acked, lost, removed, gone, cancelled>>

(* resume_incomplete: publish the records as they are, which stamps none,   *)
(* read the unfinished jobs, then schedule each that has no worker by the   *)
(* time the map is locked.                                                  *)
RecoverCall(c) ==
  /\ In(c, "idle") /\ budget.calls > 0 /\ Check
  /\ Now(c, "recoverPersist")
  /\ UseCall
  /\ UnPublished /\ Quiet /\ UNCHANGED <<live, grants, control, cancelled>>

RecoverPersist(c) ==
  /\ In(c, "recoverPersist")
  /\ \E ok \in BOOLEAN :
       /\ Publish(state, ok) /\ budget'.setbacks = budget.setbacks
       /\ IF ok /\ Unfinished(state) THEN Now(c, "recoverSpawn") ELSE Return(c)
  /\ Quiet /\ UNCHANGED <<live, grants, control, cancelled>>

RecoverSpawn(c) ==
  /\ In(c, "recoverSpawn")
  /\ IF control.mapped THEN UNCHANGED <<control, worker>>
     ELSE control.spawn < MaxSpawns /\ Spawn
  /\ Return(c)
  /\ UnPublished
  /\ UNCHANGED <<op, live, grants, up, chat, budget, acked, lost, removed, gone,
                 cancelled>>

(* cancel_job: the control, the durable status, the flag, the gate, the end.*)
CancelCall(c) ==
  /\ In(c, "idle") /\ budget.calls > 0 /\ Check /\ control.mapped
  /\ call' = [call EXCEPT ![c] = [at |-> "cancelCommit", spawn |-> control.spawn]]
  /\ UseCall
  /\ UnPublished /\ Quiet /\ UNCHANGED <<live, grants, control, cancelled>>

CancelCommit(c) ==
  /\ In(c, "cancelCommit")
  /\ IF Terminal(state)
     THEN Return(c) /\ UnPublished /\ UNCHANGED budget
     ELSE \E ok \in BOOLEAN :
            /\ Publish(FinishCancelled(state), ok)
            /\ IF ok THEN Now(c, "cancelSignal") ELSE Return(c)
  /\ Quiet /\ UNCHANGED <<live, grants, control, cancelled>>

Signal(c, next) ==
  /\ control' = [control EXCEPT !.cancelled = @ \/ Holds(c)]
  /\ Now(c, next)
  /\ UnPublished /\ Quiet /\ UNCHANGED <<live, grants, budget, cancelled>>

CancelSignal(c) == In(c, "cancelSignal") /\ Signal(c, "cancelGate")

(* The worker holds the gate from the send to the answer.                   *)
GateFree(c) == Holds(c) => worker.pc # "flight"
PassGate(c, next) ==
  /\ GateFree(c)
  /\ Now(c, next)
  /\ UnPublished /\ Quiet /\ UNCHANGED <<live, grants, control, budget, cancelled>>

CancelGate(c) == In(c, "cancelGate") /\ PassGate(c, "cancelWait")

Ended(c) == ~Holds(c) \/ control.finished
CancelWait(c) ==
  /\ In(c, "cancelWait") /\ Ended(c)
  /\ Return(c)
  /\ cancelled' = TRUE
  /\ UnPublished /\ Quiet /\ UNCHANGED <<live, grants, control, budget>>

(* stop_workers on the controls it found; it needs no valid context.        *)
StopCall(c) ==
  /\ In(c, "idle") /\ budget.calls > 0
  /\ call' = [call EXCEPT ![c] =
       [at |-> IF control.mapped THEN "stopFlag" ELSE "stopClear",
        spawn |-> control.spawn]]
  /\ UseCall
  /\ UnPublished /\ Quiet /\ UNCHANGED <<live, grants, control, cancelled>>

StopFlag(c) == In(c, "stopFlag") /\ Signal(c, "stopGate")
StopGate(c) == In(c, "stopGate") /\ PassGate(c, "stopWait")
StopWait(c) ==
  /\ In(c, "stopWait") /\ Ended(c)
  /\ Now(c, "stopClear")
  /\ UnPublished /\ Quiet /\ UNCHANGED <<live, grants, control, budget, cancelled>>

StopClear(c) ==
  /\ In(c, "stopClear")
  /\ grants' = FALSE
  /\ Return(c)
  /\ UnPublished /\ Quiet /\ UNCHANGED <<live, control, budget, cancelled>>

(* What a command in progress does by itself; a prompt waits for its owner. *)
Handle(c) ==
  \/ StartCommit(c) \/ RecoverPersist(c) \/ RecoverSpawn(c)
  \/ CancelCommit(c) \/ CancelSignal(c) \/ CancelGate(c) \/ CancelWait(c)
  \/ StopFlag(c) \/ StopGate(c) \/ StopWait(c) \/ StopClear(c)
Invoke(c) ==
  \/ AuthorizeCall(c) \/ PromptApproved(c) \/ StartConsume(c)
  \/ RecoverCall(c) \/ CancelCall(c) \/ StopCall(c)

-----------------------------------------------------------------------------
(* The surroundings.                                                        *)

Trouble ==
  /\ budget.troubles > 0
  /\ budget' = [budget EXCEPT !.troubles = @ - 1]
  /\ UNCHANGED <<op, store, state, failed, grants, control, worker, call, observers>>

(* Another session replaces the verified one: the binding is invalidated.   *)
SessionLost ==
  /\ up /\ live
  /\ live' = FALSE
  /\ Trouble /\ UNCHANGED <<up, chat>>

(* The chat changes on another device, or by its administrators.            *)
Elsewhere ==
  /\ chat' \in {{}, chat \ {"leave"}, chat \ {ChatCall}, chat \ {"self"},
                (chat \ {"leave"}) \cup {"self"}}
  /\ chat' # chat
  /\ Trouble /\ UNCHANGED <<up, live>>

Die ==
  /\ up /\ up' = FALSE
  /\ Trouble /\ UNCHANGED <<live, chat>>

(* FoundationTelegramRepository::load: nothing unfinished is resumed, and   *)
(* new_scoped saves that decision before the engine exists.                 *)
Recovered_Resumable(job) == job
Recovered(job) == IF Unfinished(job) THEN Stopped(job) ELSE job

Open ==
  /\ ~up
  /\ up' = TRUE /\ failed' = FALSE /\ live' = TRUE /\ grants' = FALSE
  /\ state' = Recovered(store) /\ store' = Recovered(store)
  /\ control' = [NoControl EXCEPT !.spawn = control.spawn]
  /\ worker' = NoWorker
  /\ call' = [c \in Client |-> Idle]
  /\ lost' = (lost \/ worker.pc \in {"flight", "settle"})
  /\ UNCHANGED <<op, chat, budget, acked, removed, saved, gone, cancelled>>

Init ==
  /\ op \in Operation
  /\ store = NoJob /\ state = NoJob
  /\ failed = FALSE /\ live = TRUE /\ grants = FALSE
  /\ control = NoControl /\ worker = NoWorker
  /\ call = [c \in Client |-> Idle]
  /\ up = TRUE
  /\ chat \in {Capability, (Demanded \cup {"listed", "leave"}) \ {"self"}}
  /\ budget = [prompts |-> MaxPrompts, calls |-> MaxCalls, rates |-> MaxRates,
               setbacks |-> MaxSetbacks, troubles |-> MaxTroubles]
  /\ acked = {} /\ lost = FALSE /\ removed = 0 /\ saved = FALSE /\ gone = FALSE
  /\ cancelled = FALSE

Next ==
  \/ Work
  \/ \E c \in Client : Handle(c) \/ Invoke(c)
  \/ SessionLost \/ Elsewhere \/ Die \/ Open

Spec == Init /\ [][Next]_vars

(* Tokio runs a ready task, a wait for a deadline ends, and TDLib answers   *)
(* or its request times out.  Nobody has to call, approve or crash.         *)
FairSpec == Spec /\ WF_vars(Work) /\ \A c \in Client : WF_vars(Handle(c))

-----------------------------------------------------------------------------
(* Properties.                                                              *)

(* The engine writes no record its own store refuses, save for these: the   *)
(* validator counts every target of the batches before the cursor once,     *)
(* whatever came of it, and a record it refused quarantines the engine.  A  *)
(* publication fails only when the store does, when the wall clock is       *)
(* behind the time the record was last stamped, or when a worker that has   *)
(* not yet seen the flag puts the wait of a rate limit, or its end, over    *)
(* the cancellation just recorded.                                          *)
UndoesCancel == state.status = "Cancelled" /\ worker.pc \in {"settle", "resume"}
OwnRecordsAreAccepted ==
  [][failed' /\ ~failed => \/ budget'.troubles < budget.troubles
                           \/ budget'.setbacks < budget.setbacks
                           \/ UndoesCancel]_vars

Sending == worker.pc = "flight"

(* Leaving comes after the cleanup of the plan, and removing the chat after *)
(* the leave, each only once the step before it is durable: a leave is sent *)
(* when every batch or the cleared history is in the stored record, and a   *)
(* chat that was left is removed when a publication succeeded since.        *)
PhasesInOrder ==
  Sending =>
    /\ worker.native = "leave" => store.next = LastCursor
    /\ worker.native = "self" /\ "leave" \in acked => saved

(* A job stored as Completed has done all of its plan, with every outcome   *)
(* known: each frozen target deleted or found out of reach, the chat-wide   *)
(* call acknowledged, and the chat removed or seen to be gone.              *)
CompletedMeansDone ==
  store.status = "Completed" =>
    /\ ~lost
    /\ store.next = LastCursor
    /\ op \in Batched => store.deleted + store.skipped = Total
    /\ op \notin Batched => ChatCall \in acked
    /\ op \in Leaving => gone \/ "self" \in acked
    /\ store.deleted <= removed

(* A native call is made only by the worker its owner started, never after  *)
(* a call whose outcome is unknown, and not once a cancel or a stop of that *)
(* worker has passed the gate.  A recovered job makes none.                 *)
SendsAreAllowed ==
  Sending /\ up =>
    /\ control.spawn = 1
    /\ ~lost
    /\ ~cancelled
    /\ \A c \in Client : call[c].at \in {"cancelWait", "stopWait"} => ~Holds(c)

(* Everything under way comes to rest: a started job ends unless its engine *)
(* is quarantined, and a recover, cancel or stop returns, the waits of both *)
(* for the gate and for the end of the worker included.                     *)
Busy ==
  \/ Unfinished(state) /\ ~failed
  \/ \E c \in Client : call[c].at \notin {"idle", "prompt"}
ComesToRest == (up /\ Busy) ~> (~Busy \/ ~up)

(* The test plan on leaving a chat: every eligible message is deleted       *)
(* before leave and removal.  A batch that Telegram refuses is counted as   *)
(* failed and the worker goes on to leave the chat.                         *)
LeavesNothingEligible ==
  Sending /\ worker.native = "leave" => store.failed = 0
=============================================================================
