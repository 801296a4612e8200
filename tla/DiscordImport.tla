---------------------------- MODULE DiscordImport ----------------------------
(***************************************************************************)
(* The import of a Discord export into the archive: the owner that runs    *)
(* one job at a time (providers/discord/import.rs), the job from the       *)
(* selected file to the finished source, the archive worker it talks to    *)
(* over a bounded queue (archive/worker.rs), the lazy owner of that worker *)
(* (archive/lifecycle.rs) and the shutdown of all of them (lib.rs).  The   *)
(* file may be changed by somebody else at any time, other clients use and *)
(* remove sources, a transaction may fail and the process may die.         *)
(*                                                                         *)
(* The content of a file is an archive identifier: its SHA-256 names it,   *)
(* and it is parsed into the batches Batches gives it.  A change of the    *)
(* content also changes the metadata the job compares.  Progress figures   *)
(* and panics (taken as storage failures) are left out.                    *)
(***************************************************************************)
EXTENDS ArchiveDb

CONSTANTS
    Batches,       \* Batches[a] is the sequence of batches archive a parses into
    Capacity,      \* MAX_QUEUED_BATCHES
    MaxJobs,       \* imports started in a behaviour
    Selected,      \* what the selected file holds at first
    MaxUpsets,     \* commands of other clients, failed transactions and deaths, together
    MaxTroubles    \* those and changes of the file, together

ASSUME DiscordImportAssumption ==
    /\ Batches \in [Archive -> Seq([contents : SUBSET Row, talks : SUBSET Talk,
                                    warnings : Nat, version : {2}])]
    /\ Capacity \in Nat \ {0} /\ MaxJobs \in Nat /\ MaxUpsets \in Nat
    /\ Selected \in Archive /\ MaxTroubles \in Nat
    /\ None \notin Nat
    \* A batch is a finite thing.
    /\ \A a \in Archive : \A i \in 1..Len(Batches[a]) :
          IsFiniteSet(Batches[a][i].contents) /\ IsFiniteSet(Batches[a][i].talks)
    \* A new identifier is a UUID: there is always one that nothing has had.
    /\ IsFiniteSet(Source) => Cardinality(Source) >= MaxJobs

VARIABLES
    d,             \* the content of the archive database
    content,       \* what the selected file holds
    stamp,         \* its metadata: how often it has been changed
    closed,        \* DiscordImportOwner::closed
    launcher,      \* the launch that holds the job lock: [step, kind, expected]
    job,           \* the job; its pc is "none" when there is none
    active,        \* the owner's active control is the job's
    worker,        \* the archive worker: "none", "opening", "up", "failed" or "gone"
    stopped,       \* ArchiveService::stopped, and the archive owner is closed
    queue,         \* commands accepted by the worker and not executed
    exit,          \* the step of RuntimeState::shutdown
    jobs, others, faults, deaths     \* how often each has happened

fileVars == <<content, stamp>>
counts == <<jobs, others, faults, deaths>>
vars == <<d, content, stamp, closed, launcher, job, active, worker, stopped, queue, exit,
          jobs, others, faults, deaths>>

NoReply == [error |-> "none", reply |-> None]
\* A new control with its task.  session is the import session once the job
\* holds it, source and checkpoint what it last knew of its run.
NewJob(kind, expected) ==
    [pc |-> "spawned", kind |-> kind, expected |-> expected, outcome |-> None,
     cancelled |-> FALSE, signalling |-> FALSE, bound |-> FALSE, signalled |-> FALSE,
     stamp |-> 0, print |-> None, next |-> 1, error |-> None, reply |-> NoReply, then |-> None,
     session |-> None, source |-> None, checkpoint |-> None]
NoJob == [NewJob("start", None) EXCEPT !.pc = "none"]
NoLaunch == [step |-> "none", kind |-> "start", expected |-> None]

Init ==
    /\ d = EmptyDb /\ content = Selected /\ stamp = 0
    /\ closed = FALSE /\ launcher = NoLaunch /\ job = NoJob /\ active = FALSE
    /\ worker = "none" /\ stopped = FALSE /\ queue = <<>> /\ exit = "none"
    /\ jobs = 0 /\ others = 0 /\ faults = 0 /\ deaths = 0

Trouble == stamp + others + faults + deaths < MaxTroubles
Upset == Trouble /\ others + faults + deaths < MaxUpsets
Running == job.pc \notin {"none", "done"}
Retryable == {"interrupted", "cancelled", "failed"}
-----------------------------------------------------------------------------
\* The owner: launch, cancel

\* start, start_or_retry and retry_active; the last presents the checkpoint the
\* active control holds.
LaunchLock(kind) ==
    /\ ~closed /\ launcher = NoLaunch /\ exit \in {"none", "rejected"} /\ ~Running /\ jobs < MaxJobs
    /\ kind = "retry" => /\ active /\ job.checkpoint # None
                         /\ job.checkpoint.phase \in Retryable
    /\ launcher' = [step |-> "locked", kind |-> kind,
                    expected |-> IF kind = "retry"
                                 THEN [source |-> job.source, print |-> job.print,
                                       run |-> job.checkpoint]
                                 ELSE None]
    /\ jobs' = jobs + 1
    /\ UNCHANGED <<d, fileVars, closed, job, active, worker, stopped, queue, exit,
                   others, faults, deaths>>

\* The previous task has been joined.
LaunchInstall ==
    /\ launcher.step = "locked"
    /\ IF closed THEN launcher' = NoLaunch /\ UNCHANGED <<job, active>>
       ELSE /\ launcher' = [launcher EXCEPT !.step = "installed"]
            /\ job' = NewJob(launcher.kind, launcher.expected) /\ active' = FALSE
    /\ UNCHANGED <<d, fileVars, closed, worker, stopped, queue, exit, counts>>

\* A shutdown that closed the owner before this did not see this control.
LaunchActivate ==
    /\ launcher.step = "installed"
    /\ active' = TRUE /\ launcher' = NoLaunch
    /\ job' = [job EXCEPT !.cancelled = closed, !.pc = "identify"]
    /\ UNCHANGED <<d, fileVars, closed, worker, stopped, queue, exit, counts>>

\* Control::cancel: the flag, then the signal of the session bound by then.
CancelFlag ==
    /\ active /\ Running /\ ~job.cancelled
    /\ job' = [job EXCEPT !.cancelled = TRUE, !.signalling = TRUE]
    /\ UNCHANGED <<d, fileVars, closed, launcher, active, worker, stopped, queue, exit, counts>>
CancelSignal ==
    /\ Running /\ job.signalling
    /\ job' = [job EXCEPT !.signalling = FALSE, !.signalled = @ \/ job.bound]
    /\ UNCHANGED <<d, fileVars, closed, launcher, active, worker, stopped, queue, exit, counts>>
-----------------------------------------------------------------------------
\* The job

Step(pc) == Running /\ job.pc = pc
Elsewhere == UNCHANGED <<d, fileVars, closed, launcher, active, worker, stopped, queue, exit, counts>>
Become(new) == job' = new /\ Elsewhere
\* What only the task held goes with it.
Done(j, outcome) ==
    [pc |-> "done", kind |-> j.kind, expected |-> None, outcome |-> outcome,
     cancelled |-> j.cancelled, signalling |-> FALSE, bound |-> FALSE, signalled |-> FALSE,
     stamp |-> 0, print |-> j.print, next |-> 1, error |-> None, reply |-> NoReply, then |-> None,
     session |-> j.session, source |-> j.source, checkpoint |-> j.checkpoint]

\* Mutant: the session is recorded only once the first check has passed.
Failed_Unregistered(j, error) ==
    IF j.session = None \/ j.pc = "bound" THEN Done(j, error)
    ELSE [j EXCEPT !.pc = "end", !.error = error, !.reply = NoReply]
\* An error before a session is the outcome; with a session the run is ended
\* first.
Failed(j, error) ==
    IF j.session = None THEN Done(j, error)
    ELSE [j EXCEPT !.pc = "end", !.error = error, !.reply = NoReply]

Unchanged(j) == j.stamp = stamp

Identify ==
    /\ Step("identify")
    /\ Become(IF job.cancelled THEN Failed(job, "Cancelled")
              ELSE [job EXCEPT !.stamp = stamp, !.pc = "hash"])

\* Two readings of the metadata enclose the hash; what a hash of a file changed
\* under it would be does not matter then.
Hash ==
    /\ Step("hash")
    /\ Become(IF job.cancelled THEN Failed(job, "Cancelled")
              ELSE IF ~Unchanged(job) THEN Failed(job, "InputChanged")
              ELSE [job EXCEPT !.print = content, !.pc = "hashed"])
Hashed ==
    /\ Step("hashed")
    /\ Become(IF ~Unchanged(job) THEN Failed(job, "InputChanged")
              ELSE IF job.expected # None /\ job.expected.print # job.print
              THEN Failed(job, "RetryMismatch")
              ELSE IF job.cancelled THEN Failed(job, "Cancelled")
              ELSE [job EXCEPT !.pc = "open"])

\* ArchiveOwner::open: the first caller starts the worker, and waits.
OpenArchive ==
    /\ Step("open") /\ worker = "none" /\ ~stopped
    /\ worker' = "opening"
    /\ UNCHANGED <<d, fileVars, closed, launcher, job, active, stopped, queue, exit, counts>>
Opened ==
    /\ Step("open") /\ worker # "opening" /\ (worker = "none" => stopped)
    /\ Become(IF stopped THEN Failed(job, "StorageFailure")
              ELSE IF worker = "failed" THEN Failed(job, "UnavailableKey")
              ELSE IF job.cancelled THEN Failed(job, "Cancelled")
              ELSE IF job.expected # None
              THEN [job EXCEPT !.pc = "ask", !.then = "retry", !.source = job.expected.source,
                               !.checkpoint = job.expected.run]
              ELSE [job EXCEPT !.pc = "ask", !.then = "resolve"])

\* The reply of an awaited command, or "dropped" with the worker.
Replied(command) == Step("wait") /\ job.then = command /\ job.reply # NoReply

AfterResolve ==
    /\ Replied("resolve")
    /\ LET answer == job.reply.reply
           known == [job EXCEPT !.source = answer.source, !.checkpoint = answer.checkpoint,
                                !.reply = NoReply]
       IN Become(IF job.reply.error # "ok" THEN Failed(job, "StorageFailure")
                 ELSE IF answer.disposition = "start"
                 THEN [known EXCEPT !.pc = "bind", !.session = answer.checkpoint.session]
                 ELSE IF answer.disposition = "retry" /\ job.kind = "adopt"
                 THEN [known EXCEPT !.pc = "ask", !.then = "retry"]
                 ELSE Done(known, answer.disposition))
\* A control holds a checkpoint once its job has a session or an outcome.
AfterRetry ==
    /\ Replied("retry")
    /\ LET unknown == [job EXCEPT !.checkpoint = None]
       IN Become(IF job.reply.error \in {"ScopeMismatch", "StaleCursor", "InvalidRecord",
                                         "ConflictingObservation", "LimitExceeded"}
                 THEN Failed(unknown, "RetryMismatch")
                 ELSE IF job.reply.error # "ok" THEN Failed(unknown, "StorageFailure")
                 ELSE [job EXCEPT !.pc = "bind", !.session = job.reply.reply.session,
                                    !.reply = NoReply])

\* Control::bind: a cancellation flagged before is passed on.
Bind ==
    /\ Step("bind")
    /\ Become([job EXCEPT !.pc = "bound", !.bound = TRUE, !.signalled = job.cancelled])
Bound ==
    /\ Step("bound")
    /\ Become(IF job.cancelled THEN Failed(job, "Cancelled") ELSE [job EXCEPT !.pc = "feed"])

\* The reader parses whatever the file holds by now; a file changed under it
\* may also not parse.
Feed ==
    /\ Step("feed")
    /\ \/ Become(IF job.cancelled THEN Failed(job, "Cancelled")
                 ELSE [job EXCEPT !.pc = IF job.next > Len(Batches[content]) THEN "verify"
                                         ELSE "append",
                                  !.reply = IF job.next > Len(Batches[content]) THEN NoReply
                                            ELSE Batches[content][job.next]])
       \/ job.stamp # stamp /\ Become(Failed(job, "InvalidArchive"))

\* append_batch_v2 reserves a slot or is Busy; Sink::flush sleeps and looks at
\* its flag again.
AppendGiveUp ==
    /\ Step("append")
    /\ job.cancelled \/ job.signalled \/ stopped
    /\ Become(Failed(job, "Cancelled"))
AppendQueue ==
    /\ Step("append") /\ ~job.cancelled /\ ~job.signalled /\ ~stopped
    /\ Len(queue) < Capacity
    /\ queue' = Append(queue, [command |-> "append", batch |-> job.reply, removes |-> None])
    /\ job' = [job EXCEPT !.pc = "wait", !.then = "append", !.reply = NoReply]
    /\ UNCHANGED <<d, fileVars, closed, launcher, active, worker, stopped, exit, counts>>

Converted(error) == CASE error = "Cancelled" -> "Cancelled"
                      [] error = "LimitExceeded" -> "LimitExceeded"
                      [] error \in {"InvalidRecord", "ConflictingObservation"} -> "InvalidArchive"
                      [] OTHER -> "StorageFailure"
AfterAppend ==
    /\ Replied("append")
    /\ Become(IF job.reply.error # "ok" THEN Failed(job, Converted(job.reply.error))
              ELSE [job EXCEPT !.pc = "ask", !.then = "fed", !.reply = NoReply])
AfterFed ==
    /\ Replied("fed")
    /\ Become(IF job.reply.error # "ok" \/ job.reply.reply = None
              THEN Failed(job, Converted(job.reply.error))
              ELSE LET known == [job EXCEPT !.checkpoint = job.reply.reply, !.next = @ + 1,
                                            !.pc = "feed", !.reply = NoReply]
                   IN IF job.cancelled THEN Failed(known, "Cancelled") ELSE known)

\* Mutant: the file is not looked at again before the source is finished.
Verify_Trusted ==
    /\ Step("verify") /\ Become([job EXCEPT !.pc = "ask", !.then = "finish"])
\* The file is read once more, between two looks at its metadata.
Verify ==
    /\ Step("verify")
    /\ Become(IF job.cancelled THEN Failed(job, "Cancelled")
              ELSE IF ~Unchanged(job) THEN Failed(job, "InputChanged")
              ELSE [job EXCEPT !.pc = "verified", !.reply = content])
Verified ==
    /\ Step("verified")
    /\ Become(IF ~Unchanged(job) \/ job.reply # job.print THEN Failed(job, "InputChanged")
              ELSE IF job.cancelled THEN Failed(job, "Cancelled")
              ELSE [job EXCEPT !.pc = "ask", !.then = "finish", !.reply = NoReply])
AfterFinish ==
    /\ Replied("finish")
    /\ Become(IF job.reply.error # "ok" THEN Failed(job, Converted(job.reply.error))
              ELSE [job EXCEPT !.pc = "ask", !.then = "final", !.reply = NoReply])
AfterFinal ==
    /\ Replied("final")
    /\ Become(IF job.reply.error # "ok" \/ job.reply.reply = None
              THEN Failed(job, Converted(job.reply.error))
              ELSE Done([job EXCEPT !.checkpoint = job.reply.reply], "ready"))

\* coordinate, after an error with a session: end the run, then read what has
\* become of it.
End ==
    /\ Step("end")
    /\ Become([job EXCEPT !.pc = "ask", !.signalled = @ \/ job.error = "Cancelled",
                          !.then = IF job.error = "Cancelled" THEN "cancel" ELSE "fail"])
AfterEnd ==
    /\ Replied("cancel") \/ Replied("fail")
    /\ Become([job EXCEPT !.pc = "ask", !.then = "ended", !.reply = NoReply,
                          !.error = IF job.reply.error \in {"ok", "StaleCursor", "Cancelled"}
                                    THEN @ ELSE "StorageFailure"])
AfterEnded ==
    /\ Replied("ended")
    /\ LET read == job.reply
       IN Become(IF read.error # "ok" \/ read.reply = None THEN Done(job, "StorageFailure")
                 ELSE Done([job EXCEPT !.checkpoint = read.reply],
                           IF read.reply.phase = "ready" THEN "ready" ELSE job.error))

\* ArchiveService::request waits for a slot.  It would answer at once of a service that
\* was stopped, which happens only after the job was joined (StopArchive).
AskQueue ==
    /\ Step("ask") /\ ~stopped /\ Len(queue) < Capacity
    /\ queue' = Append(queue, [command |-> job.then, batch |-> None, removes |-> None])
    /\ job' = [job EXCEPT !.pc = "wait"]
    /\ UNCHANGED <<d, fileVars, closed, launcher, active, worker, stopped, exit, counts>>
-----------------------------------------------------------------------------
\* The archive worker

\* Opening validates the store and interrupts what was importing; a failure is
\* sticky for the process.
WorkerOpens ==
    /\ worker = "opening"
    /\ \/ worker' = "up" /\ d' = InterruptRuns(d)
       \/ worker' = "failed" /\ d' = d
    /\ UNCHANGED <<fileVars, closed, launcher, job, active, stopped, queue, exit, counts>>

Session == [id |-> job.session, source |-> job.source, print |-> job.print]
Flagged(result) == IF job.signalled THEN Refuse(d, "Cancelled") ELSE result
Fresh == CHOOSE s \in Source : ~Present(d, s) /\ d.task[s] = "none"
\* What the job is told of a result.
Answer(result) == [error |-> result.error, reply |-> result.reply]
\* A retry's reply is the session it made.
Retried(result) ==
    IF result.error = "ok"
    THEN [result EXCEPT !.reply = [session |-> result.db.run[job.source].session]]
    ELSE result
Result(command) ==
    CASE command.command = "resolve" -> ResolveOrRegister(d, job.print, Fresh, jobs)
      [] command.command = "retry" ->
           Retried(RetryImport(d, job.source, job.checkpoint, jobs))
      [] command.command = "append" -> Flagged(AppendBatch(d, Session, job.next - 1, command.batch))
      [] command.command = "finish" -> Flagged(FinishImport(d, Session))
      [] command.command = "cancel" -> CancelImport(d, Session)
      [] command.command = "fail" -> FailImport(d, Session, job.error)
      [] OTHER -> ImportStatus(d, job.source, job.print)

WorkerExecutes ==
    /\ worker = "up" /\ ~stopped /\ queue # <<>>
    /\ queue' = Tail(queue)
    /\ \/ /\ Head(queue).command # "other"
          /\ LET result == Result(Head(queue))
             IN d' = result.db /\ job' = [job EXCEPT !.reply = Answer(result)]
          /\ UNCHANGED faults
       \/ /\ Head(queue).command # "other" /\ Upset /\ faults' = faults + 1
          /\ d' = d /\ job' = [job EXCEPT !.reply = Answer(Refuse(d, "StorageFailure"))]
       \/ /\ Head(queue).command = "other"
          /\ d' = IF Head(queue).removes = None THEN d
                  ELSE RetryCleanup(RemoveSource(d, Head(queue).removes), Head(queue).removes)
          /\ UNCHANGED <<job, faults>>
    /\ UNCHANGED <<fileVars, closed, launcher, active, worker, stopped, exit, jobs, others, deaths>>

\* Mutant: the worker looks at the flag only when a command wakes it.
WorkerExits_OnCommand ==
    /\ worker = "up" /\ stopped /\ queue # <<>>
    /\ worker' = "gone" /\ queue' = <<>>
    /\ UNCHANGED <<d, fileVars, closed, launcher, job, active, stopped, exit, counts>>
\* Commands not started are dropped, and whoever waits for one is told.
WorkerExits ==
    /\ worker = "up" /\ stopped
    /\ worker' = "gone" /\ queue' = <<>>
    /\ job' = IF \E i \in 1..Len(queue) : queue[i].command # "other"
              THEN [job EXCEPT !.reply = Answer(Refuse(d, IF job.then = "append"
                                                          THEN "StorageFailure" ELSE "Cancelled"))]
              ELSE job
    /\ UNCHANGED <<d, fileVars, closed, launcher, active, stopped, exit, counts>>

\* Another client of the same service queries, or removes a source.  Like a
\* change of the file, this is only of interest while a job runs.
OtherClient ==
    /\ Running /\ worker = "up" /\ ~stopped /\ Len(queue) < Capacity /\ Upset
    /\ \E removes \in {None} \cup {s \in Source : Present(d, s)} :
          queue' = Append(queue, [command |-> "other", batch |-> None, removes |-> removes])
    /\ others' = others + 1
    /\ UNCHANGED <<d, fileVars, closed, launcher, job, active, worker, stopped, exit,
                   jobs, faults, deaths>>

ChangeFile ==
    /\ Running /\ Trouble /\ stamp' = stamp + 1 /\ content' \in Archive
    /\ UNCHANGED <<d, closed, launcher, job, active, worker, stopped, queue, exit, counts>>
-----------------------------------------------------------------------------
\* Shutdown, and death

\* reject_new_starts
Reject ==
    /\ exit = "none" /\ exit' = "rejected" /\ closed' = TRUE
    /\ job' = IF active /\ Running
              THEN [job EXCEPT !.cancelled = TRUE, !.signalled = @ \/ job.bound] ELSE job
    /\ UNCHANGED <<d, fileVars, launcher, active, worker, stopped, queue, counts>>
\* DiscordImportOwner::shutdown takes the job lock, cancels and joins.
Drain ==
    /\ exit = "rejected" /\ launcher = NoLaunch /\ exit' = "draining"
    /\ job' = IF Running THEN [job EXCEPT !.cancelled = TRUE, !.signalled = @ \/ job.bound] ELSE job
    /\ UNCHANGED <<d, fileVars, closed, launcher, active, worker, stopped, queue, counts>>
Drained ==
    /\ exit = "draining" /\ ~Running /\ exit' = "drained"
    /\ job' = NoJob /\ active' = FALSE
    /\ UNCHANGED <<d, fileVars, closed, launcher, worker, stopped, queue, counts>>
\* ArchiveOwner::shutdown waits for an opening under way, then for the worker.
StopArchive ==
    /\ exit = "drained" /\ worker # "opening"
    /\ exit' = "stopping" /\ stopped' = TRUE
    /\ UNCHANGED <<d, fileVars, closed, launcher, job, active, worker, queue, counts>>
Down ==
    /\ exit = "stopping" /\ worker # "up" /\ exit' = "down"
    /\ UNCHANGED <<d, fileVars, closed, launcher, job, active, worker, stopped, queue, counts>>

Die ==
    /\ Upset /\ deaths' = deaths + 1
    /\ closed' = FALSE /\ launcher' = NoLaunch /\ job' = NoJob /\ active' = FALSE
    /\ worker' = "none" /\ stopped' = FALSE /\ queue' = <<>> /\ exit' = "none"
    /\ UNCHANGED <<d, fileVars, jobs, others, faults>>
-----------------------------------------------------------------------------
Launch == LaunchInstall \/ LaunchActivate
JobStep == Identify \/ Hash \/ Hashed \/ OpenArchive \/ Opened \/ Bind \/ Bound \/ Feed
           \/ AppendGiveUp \/ AppendQueue \/ Verify \/ Verified \/ End \/ AskQueue
JobReply == AfterResolve \/ AfterRetry \/ AfterAppend \/ AfterFed \/ AfterFinish \/ AfterFinal
            \/ AfterEnd \/ AfterEnded
WorkerStep == WorkerOpens \/ WorkerExecutes \/ WorkerExits
ExitStep == Drain \/ Drained \/ StopArchive \/ Down

System == Launch \/ JobStep \/ JobReply \/ WorkerStep \/ ExitStep

Next == (\E kind \in {"start", "adopt", "retry"} : LaunchLock(kind))
        \/ System \/ CancelFlag \/ CancelSignal \/ OtherClient \/ ChangeFile \/ Reject \/ Die

\* The runtime polls its tasks and runs its blocking threads: something of the
\* program goes on as long as anything can.  Nobody has to start, cancel,
\* change, shut down or die.
Spec == Init /\ [][Next]_vars /\ WF_vars(System)
-----------------------------------------------------------------------------
\* A source is ready only when the archive of its fingerprint was stored in full
\* and in order, whatever was read from a file that changed, in however many
\* attempts; and its rows are those of the batches stored, no more.  Batches
\* beyond the archive's may be among them: FinishImport does not compare how many
\* this attempt has appended with how many there are.
Receipts(s) == d.run[s].receipts
Begins(a, s) == \A i \in 1..Len(Batches[a]) :
                   i <= Len(Receipts(s)) /\ Receipts(s)[i].batch = Batches[a][i]
Stored(s) == UNION {Receipts(s)[i].batch.contents : i \in 1..Len(Receipts(s))}
ReadyHoldsTheSelectedArchive ==
    \A s \in Source : Ready(d, s) => Begins(d.source[s].print, s) /\ d.rows[s] = Stored(s)

\* What an import reports is what the store keeps: its run has ended the way it
\* says, no run is left importing, and a cancellation is only reported when
\* somebody cancelled.  Only a storage failure, reported then, leaves that open.
OutcomeIsDurable ==
    job.pc = "done" /\ job.outcome # "StorageFailure" =>
        /\ worker = "up" /\ faults = 0 => \A s \in Source : d.run[s].phase # "importing"
        /\ job.outcome = "Cancelled" => job.cancelled
        /\ job.session # None /\ Present(d, job.source) =>
              d.run[job.source].phase = CASE job.outcome = "ready" -> "ready"
                                          [] job.outcome = "Cancelled" -> "cancelled"
                                          [] OTHER -> "failed"

\* Every import completes, whatever fails or is cancelled, and a shutdown ends
\* although it waits for the job, the worker and both locks.
ImportsComplete ==
    (Running \/ exit = "rejected") ~> (~Running /\ exit \in {"none", "down"})
=============================================================================
