------------------------- MODULE DiscordImportProofs -------------------------
(***************************************************************************)
(* Proofs about DiscordImport: that a source is ready only with the        *)
(* archive its fingerprint names, and that what an import reports is what  *)
(* the database keeps.                                                     *)
(*                                                                         *)
(* The inductive invariant follows the job: Stages, Replay, Owns, Phased,  *)
(* Cancelled and Importing say what is so of a job at each of its steps,   *)
(* of any record j, so that a step is a lemma about the record before and  *)
(* the record after it.  Owner, Queued, Staged and Room say it of the      *)
(* locks, the worker's queue, the database and its identifiers.  One lemma *)
(* <Action>Keeps follows each action, and one <Command>Keeps each command  *)
(* the worker executes.                                                    *)
(***************************************************************************)
EXTENDS DiscordImport, FiniteSetTheorems, TLAPS

-----------------------------------------------------------------------------
\* Types

Reasons == {"Cancelled", "InputChanged", "RetryMismatch", "StorageFailure", "UnavailableKey",
            "InvalidArchive", "LimitExceeded"}
Outcomes == Reasons \cup {"ready", "busy", "retry"}
Errors == {"ok", "InvalidRecord", "ScopeMismatch", "StaleCursor", "Cancelled",
           "ConflictingObservation", "LimitExceeded", "IncompleteSource", "InvalidStore",
           "StorageFailure"}
Pcs == {"none", "spawned", "identify", "hash", "hashed", "open", "ask", "wait", "bind", "bound",
        "feed", "append", "verify", "verified", "end", "done"}
Commands == {"resolve", "retry", "append", "fed", "finish", "final", "cancel", "fail", "ended"}
Kinds == {"start", "adopt", "retry"}

Batch == {b \in [contents : SUBSET Row, talks : SUBSET Talk, warnings : Nat, version : {2}] :
            IsFiniteSet(b.contents)}
(* The sets of the fields of runs and jobs, under names of their own.       *)
Sessions == Nat \cup {None}
RunCodes == Reasons \cup {"incomplete_source", None}
Counts == Nat
Ledgers == Seq([batch : Batch, items : Nat])
Run == [phase : Phases, session : Sessions, code : RunCodes, rev : Counts, items : Counts,
        receipts : Ledgers, warned : Counts, missing : Counts]
Registration == [state : {"absent", "preparing", "ready", "failed", "unavailable"},
                 print : Archive \cup {None}, mapped : BOOLEAN]
Db == [account : BOOLEAN, source : [Source -> Registration], run : [Source -> Run],
       rows : [Source -> SUBSET Row], talks : [Source -> SUBSET Talk],
       identity : SUBSET ({"content", "conversation"} \X Nat),
       task : [Source -> {"none", "pending", "completed"}]]

Resolution == [source : Source, disposition : {"start", "ready", "busy", "retry"},
               checkpoint : Run]
Told == Resolution \cup Run \cup [session : Nat] \cup [items : Nat, next : Nat] \cup {None}
Answers == [error : Errors, reply : Told]
Expected == [source : Source, print : Archive, run : Run]
Wanted == Expected \cup {None}
Flags == BOOLEAN
Stamps == Nat
Positions == Nat \ {0}
Prints == Archive \cup {None}
Ends == Outcomes \cup {None}
Causes == Reasons \cup {None}
Replies == Answers \cup Batch \cup Archive \cup {NoReply}
Nexts == Commands \cup {None}
Sources == Source \cup {None}
Checkpoints == Run \cup {None}
Jobs == [pc : Pcs, kind : Kinds, expected : Wanted, outcome : Ends, cancelled : Flags,
         signalling : Flags, bound : Flags, signalled : Flags, stamp : Stamps, print : Prints,
         next : Positions, error : Causes, reply : Replies, then : Nexts, session : Sessions,
         source : Sources, checkpoint : Checkpoints]
Entry == [command : Commands \cup {"other"}, batch : Batch \cup {None},
          removes : Source \cup {None}]

TypeOK ==
    /\ d \in Db /\ content \in Archive /\ stamp \in Nat /\ closed \in BOOLEAN
    /\ launcher \in [step : {"none", "locked", "installed"}, kind : Kinds,
                     expected : Expected \cup {None}]
    /\ job \in Jobs /\ active \in BOOLEAN
    /\ worker \in {"none", "opening", "up", "failed", "gone"} /\ stopped \in BOOLEAN
    /\ queue \in Seq(Entry)
    /\ exit \in {"none", "rejected", "draining", "drained", "stopping", "down"}
    /\ jobs \in Nat /\ others \in Nat /\ faults \in Nat /\ deaths \in Nat
-----------------------------------------------------------------------------
(* The inductive invariant.  Most of it says what is so of a job at each of *)
(* its steps, and is stated of any job j, so that a step of the job can be  *)
(* followed from the job before it to the job after it.                     *)

Live(j) == j.pc \notin {"none", "done"}
Early == {"none", "spawned", "identify", "hash", "hashed", "open"}
Reading == {"bind", "bound", "feed", "append", "verify", "verified"}
Asks(j, commands) == j.pc \in {"ask", "wait"} /\ j.then \in commands
Has(j) == j.pc = "wait" /\ j.reply # NoReply
HasOk(j, command) == Has(j) /\ j.then = command /\ j.reply.error = "ok"

There(j) == j.source # None /\ Present(d, j.source)
RunOf(j) == d.run[j.source]

(* What a job holds at each of its steps.                                   *)
Stages(j) ==
  /\ j.pc \in Early \/ Asks(j, {"resolve", "retry"}) => j.session = None
  /\ j.pc \in Reading \cup {"end"} \/ Asks(j, Commands \ {"resolve", "retry"})
        => j.session # None
  /\ j.pc \in {"ask", "wait"} => j.then \in Commands
  /\ j.pc \notin {"wait", "append", "verified"} => j.reply = NoReply
  /\ j.pc = "wait" => j.reply \in Answers \cup {NoReply}
  /\ j.pc = "append" => j.reply \in Batch
  /\ j.pc = "ask" => j.then # "append"
  /\ j.pc = "end" \/ Asks(j, {"cancel", "fail", "ended"}) => j.error \in Reasons
  /\ Asks(j, {"cancel"}) => j.error = "Cancelled"
  /\ Asks(j, {"fail"}) => j.error # "Cancelled"
  /\ j.pc \in Early => j.source = None /\ j.checkpoint = None
  /\ j.pc \in Early \ {"hashed", "open"} => j.print = None
  /\ j.session = None => j.next = 1
  /\ Asks(j, {"resolve"}) => j.expected = None /\ j.source = None
  /\ Asks(j, {"retry"}) \/ j.session # None \/ j.checkpoint # None => j.source \in Source
  /\ j.pc \notin Early \cup {"done"} \/ j.pc \in {"hashed", "open"} \/ j.source # None
        => j.print \in Archive

(* As long as its file has the stamp the job took, the file is the archive  *)
(* the job is of, and what it has fed are the first batches of that archive *)
(* and of its source.                                                       *)
Fed(j) == IF HasOk(j, "append") \/ Asks(j, {"fed"}) THEN j.next ELSE j.next - 1
Replay(j) ==
  /\ j.stamp <= stamp
  /\ j.stamp = stamp /\ Live(j) /\ j.print # None => content = j.print
  /\ j.stamp = stamp /\ There(j) /\ j.session # None /\ Live(j) =>
       /\ Fed(j) <= Len(Batches[j.print]) /\ Fed(j) <= Len(Receipts(j.source))
       /\ \A i \in 1..Fed(j) : Receipts(j.source)[i].batch = Batches[j.print][i]
  /\ j.stamp = stamp /\ j.pc = "append" =>
       j.next <= Len(Batches[j.print]) /\ j.reply = Batches[j.print][j.next]
  /\ j.stamp = stamp /\ j.pc \in {"verify", "verified"} => j.next > Len(Batches[j.print])
  /\ Asks(j, {"finish"}) /\ There(j) => Begins(j.print, j.source)

(* The source of a job is of its archive, and the run of its source its own.*)
Promised(e) == e # None /\ Present(d, e.source) => d.source[e.source].print = e.print
Owns(j) ==
  /\ Promised(j.expected)
  /\ j.pc = "open" /\ j.expected # None => j.expected.print = j.print
  /\ There(j) => d.source[j.source].print = j.print
  /\ There(j) /\ j.session # None => RunOf(j).session = j.session
  /\ HasOk(j, "resolve") =>
       LET answer == j.reply.reply
       IN /\ answer \in Resolution
          /\ Present(d, answer.source) => d.source[answer.source].print = j.print
          /\ answer.disposition = "start" =>
               /\ answer.checkpoint.session # None
               /\ Present(d, answer.source) =>
                    /\ d.run[answer.source].session = answer.checkpoint.session
                    /\ d.run[answer.source].phase = "importing"
  /\ HasOk(j, "retry") =>
       /\ j.reply.reply \in [session : Nat]
       /\ There(j) => RunOf(j).session = j.reply.reply.session /\ RunOf(j).phase = "importing"
  /\ HasOk(j, "fed") \/ HasOk(j, "final") \/ HasOk(j, "ended") =>
       j.reply.reply \in Run \cup {None}

(* The phase of the run at each step of its job.                            *)
EndPhase(reason) == IF reason = "Cancelled" THEN "cancelled" ELSE "failed"
Feeding(j) == \/ j.pc \in Reading
              \/ Asks(j, {"append", "fed"})
              \/ Asks(j, {"finish"}) /\ (Has(j) => j.reply.error \notin {"ok", "IncompleteSource"})
Closing(j) == j.pc = "end" \/ (Asks(j, {"cancel", "fail"}) /\ ~Has(j))
Ended(j) ==
  \/ /\ Asks(j, {"cancel", "fail"}) /\ Has(j)
     /\ j.reply.error \in {"ok", "StaleCursor", "Cancelled"}
  \/ Asks(j, {"ended"})
Phased(j) ==
  There(j) /\ j.session # None =>
    /\ Feeding(j) => RunOf(j).phase = "importing"
    /\ HasOk(j, "finish") \/ Asks(j, {"final"}) => RunOf(j).phase = "ready"
    /\ Closing(j) /\ j.error # "StorageFailure" => RunOf(j).phase = "importing"
    /\ Ended(j) => j.error = "StorageFailure" \/ RunOf(j).phase = EndPhase(j.error)
    /\ (HasOk(j, "ended") \/ HasOk(j, "final")) /\ j.reply.reply # None => RunOf(j) = j.reply.reply
    /\ j.pc = "done" /\ j.outcome # "StorageFailure" =>
         RunOf(j).phase = IF j.outcome = "ready" THEN "ready" ELSE EndPhase(j.outcome)

(* Who says that a job was cancelled.                                       *)
Cancelled(j) ==
  /\ j.signalling \/ j.signalled => j.cancelled
  /\ (j.pc = "end" \/ Asks(j, {"cancel", "fail", "ended"})) /\ j.error = "Cancelled" => j.cancelled
  /\ j.pc = "done" /\ j.outcome = "Cancelled" => j.cancelled
  /\ Has(j) /\ j.then \in {"append", "finish"} /\ j.reply.error = "Cancelled" => j.cancelled
  /\ Has(j) /\ j.then \in {"fed", "final"} =>
       j.reply.error \in {"ok", "ScopeMismatch", "StaleCursor", "StorageFailure"}

(* Without a failed transaction, nothing imports but the job of the session.*)
Doing(j, s) ==
  \/ j.session # None /\ s = j.source /\ (Feeding(j) \/ Closing(j))
  \/ HasOk(j, "resolve") /\ j.reply.reply.disposition = "start" /\ s = j.reply.reply.source
  \/ HasOk(j, "retry") /\ s = j.source
Importing(j) ==
  worker = "up" /\ faults = 0 => \A s \in Source : d.run[s].phase = "importing" => Doing(j, s)

JobFacts(j) ==
  j \in Jobs /\ Stages(j) /\ Replay(j) /\ Owns(j) /\ Phased(j) /\ Cancelled(j) /\ Importing(j)

(* The locks of the owner, the worker and the shutdown.                     *)
Owner ==
  /\ launcher # NoLaunch => /\ launcher.step # "none" /\ exit \in {"none", "rejected"}
                           /\ Promised(launcher.expected)
  /\ launcher.step = "locked" => ~Running
  /\ launcher.step = "installed" => job.pc = "spawned"
  /\ job.pc = "spawned" => job = NewJob(job.kind, job.expected) /\ ~active /\ launcher # NoLaunch
  /\ exit \in {"drained", "stopping", "down"} => job.pc = "none"
  /\ stopped => exit \in {"stopping", "down"}
  /\ worker = "opening" => job.pc = "open"

(* The worker is sent one command of the job at a time, the one it awaits.  *)
Queued ==
  \A i \in 1..Len(queue) : queue[i].command # "other" =>
    /\ job.pc = "wait" /\ job.reply = NoReply /\ job.then = queue[i].command
    /\ \A k \in 1..Len(queue) : queue[k].command # "other" => k = i
    /\ job.then = "append" =>
         /\ queue[i].batch \in Batch
         /\ job.stamp = stamp => /\ job.next <= Len(Batches[job.print])
                                 /\ queue[i].batch = Batches[job.print][job.next]

(* The content of the database.                                             *)
Staged ==
  \A s \in Source :
    /\ ~Present(d, s) => d.source[s] = NoSource /\ d.run[s] = NoRun /\ d.rows[s] = {}
    /\ Present(d, s) => d.source[s].print \in Archive
    /\ IsFiniteSet(d.rows[s])
    /\ d.rows[s] = Stored(s)
    /\ Ready(d, s) => Begins(d.source[s].print, s)

(* There is always an identifier left for a new source.                     *)
Used == {s \in Source : Present(d, s) \/ d.task[s] # "none"}
Unresolved == \/ launcher # NoLaunch
              \/ job.pc \in Early \ {"none"}
              \/ Asks(job, {"resolve"}) /\ job.reply = NoReply
Room ==
  /\ jobs <= MaxJobs
  /\ IsFiniteSet(Used)
  /\ Cardinality(Used) + (IF Unresolved THEN 1 ELSE 0) <= jobs

IInv == TypeOK /\ Owner /\ Queued /\ Staged /\ Room /\ JobFacts(job)
-----------------------------------------------------------------------------
(* Facts about the constants and the records.                               *)

LEMMA NoneIsNone == None \notin Source /\ None \notin Archive /\ None \notin Nat
BY ArchiveDbAssumption, DiscordImportAssumption

LEMMA ElementsAre ==
  ASSUME NEW R, NEW q \in Seq(R)
  PROVE  \A i \in 1..Len(q) : q[i] \in R
OBVIOUS

LEMMA BatchesAreBatches ==
  ASSUME NEW a \in Archive
  PROVE  /\ Batches[a] \in Seq(Batch) /\ Len(Batches[a]) \in Nat
         /\ \A i \in 1..Len(Batches[a]) :
              /\ Batches[a][i] \in Batch
              /\ IsFiniteSet(Batches[a][i].contents) /\ IsFiniteSet(Batches[a][i].talks)
<1>1. Batches[a] \in Seq([contents : SUBSET Row, talks : SUBSET Talk, warnings : Nat,
                         version : {2}])
  BY DiscordImportAssumption
<1>2. \A i \in 1..Len(Batches[a]) :
         IsFiniteSet(Batches[a][i].contents) /\ IsFiniteSet(Batches[a][i].talks)
  BY DiscordImportAssumption
<1>3. \A i \in 1..Len(Batches[a]) : Batches[a][i] \in Batch
  <2>1. SUFFICES ASSUME NEW i \in 1..Len(Batches[a]) PROVE Batches[a][i] \in Batch
    OBVIOUS
  <2> DEFINE b == Batches[a][i]
  <2>2. b \in [contents : SUBSET Row, talks : SUBSET Talk, warnings : Nat, version : {2}]
    BY <1>1, ElementsAre
  <2>3. IsFiniteSet(b.contents)
    BY <1>2
  <2> QED BY <2>2, <2>3 DEF Batch
<1>4. Batches[a] \in Seq(Batch)
  BY <1>1, <1>3
<1> QED BY <1>1, <1>2, <1>3, <1>4

(* What a step of a job sets, and what it leaves.                           *)

SetPc(j, p) == [j EXCEPT !.pc = p]
SetStamp(j, m, p) == [j EXCEPT !.stamp = m, !.pc = p]
SetFailed(j, p, e, r) == [j EXCEPT !.pc = p, !.error = e, !.reply = r]
SetPrint(j, a, p) == [j EXCEPT !.print = a, !.pc = p]
SetPcThen(j, p, t) == [j EXCEPT !.pc = p, !.then = t]
SetKnown(j, s, c, r) == [j EXCEPT !.source = s, !.checkpoint = c, !.reply = r]
SetExpected(j, p, t, s, c) == [j EXCEPT !.pc = p, !.then = t, !.source = s, !.checkpoint = c]
SetSession(j, p, i) == [j EXCEPT !.pc = p, !.session = i]
SetUnknown(j, c) == [j EXCEPT !.checkpoint = c]
SetRetried(j, p, i, r) == [j EXCEPT !.pc = p, !.session = i, !.reply = r]
SetBound(j, p, g) == [j EXCEPT !.pc = p, !.bound = TRUE, !.signalled = g]
SetPcReply(j, p, r) == [j EXCEPT !.pc = p, !.reply = r]
SetAsk(j, p, t, r) == [j EXCEPT !.pc = p, !.then = t, !.reply = r]
SetFed(j, c, n, p, r) == [j EXCEPT !.checkpoint = c, !.next = n, !.pc = p, !.reply = r]
SetEnd(j, p, g, t) == [j EXCEPT !.pc = p, !.signalled = g, !.then = t]
SetEnded(j, p, t, r, e) == [j EXCEPT !.pc = p, !.then = t, !.reply = r, !.error = e]
SetReply(j, r) == [j EXCEPT !.reply = r]
SetFlags(j, x, y, g) == [j EXCEPT !.cancelled = x, !.signalling = y, !.signalled = g]

LEMMA SetPcIs ==
  ASSUME NEW j \in Jobs, NEW p \in Pcs
  PROVE  LET k == SetPc(j, p)
         IN /\ k \in Jobs /\ k.pc = p /\ k.expected = j.expected /\ k.cancelled = j.cancelled
            /\ k.signalling = j.signalling /\ k.signalled = j.signalled /\ k.stamp = j.stamp
            /\ k.print = j.print /\ k.next = j.next /\ k.error = j.error /\ k.reply = j.reply
            /\ k.then = j.then /\ k.session = j.session /\ k.source = j.source
            /\ k.checkpoint = j.checkpoint
<1> DEFINE k == SetPc(j, p)
<1>1. k \in Jobs
  BY DEF SetPc, Jobs
<1>2. /\ k.pc = p /\ k.expected = j.expected /\ k.cancelled = j.cancelled
      /\ k.signalling = j.signalling /\ k.signalled = j.signalled /\ k.stamp = j.stamp
      /\ k.print = j.print /\ k.next = j.next /\ k.error = j.error /\ k.reply = j.reply
      /\ k.then = j.then /\ k.session = j.session /\ k.source = j.source
      /\ k.checkpoint = j.checkpoint
  BY DEF SetPc, Jobs
<1> QED BY <1>1, <1>2

LEMMA SetStampIs ==
  ASSUME NEW j \in Jobs, NEW m \in Stamps, NEW p \in Pcs
  PROVE  LET k == SetStamp(j, m, p)
         IN /\ k \in Jobs /\ k.stamp = m /\ k.pc = p /\ k.expected = j.expected
            /\ k.cancelled = j.cancelled /\ k.signalling = j.signalling
            /\ k.signalled = j.signalled /\ k.print = j.print /\ k.next = j.next
            /\ k.error = j.error /\ k.reply = j.reply /\ k.then = j.then /\ k.session = j.session
            /\ k.source = j.source /\ k.checkpoint = j.checkpoint
<1> DEFINE k == SetStamp(j, m, p)
<1>1. k \in Jobs
  BY DEF SetStamp, Jobs
<1>2. /\ k.stamp = m /\ k.pc = p /\ k.expected = j.expected /\ k.cancelled = j.cancelled
      /\ k.signalling = j.signalling /\ k.signalled = j.signalled /\ k.print = j.print
      /\ k.next = j.next /\ k.error = j.error /\ k.reply = j.reply /\ k.then = j.then
      /\ k.session = j.session /\ k.source = j.source /\ k.checkpoint = j.checkpoint
  BY DEF SetStamp, Jobs
<1> QED BY <1>1, <1>2

LEMMA SetFailedIs ==
  ASSUME NEW j \in Jobs, NEW p \in Pcs, NEW e \in Causes, NEW r \in Replies
  PROVE  LET k == SetFailed(j, p, e, r)
         IN /\ k \in Jobs /\ k.pc = p /\ k.error = e /\ k.reply = r /\ k.expected = j.expected
            /\ k.cancelled = j.cancelled /\ k.signalling = j.signalling
            /\ k.signalled = j.signalled /\ k.stamp = j.stamp /\ k.print = j.print
            /\ k.next = j.next /\ k.then = j.then /\ k.session = j.session /\ k.source = j.source
            /\ k.checkpoint = j.checkpoint
<1> DEFINE k == SetFailed(j, p, e, r)
<1>1. k \in Jobs
  BY DEF SetFailed, Jobs
<1>2. /\ k.pc = p /\ k.error = e /\ k.reply = r /\ k.expected = j.expected
      /\ k.cancelled = j.cancelled /\ k.signalling = j.signalling /\ k.signalled = j.signalled
      /\ k.stamp = j.stamp /\ k.print = j.print /\ k.next = j.next /\ k.then = j.then
      /\ k.session = j.session /\ k.source = j.source /\ k.checkpoint = j.checkpoint
  BY DEF SetFailed, Jobs
<1> QED BY <1>1, <1>2

LEMMA SetPrintIs ==
  ASSUME NEW j \in Jobs, NEW a \in Prints, NEW p \in Pcs
  PROVE  LET k == SetPrint(j, a, p)
         IN /\ k \in Jobs /\ k.print = a /\ k.pc = p /\ k.expected = j.expected
            /\ k.cancelled = j.cancelled /\ k.signalling = j.signalling
            /\ k.signalled = j.signalled /\ k.stamp = j.stamp /\ k.next = j.next
            /\ k.error = j.error /\ k.reply = j.reply /\ k.then = j.then /\ k.session = j.session
            /\ k.source = j.source /\ k.checkpoint = j.checkpoint
<1> DEFINE k == SetPrint(j, a, p)
<1>1. k \in Jobs
  BY DEF SetPrint, Jobs
<1>2. /\ k.print = a /\ k.pc = p /\ k.expected = j.expected /\ k.cancelled = j.cancelled
      /\ k.signalling = j.signalling /\ k.signalled = j.signalled /\ k.stamp = j.stamp
      /\ k.next = j.next /\ k.error = j.error /\ k.reply = j.reply /\ k.then = j.then
      /\ k.session = j.session /\ k.source = j.source /\ k.checkpoint = j.checkpoint
  BY DEF SetPrint, Jobs
<1> QED BY <1>1, <1>2

LEMMA SetPcThenIs ==
  ASSUME NEW j \in Jobs, NEW p \in Pcs, NEW t \in Nexts
  PROVE  LET k == SetPcThen(j, p, t)
         IN /\ k \in Jobs /\ k.pc = p /\ k.then = t /\ k.expected = j.expected
            /\ k.cancelled = j.cancelled /\ k.signalling = j.signalling
            /\ k.signalled = j.signalled /\ k.stamp = j.stamp /\ k.print = j.print
            /\ k.next = j.next /\ k.error = j.error /\ k.reply = j.reply /\ k.session = j.session
            /\ k.source = j.source /\ k.checkpoint = j.checkpoint
<1> DEFINE k == SetPcThen(j, p, t)
<1>1. k \in Jobs
  BY DEF SetPcThen, Jobs
<1>2. /\ k.pc = p /\ k.then = t /\ k.expected = j.expected /\ k.cancelled = j.cancelled
      /\ k.signalling = j.signalling /\ k.signalled = j.signalled /\ k.stamp = j.stamp
      /\ k.print = j.print /\ k.next = j.next /\ k.error = j.error /\ k.reply = j.reply
      /\ k.session = j.session /\ k.source = j.source /\ k.checkpoint = j.checkpoint
  BY DEF SetPcThen, Jobs
<1> QED BY <1>1, <1>2

LEMMA SetKnownIs ==
  ASSUME NEW j \in Jobs, NEW s \in Sources, NEW c \in Checkpoints, NEW r \in Replies
  PROVE  LET k == SetKnown(j, s, c, r)
         IN /\ k \in Jobs /\ k.source = s /\ k.checkpoint = c /\ k.reply = r /\ k.pc = j.pc
            /\ k.expected = j.expected /\ k.cancelled = j.cancelled /\ k.signalling = j.signalling
            /\ k.signalled = j.signalled /\ k.stamp = j.stamp /\ k.print = j.print
            /\ k.next = j.next /\ k.error = j.error /\ k.then = j.then /\ k.session = j.session
<1> DEFINE k == SetKnown(j, s, c, r)
<1>1. k \in Jobs
  BY DEF SetKnown, Jobs
<1>2. /\ k.source = s /\ k.checkpoint = c /\ k.reply = r /\ k.pc = j.pc /\ k.expected = j.expected
      /\ k.cancelled = j.cancelled /\ k.signalling = j.signalling /\ k.signalled = j.signalled
      /\ k.stamp = j.stamp /\ k.print = j.print /\ k.next = j.next /\ k.error = j.error
      /\ k.then = j.then /\ k.session = j.session
  BY DEF SetKnown, Jobs
<1> QED BY <1>1, <1>2

LEMMA SetExpectedIs ==
  ASSUME NEW j \in Jobs, NEW p \in Pcs, NEW t \in Nexts, NEW s \in Sources, NEW c \in Checkpoints
  PROVE  LET k == SetExpected(j, p, t, s, c)
         IN /\ k \in Jobs /\ k.pc = p /\ k.then = t /\ k.source = s /\ k.checkpoint = c
            /\ k.expected = j.expected /\ k.cancelled = j.cancelled /\ k.signalling = j.signalling
            /\ k.signalled = j.signalled /\ k.stamp = j.stamp /\ k.print = j.print
            /\ k.next = j.next /\ k.error = j.error /\ k.reply = j.reply /\ k.session = j.session
<1> DEFINE k == SetExpected(j, p, t, s, c)
<1>1. k \in Jobs
  BY DEF SetExpected, Jobs
<1>2. /\ k.pc = p /\ k.then = t /\ k.source = s /\ k.checkpoint = c /\ k.expected = j.expected
      /\ k.cancelled = j.cancelled /\ k.signalling = j.signalling /\ k.signalled = j.signalled
      /\ k.stamp = j.stamp /\ k.print = j.print /\ k.next = j.next /\ k.error = j.error
      /\ k.reply = j.reply /\ k.session = j.session
  BY DEF SetExpected, Jobs
<1> QED BY <1>1, <1>2

LEMMA SetSessionIs ==
  ASSUME NEW j \in Jobs, NEW p \in Pcs, NEW i \in Sessions
  PROVE  LET k == SetSession(j, p, i)
         IN /\ k \in Jobs /\ k.pc = p /\ k.session = i /\ k.expected = j.expected
            /\ k.cancelled = j.cancelled /\ k.signalling = j.signalling
            /\ k.signalled = j.signalled /\ k.stamp = j.stamp /\ k.print = j.print
            /\ k.next = j.next /\ k.error = j.error /\ k.reply = j.reply /\ k.then = j.then
            /\ k.source = j.source /\ k.checkpoint = j.checkpoint
<1> DEFINE k == SetSession(j, p, i)
<1>1. k \in Jobs
  BY DEF SetSession, Jobs
<1>2. /\ k.pc = p /\ k.session = i /\ k.expected = j.expected /\ k.cancelled = j.cancelled
      /\ k.signalling = j.signalling /\ k.signalled = j.signalled /\ k.stamp = j.stamp
      /\ k.print = j.print /\ k.next = j.next /\ k.error = j.error /\ k.reply = j.reply
      /\ k.then = j.then /\ k.source = j.source /\ k.checkpoint = j.checkpoint
  BY DEF SetSession, Jobs
<1> QED BY <1>1, <1>2

LEMMA SetUnknownIs ==
  ASSUME NEW j \in Jobs, NEW c \in Checkpoints
  PROVE  LET k == SetUnknown(j, c)
         IN /\ k \in Jobs /\ k.checkpoint = c /\ k.pc = j.pc /\ k.expected = j.expected
            /\ k.cancelled = j.cancelled /\ k.signalling = j.signalling
            /\ k.signalled = j.signalled /\ k.stamp = j.stamp /\ k.print = j.print
            /\ k.next = j.next /\ k.error = j.error /\ k.reply = j.reply /\ k.then = j.then
            /\ k.session = j.session /\ k.source = j.source
<1> DEFINE k == SetUnknown(j, c)
<1>1. k \in Jobs
  BY DEF SetUnknown, Jobs
<1>2. /\ k.checkpoint = c /\ k.pc = j.pc /\ k.expected = j.expected /\ k.cancelled = j.cancelled
      /\ k.signalling = j.signalling /\ k.signalled = j.signalled /\ k.stamp = j.stamp
      /\ k.print = j.print /\ k.next = j.next /\ k.error = j.error /\ k.reply = j.reply
      /\ k.then = j.then /\ k.session = j.session /\ k.source = j.source
  BY DEF SetUnknown, Jobs
<1> QED BY <1>1, <1>2

LEMMA SetRetriedIs ==
  ASSUME NEW j \in Jobs, NEW p \in Pcs, NEW i \in Sessions, NEW r \in Replies
  PROVE  LET k == SetRetried(j, p, i, r)
         IN /\ k \in Jobs /\ k.pc = p /\ k.session = i /\ k.reply = r /\ k.expected = j.expected
            /\ k.cancelled = j.cancelled /\ k.signalling = j.signalling
            /\ k.signalled = j.signalled /\ k.stamp = j.stamp /\ k.print = j.print
            /\ k.next = j.next /\ k.error = j.error /\ k.then = j.then /\ k.source = j.source
            /\ k.checkpoint = j.checkpoint
<1> DEFINE k == SetRetried(j, p, i, r)
<1>1. k \in Jobs
  BY DEF SetRetried, Jobs
<1>2. /\ k.pc = p /\ k.session = i /\ k.reply = r /\ k.expected = j.expected
      /\ k.cancelled = j.cancelled /\ k.signalling = j.signalling /\ k.signalled = j.signalled
      /\ k.stamp = j.stamp /\ k.print = j.print /\ k.next = j.next /\ k.error = j.error
      /\ k.then = j.then /\ k.source = j.source /\ k.checkpoint = j.checkpoint
  BY DEF SetRetried, Jobs
<1> QED BY <1>1, <1>2

LEMMA SetBoundIs ==
  ASSUME NEW j \in Jobs, NEW p \in Pcs, NEW g \in Flags
  PROVE  LET k == SetBound(j, p, g)
         IN /\ k \in Jobs /\ k.pc = p /\ k.signalled = g /\ k.expected = j.expected
            /\ k.cancelled = j.cancelled /\ k.signalling = j.signalling /\ k.stamp = j.stamp
            /\ k.print = j.print /\ k.next = j.next /\ k.error = j.error /\ k.reply = j.reply
            /\ k.then = j.then /\ k.session = j.session /\ k.source = j.source
            /\ k.checkpoint = j.checkpoint
<1> DEFINE k == SetBound(j, p, g)
<1>1. k \in Jobs
  BY DEF SetBound, Jobs, Flags
<1>2. /\ k.pc = p /\ k.signalled = g /\ k.expected = j.expected
      /\ k.cancelled = j.cancelled /\ k.signalling = j.signalling /\ k.stamp = j.stamp
      /\ k.print = j.print /\ k.next = j.next /\ k.error = j.error /\ k.reply = j.reply
      /\ k.then = j.then /\ k.session = j.session /\ k.source = j.source
      /\ k.checkpoint = j.checkpoint
  BY DEF SetBound, Jobs
<1> QED BY <1>1, <1>2

LEMMA SetPcReplyIs ==
  ASSUME NEW j \in Jobs, NEW p \in Pcs, NEW r \in Replies
  PROVE  LET k == SetPcReply(j, p, r)
         IN /\ k \in Jobs /\ k.pc = p /\ k.reply = r /\ k.expected = j.expected
            /\ k.cancelled = j.cancelled /\ k.signalling = j.signalling
            /\ k.signalled = j.signalled /\ k.stamp = j.stamp /\ k.print = j.print
            /\ k.next = j.next /\ k.error = j.error /\ k.then = j.then /\ k.session = j.session
            /\ k.source = j.source /\ k.checkpoint = j.checkpoint
<1> DEFINE k == SetPcReply(j, p, r)
<1>1. k \in Jobs
  BY DEF SetPcReply, Jobs
<1>2. /\ k.pc = p /\ k.reply = r /\ k.expected = j.expected /\ k.cancelled = j.cancelled
      /\ k.signalling = j.signalling /\ k.signalled = j.signalled /\ k.stamp = j.stamp
      /\ k.print = j.print /\ k.next = j.next /\ k.error = j.error /\ k.then = j.then
      /\ k.session = j.session /\ k.source = j.source /\ k.checkpoint = j.checkpoint
  BY DEF SetPcReply, Jobs
<1> QED BY <1>1, <1>2

LEMMA SetAskIs ==
  ASSUME NEW j \in Jobs, NEW p \in Pcs, NEW t \in Nexts, NEW r \in Replies
  PROVE  LET k == SetAsk(j, p, t, r)
         IN /\ k \in Jobs /\ k.pc = p /\ k.then = t /\ k.reply = r /\ k.expected = j.expected
            /\ k.cancelled = j.cancelled /\ k.signalling = j.signalling
            /\ k.signalled = j.signalled /\ k.stamp = j.stamp /\ k.print = j.print
            /\ k.next = j.next /\ k.error = j.error /\ k.session = j.session /\ k.source = j.source
            /\ k.checkpoint = j.checkpoint
<1> DEFINE k == SetAsk(j, p, t, r)
<1>1. k \in Jobs
  BY DEF SetAsk, Jobs
<1>2. /\ k.pc = p /\ k.then = t /\ k.reply = r /\ k.expected = j.expected
      /\ k.cancelled = j.cancelled /\ k.signalling = j.signalling /\ k.signalled = j.signalled
      /\ k.stamp = j.stamp /\ k.print = j.print /\ k.next = j.next /\ k.error = j.error
      /\ k.session = j.session /\ k.source = j.source /\ k.checkpoint = j.checkpoint
  BY DEF SetAsk, Jobs
<1> QED BY <1>1, <1>2

LEMMA SetFedIs ==
  ASSUME NEW j \in Jobs, NEW c \in Checkpoints, NEW n \in Positions, NEW p \in Pcs,
         NEW r \in Replies
  PROVE  LET k == SetFed(j, c, n, p, r)
         IN /\ k \in Jobs /\ k.checkpoint = c /\ k.next = n /\ k.pc = p /\ k.reply = r
            /\ k.expected = j.expected /\ k.cancelled = j.cancelled /\ k.signalling = j.signalling
            /\ k.signalled = j.signalled /\ k.stamp = j.stamp /\ k.print = j.print
            /\ k.error = j.error /\ k.then = j.then /\ k.session = j.session /\ k.source = j.source
<1> DEFINE k == SetFed(j, c, n, p, r)
<1>1. k \in Jobs
  BY DEF SetFed, Jobs
<1>2. /\ k.checkpoint = c /\ k.next = n /\ k.pc = p /\ k.reply = r /\ k.expected = j.expected
      /\ k.cancelled = j.cancelled /\ k.signalling = j.signalling /\ k.signalled = j.signalled
      /\ k.stamp = j.stamp /\ k.print = j.print /\ k.error = j.error /\ k.then = j.then
      /\ k.session = j.session /\ k.source = j.source
  BY DEF SetFed, Jobs
<1> QED BY <1>1, <1>2

LEMMA SetEndIs ==
  ASSUME NEW j \in Jobs, NEW p \in Pcs, NEW g \in Flags, NEW t \in Nexts
  PROVE  LET k == SetEnd(j, p, g, t)
         IN /\ k \in Jobs /\ k.pc = p /\ k.signalled = g /\ k.then = t /\ k.expected = j.expected
            /\ k.cancelled = j.cancelled /\ k.signalling = j.signalling /\ k.stamp = j.stamp
            /\ k.print = j.print /\ k.next = j.next /\ k.error = j.error /\ k.reply = j.reply
            /\ k.session = j.session /\ k.source = j.source /\ k.checkpoint = j.checkpoint
<1> DEFINE k == SetEnd(j, p, g, t)
<1>1. k \in Jobs
  BY DEF SetEnd, Jobs
<1>2. /\ k.pc = p /\ k.signalled = g /\ k.then = t /\ k.expected = j.expected
      /\ k.cancelled = j.cancelled /\ k.signalling = j.signalling /\ k.stamp = j.stamp
      /\ k.print = j.print /\ k.next = j.next /\ k.error = j.error /\ k.reply = j.reply
      /\ k.session = j.session /\ k.source = j.source /\ k.checkpoint = j.checkpoint
  BY DEF SetEnd, Jobs
<1> QED BY <1>1, <1>2

LEMMA SetEndedIs ==
  ASSUME NEW j \in Jobs, NEW p \in Pcs, NEW t \in Nexts, NEW r \in Replies, NEW e \in Causes
  PROVE  LET k == SetEnded(j, p, t, r, e)
         IN /\ k \in Jobs /\ k.pc = p /\ k.then = t /\ k.reply = r /\ k.error = e
            /\ k.expected = j.expected /\ k.cancelled = j.cancelled /\ k.signalling = j.signalling
            /\ k.signalled = j.signalled /\ k.stamp = j.stamp /\ k.print = j.print
            /\ k.next = j.next /\ k.session = j.session /\ k.source = j.source
            /\ k.checkpoint = j.checkpoint
<1> DEFINE k == SetEnded(j, p, t, r, e)
<1>1. k \in Jobs
  BY DEF SetEnded, Jobs
<1>2. /\ k.pc = p /\ k.then = t /\ k.reply = r /\ k.error = e /\ k.expected = j.expected
      /\ k.cancelled = j.cancelled /\ k.signalling = j.signalling /\ k.signalled = j.signalled
      /\ k.stamp = j.stamp /\ k.print = j.print /\ k.next = j.next /\ k.session = j.session
      /\ k.source = j.source /\ k.checkpoint = j.checkpoint
  BY DEF SetEnded, Jobs
<1> QED BY <1>1, <1>2

LEMMA SetReplyIs ==
  ASSUME NEW j \in Jobs, NEW r \in Replies
  PROVE  LET k == SetReply(j, r)
         IN /\ k \in Jobs /\ k.reply = r /\ k.pc = j.pc /\ k.expected = j.expected
            /\ k.cancelled = j.cancelled /\ k.signalling = j.signalling
            /\ k.signalled = j.signalled /\ k.stamp = j.stamp /\ k.print = j.print
            /\ k.next = j.next /\ k.error = j.error /\ k.then = j.then /\ k.session = j.session
            /\ k.source = j.source /\ k.checkpoint = j.checkpoint
<1> DEFINE k == SetReply(j, r)
<1>1. k \in Jobs
  BY DEF SetReply, Jobs
<1>2. /\ k.reply = r /\ k.pc = j.pc /\ k.expected = j.expected /\ k.cancelled = j.cancelled
      /\ k.signalling = j.signalling /\ k.signalled = j.signalled /\ k.stamp = j.stamp
      /\ k.print = j.print /\ k.next = j.next /\ k.error = j.error /\ k.then = j.then
      /\ k.session = j.session /\ k.source = j.source /\ k.checkpoint = j.checkpoint
  BY DEF SetReply, Jobs
<1> QED BY <1>1, <1>2

LEMMA SetFlagsIs ==
  ASSUME NEW j \in Jobs, NEW x \in Flags, NEW y \in Flags, NEW g \in Flags
  PROVE  LET k == SetFlags(j, x, y, g)
         IN /\ k \in Jobs /\ k.cancelled = x /\ k.signalling = y /\ k.signalled = g /\ k.pc = j.pc
            /\ k.expected = j.expected /\ k.stamp = j.stamp /\ k.print = j.print /\ k.next = j.next
            /\ k.error = j.error /\ k.reply = j.reply /\ k.then = j.then /\ k.session = j.session
            /\ k.source = j.source /\ k.checkpoint = j.checkpoint
<1> DEFINE k == SetFlags(j, x, y, g)
<1>1. k \in Jobs
  BY DEF SetFlags, Jobs
<1>2. /\ k.cancelled = x /\ k.signalling = y /\ k.signalled = g /\ k.pc = j.pc
      /\ k.expected = j.expected /\ k.stamp = j.stamp /\ k.print = j.print /\ k.next = j.next
      /\ k.error = j.error /\ k.reply = j.reply /\ k.then = j.then /\ k.session = j.session
      /\ k.source = j.source /\ k.checkpoint = j.checkpoint
  BY DEF SetFlags, Jobs
<1> QED BY <1>1, <1>2

(* What is left of a job that is over.                                      *)
LEMMA DoneIs ==
  ASSUME NEW j \in Jobs, NEW o \in Outcomes
  PROVE  LET x == Done(j, o)
         IN /\ x \in Jobs
            /\ x.pc = "done" /\ x.outcome = o /\ x.cancelled = j.cancelled
            /\ ~x.signalling /\ ~x.signalled /\ x.stamp = 0 /\ x.expected = None
            /\ x.print = j.print /\ x.session = j.session /\ x.source = j.source
            /\ x.checkpoint = j.checkpoint /\ x.reply = NoReply /\ x.error = None /\ x.then = None
            /\ x.next = 1
<1>1. /\ j.kind \in Kinds /\ j.cancelled \in BOOLEAN /\ j.print \in Archive \cup {None}
      /\ j.session \in Nat \cup {None} /\ j.source \in Source \cup {None}
      /\ j.checkpoint \in Run \cup {None}
  BY DEF Jobs, Flags, Prints, Sessions, Sources, Checkpoints
<1>2. /\ "done" \in Pcs /\ None \in Wanted /\ o \in Ends /\ FALSE \in Flags /\ 0 \in Stamps
      /\ 1 \in Positions /\ None \in Causes /\ NoReply \in Replies /\ None \in Nexts
  BY DEF Pcs, Wanted, Ends, Flags, Stamps, Positions, Causes, Replies, Nexts
<1>3. Done(j, o) \in Jobs
  BY <1>2 DEF Done, Jobs
<1> QED BY <1>3 DEF Done

(* A job that fails is over, or has its run to end.                         *)
LEMMA FailedIs ==
  ASSUME NEW j \in Jobs, NEW e \in Reasons
  PROVE  LET x == Failed(j, e)
         IN IF j.session = None THEN x = Done(j, e)
            ELSE /\ x \in Jobs
                 /\ x.pc = "end" /\ x.error = e /\ x.reply = NoReply
                 /\ x.cancelled = j.cancelled /\ x.signalling = j.signalling
                 /\ x.signalled = j.signalled /\ x.stamp = j.stamp /\ x.expected = j.expected
                 /\ x.print = j.print /\ x.session = j.session /\ x.source = j.source
                 /\ x.checkpoint = j.checkpoint /\ x.next = j.next
<1>1. "end" \in Pcs /\ e \in Causes /\ NoReply \in Replies
  BY DEF Pcs, Causes, Replies
<1>2. Failed(j, e) = IF j.session = None THEN Done(j, e) ELSE SetFailed(j, "end", e, NoReply)
  BY DEF Failed, SetFailed
<1> QED BY <1>1, <1>2, SetFailedIs

(* A job may be over when its run is what it says, and no run imports.      *)
LEMMA DoneFacts ==
  ASSUME stamp \in Nat, NEW j, JobFacts(j), NEW o \in Outcomes,
         o = "Cancelled" => j.cancelled,
         There(j) /\ j.session # None /\ o # "StorageFailure" =>
           RunOf(j).phase = IF o = "ready" THEN "ready" ELSE EndPhase(o),
         worker = "up" /\ faults = 0 => \A s \in Source : d.run[s].phase # "importing"
  PROVE  JobFacts(Done(j, o))
<1> DEFINE x == Done(j, o)
<1>1. j \in Jobs /\ Stages(j) /\ Owns(j)
  BY DEF JobFacts
<1>2. /\ x \in Jobs
      /\ x.pc = "done" /\ x.outcome = o /\ x.cancelled = j.cancelled
      /\ ~x.signalling /\ ~x.signalled /\ x.stamp = 0 /\ x.expected = None
      /\ x.print = j.print /\ x.session = j.session /\ x.source = j.source
      /\ x.checkpoint = j.checkpoint /\ x.reply = NoReply /\ x.error = None /\ x.then = None
      /\ x.next = 1
  BY <1>1, DoneIs
<1> HIDE DEF x
<1>3. There(x) <=> There(j)
  BY <1>2 DEF There
<1>4. ~Has(x) /\ ~Live(x) /\ \A c : ~Asks(x, c) /\ ~HasOk(x, c)
  BY <1>2 DEF Has, Live, Asks, HasOk
<1>5. Stages(x)
  BY <1>1, <1>2, <1>4 DEF Stages, Early, Reading
<1>6. Replay(x)
  BY <1>2, <1>4 DEF Replay
<1>7. Owns(x)
  BY <1>1, <1>2, <1>3, <1>4 DEF Owns, Promised, RunOf
<1>8. Phased(x)
  BY <1>2, <1>3, <1>4 DEF Phased, RunOf, Feeding, Closing, Ended, Reading
<1>9. Cancelled(x)
  BY <1>2, <1>4 DEF Cancelled
<1>10. Importing(x)
  BY DEF Importing
<1> QED BY <1>2, <1>5, <1>6, <1>7, <1>8, <1>9, <1>10 DEF JobFacts, x

(* A job may fail as long as what it says of its run can still become so.   *)
LEMMA FailedFacts ==
  ASSUME stamp \in Nat, NEW j, JobFacts(j), Live(j), NEW e \in Reasons,
         e = "Cancelled" => j.cancelled,
         There(j) /\ j.session # None /\ e # "StorageFailure" => RunOf(j).phase = "importing",
         ~HasOk(j, "resolve"), ~HasOk(j, "retry")
  PROVE  JobFacts(Failed(j, e))
<1> DEFINE x == Failed(j, e)
<1>1. j \in Jobs /\ Stages(j) /\ Owns(j) /\ Replay(j) /\ Cancelled(j) /\ Importing(j)
  BY DEF JobFacts
<1>2. CASE j.session = None
  <2>1. x = Done(j, e) /\ e \in Outcomes
    BY <1>1, <1>2, FailedIs DEF Outcomes
  <2>2. worker = "up" /\ faults = 0 => \A s \in Source : d.run[s].phase # "importing"
    BY <1>1, <1>2 DEF Importing, Doing
  <2> QED BY <1>2, <2>1, <2>2, DoneFacts
<1>3. CASE j.session # None
  <2>1. /\ x \in Jobs
        /\ x.pc = "end" /\ x.error = e /\ x.reply = NoReply
        /\ x.cancelled = j.cancelled /\ x.signalling = j.signalling
        /\ x.signalled = j.signalled /\ x.stamp = j.stamp /\ x.expected = j.expected
        /\ x.print = j.print /\ x.session = j.session /\ x.source = j.source
        /\ x.checkpoint = j.checkpoint /\ x.next = j.next
    BY <1>1, <1>3, FailedIs
  <2> HIDE DEF x
  <2>2. There(x) <=> There(j)
    BY <2>1 DEF There
  <2>3. ~Has(x) /\ Live(x) /\ \A c : ~Asks(x, c) /\ ~HasOk(x, c)
    BY <2>1 DEF Has, Live, Asks, HasOk
  <2>4. Stages(x)
    <3>1. x.source \in Source /\ x.print \in Archive
      <4>1. j.source \in Source
        BY <1>1, <1>3 DEF Stages
      <4>2. j.source # None
        BY <4>1, NoneIsNone
      <4> QED BY <1>1, <2>1, <4>1, <4>2 DEF Stages
    <3> QED BY <1>3, <2>1, <2>3, <3>1 DEF Stages, Early, Reading
  <2>5. Replay(x)
    <3>1. Fed(x) = j.next - 1 /\ (Fed(j) = j.next - 1 \/ Fed(j) = j.next) /\ j.next \in Nat \ {0}
      BY <1>1, <2>1, <2>3 DEF Fed, Jobs, Positions
    <3>2. j.stamp = stamp /\ There(j) =>
            /\ Fed(x) <= Len(Batches[j.print]) /\ Fed(x) <= Len(Receipts(j.source))
            /\ \A i \in 1..Fed(x) : Receipts(j.source)[i].batch = Batches[j.print][i]
      <4>1. SUFFICES ASSUME j.stamp = stamp, There(j)
                     PROVE  /\ Fed(x) <= Len(Batches[j.print]) /\ Fed(x) <= Len(Receipts(j.source))
                            /\ \A i \in 1..Fed(x) : Receipts(j.source)[i].batch = Batches[j.print][i]
        OBVIOUS
      <4>2. /\ Fed(j) <= Len(Batches[j.print]) /\ Fed(j) <= Len(Receipts(j.source))
            /\ \A i \in 1..Fed(j) : Receipts(j.source)[i].batch = Batches[j.print][i]
        BY <1>1, <1>3, <4>1 DEF Replay
      <4>3. Len(Batches[j.print]) \in Int /\ Len(Receipts(j.source)) \in Int
        OBVIOUS
      <4> QED BY <3>1, <4>2, <4>3
    <3> QED BY <1>1, <1>3, <2>1, <2>2, <2>3, <3>2 DEF Replay
  <2>6. Owns(x)
    BY <1>1, <2>1, <2>2, <2>3 DEF Owns, RunOf
  <2>7. Phased(x)
    BY <1>3, <2>1, <2>2, <2>3 DEF Phased, Ended, RunOf, Feeding, Closing, Reading
  <2>8. Cancelled(x)
    BY <1>1, <2>1, <2>3 DEF Cancelled
  <2>9. Importing(x)
    BY <1>1, <1>3, <2>1 DEF Importing, Doing, Closing
  <2> QED BY <2>1, <2>4, <2>5, <2>6, <2>7, <2>8, <2>9 DEF JobFacts, x
<1> QED BY <1>2, <1>3

-----------------------------------------------------------------------------
(* The steps of the job.                                                    *)

(* What is said of a job j depends on the database, the file and the worker.*)
LEMMA FactsKept ==
  ASSUME NEW j, JobFacts(j), UNCHANGED <<d, content, stamp, worker, faults>>, job' = j
  PROVE  JobFacts(job)'
BY DEF JobFacts, Stages, Replay, Owns, Phased, Ended, Cancelled, Importing, Live, Asks, Has, HasOk,
       There, RunOf, Fed, Promised, Feeding, Closing, Doing, Begins, Receipts, Present

(* What is said of a job but for what imports does not depend on the worker.*)
LEMMA FactsCarry ==
  ASSUME NEW j \in Jobs, Stages(j), Replay(j), Owns(j), Phased(j), Cancelled(j),
         UNCHANGED <<d, content, stamp>>, job' = j, Importing(job)'
  PROVE  JobFacts(job)'
<1>1. Stages(job)'
  BY DEF Stages, Asks
<1>2. Replay(job)'
  BY DEF Replay, Asks, Has, HasOk, There, Fed, Live, Begins, Receipts, Present
<1>3. Owns(job)'
  BY DEF Owns, HasOk, Has, There, RunOf, Promised, Present
<1>4. Phased(job)'
  BY DEF Phased, Asks, Has, HasOk, There, RunOf, Feeding, Closing, Ended, Present
<1>5. Cancelled(job)'
  BY DEF Cancelled, Asks, Has
<1> QED BY <1>1, <1>2, <1>3, <1>4, <1>5 DEF JobFacts

LEMMA FactsStay ==
  ASSUME NEW j, JobFacts(j), UNCHANGED <<d, content, stamp>>, job' = j, Importing(job)'
  PROVE  JobFacts(job)'
BY FactsCarry DEF JobFacts

(* A step of a job that changes nothing else.                               *)
LEMMA JobMoves ==
  ASSUME IInv, Elsewhere, NEW j, job' = j, JobFacts(j), Running, job.pc # "spawned",
         ~(job.pc = "wait" /\ job.reply = NoReply), worker # "opening",
         j.pc \notin {"none", "spawned"},
         j.pc \in Early => job.pc \in Early,
         Asks(j, {"resolve"}) => j.reply # NoReply \/ job.pc \in Early
  PROVE  IInv'
<1>1. /\ UNCHANGED <<d, content, stamp, closed, launcher, active, worker, stopped, queue, exit>>
      /\ UNCHANGED <<jobs, others, faults, deaths>>
  BY DEF Elsewhere, fileVars, counts
<1>2. JobFacts(job)'
  BY <1>1, FactsKept
<1>3. TypeOK'
  BY <1>1 DEF IInv, TypeOK, JobFacts
<1>4. Owner'
  BY <1>1 DEF IInv, Owner, Running, Promised, Present
<1>5. Queued'
  BY <1>1 DEF IInv, Queued
<1>6. Staged'
  BY <1>1 DEF IInv, Staged, Present, Ready, Begins, Stored, Receipts
<1>7. Room'
  <2>1. Used' = Used
    BY <1>1 DEF Used, Present
  <2>2. Unresolved' => Unresolved
    BY <1>1 DEF Unresolved, Running, Early, Asks
  <2>3. Cardinality(Used) \in Nat
    BY FS_CardinalityType DEF IInv, Room
  <2>4. jobs \in Nat
    BY DEF IInv, TypeOK
  <2> QED BY <1>1, <2>1, <2>2, <2>3, <2>4 DEF IInv, Room
<1> QED BY <1>2, <1>3, <1>4, <1>5, <1>6, <1>7 DEF IInv

LEMMA JobFails ==
  ASSUME IInv, Elsewhere, NEW j, JobFacts(j), Live(j), NEW e \in Reasons, job' = Failed(j, e),
         Running, job.pc # "spawned", ~(job.pc = "wait" /\ job.reply = NoReply), worker # "opening",
         e = "Cancelled" => j.cancelled,
         There(j) /\ j.session # None /\ e # "StorageFailure" => RunOf(j).phase = "importing",
         ~HasOk(j, "resolve"), ~HasOk(j, "retry")
  PROVE  IInv'
<1>1. JobFacts(Failed(j, e))
  BY FailedFacts DEF IInv, TypeOK
<1>2. Failed(j, e).pc \in {"done", "end"}
  BY FailedIs, DoneIs DEF JobFacts, Outcomes
<1> QED BY <1>1, <1>2, JobMoves DEF Early, Asks

LEMMA AtStep ==
  ASSUME IInv, NEW p, Step(p)
  PROVE  /\ Running /\ Live(job) /\ job.pc = p /\ stamp \in Nat /\ content \in Archive
         /\ p # "open" => worker # "opening"
         /\ JobFacts(job) /\ job \in Jobs /\ Stages(job) /\ Replay(job) /\ Owns(job)
         /\ Phased(job) /\ Cancelled(job) /\ Importing(job)
BY DEF IInv, TypeOK, Owner, Step, Running, Live, JobFacts

(* The steps before the archive is asked for anything.                      *)
LEMMA EarlyFacts ==
  ASSUME stamp \in Nat, NEW j, JobFacts(j), j.pc \in Early, NEW k \in Jobs,
         k.pc \in {"identify", "hash", "hashed", "open"},
         k.session = None, k.source = None, k.checkpoint = None, k.reply = NoReply, k.next = 1,
         k.expected = j.expected, k.cancelled = j.cancelled \/ k.cancelled,
         k.signalling = j.signalling, k.signalled = j.signalled,
         k.stamp <= stamp, k.stamp = stamp /\ k.print # None => content = k.print,
         k.pc \in {"identify", "hash"} => k.print = None,
         k.pc \in {"hashed", "open"} => k.print \in Archive,
         k.pc = "open" /\ k.expected # None => k.expected.print = k.print
  PROVE  JobFacts(k)
<1>1. Stages(j) /\ Owns(j) /\ Phased(j) /\ Cancelled(j) /\ Importing(j)
  BY DEF JobFacts
<1>2. ~Has(j) /\ ~Has(k) /\ \A c : ~Asks(k, c) /\ ~HasOk(k, c) /\ ~HasOk(j, c)
  BY DEF Has, Asks, HasOk, Early
<1>3. ~There(k) /\ k.pc \in Early /\ k.pc \notin {"none", "spawned"}
  BY DEF There, Early
<1>4. Stages(k)
  BY <1>2, <1>3 DEF Stages, Early, Reading
<1>5. Replay(k)
  BY <1>2, <1>3 DEF Replay, Early
<1>6. Owns(k) /\ Phased(k)
  BY <1>1, <1>2, <1>3 DEF Owns, Phased, Ended
<1>7. Cancelled(k)
  BY <1>1, <1>2, <1>3 DEF Cancelled, Early
<1>8. Importing(k)
  <2>1. j.session = None
    BY <1>1 DEF Stages
  <2> QED BY <1>1, <1>2, <2>1 DEF Importing, Doing
<1> QED BY <1>4, <1>5, <1>6, <1>7, <1>8 DEF JobFacts

LEMMA IdentifyKeeps == ASSUME IInv, Identify PROVE IInv'
<1>1. Step("identify") /\ Elsewhere
  BY DEF Identify, Become
<1>2. job.session = None /\ job.print = None /\ job.source = None /\ job.reply = NoReply
  BY <1>1, AtStep DEF Stages, Early
<1>3. CASE job.cancelled
  <2>1. job' = Failed(job, "Cancelled")
    BY <1>3 DEF Identify, Become
  <2> QED BY <1>1, <1>2, <1>3, <2>1, AtStep, JobFails DEF Reasons, HasOk, Has
<1>4. CASE ~job.cancelled
  <2> DEFINE k == SetStamp(job, stamp, "hash")
  <2>1. job' = k
    BY <1>4 DEF Identify, Become, SetStamp
  <2>2. stamp \in Stamps /\ "hash" \in Pcs
    BY <1>1, AtStep DEF Stamps, Pcs
  <2>3. /\ k \in Jobs /\ k.pc = "hash" /\ k.stamp = stamp /\ k.reply = job.reply
        /\ k.expected = job.expected /\ k.cancelled = job.cancelled
        /\ k.signalling = job.signalling /\ k.signalled = job.signalled
        /\ k.print = job.print /\ k.session = job.session /\ k.source = job.source
        /\ k.checkpoint = job.checkpoint /\ k.next = job.next
    BY <1>1, <2>2, AtStep, SetStampIs
  <2>4. job.checkpoint = None /\ job.next = 1 /\ job.pc \in Early
    BY <1>1, <1>2, AtStep DEF Stages, Early
  <2> HIDE DEF k
  <2>5. JobFacts(k)
    BY <1>1, <1>2, <2>3, <2>4, AtStep, EarlyFacts
  <2> QED BY <1>1, <2>1, <2>3, <2>4, <2>5, AtStep, JobMoves DEF Asks
<1> QED BY <1>3, <1>4

LEMMA HashKeeps == ASSUME IInv, Hash PROVE IInv'
<1>1. Step("hash") /\ Elsewhere
  BY DEF Hash, Become
<1>2. job.session = None /\ job.source = None /\ job.reply = NoReply
  BY <1>1, AtStep DEF Stages, Early
<1>3. CASE job.cancelled \/ ~Unchanged(job)
  <2>1. PICK e \in {"Cancelled", "InputChanged"} :
          job' = Failed(job, e) /\ (e = "Cancelled" => job.cancelled)
    BY <1>3 DEF Hash, Become
  <2> QED BY <1>1, <1>2, <2>1, AtStep, JobFails DEF Reasons, HasOk, Has
<1>4. CASE ~job.cancelled /\ Unchanged(job)
  <2> DEFINE k == SetPrint(job, content, "hashed")
  <2>1. job' = k
    BY <1>4 DEF Hash, Become, SetPrint
  <2>2. content \in Prints /\ "hashed" \in Pcs
    BY <1>1, AtStep DEF Prints, Pcs
  <2>3. /\ k \in Jobs /\ k.pc = "hashed" /\ k.stamp = job.stamp /\ k.reply = job.reply
        /\ k.expected = job.expected /\ k.cancelled = job.cancelled
        /\ k.signalling = job.signalling /\ k.signalled = job.signalled
        /\ k.print = content /\ k.session = job.session /\ k.source = job.source
        /\ k.checkpoint = job.checkpoint /\ k.next = job.next
    BY <1>1, <2>2, AtStep, SetPrintIs
  <2>4. job.checkpoint = None /\ job.next = 1 /\ job.pc \in Early /\ job.stamp = stamp
    BY <1>1, <1>2, <1>4, AtStep DEF Stages, Early, Unchanged
  <2> HIDE DEF k
  <2>5. JobFacts(k)
    BY <1>1, <1>2, <2>3, <2>4, AtStep, EarlyFacts
  <2> QED BY <1>1, <2>1, <2>3, <2>4, <2>5, AtStep, JobMoves DEF Asks
<1> QED BY <1>3, <1>4

LEMMA HashedKeeps == ASSUME IInv, Hashed PROVE IInv'
<1>1. Step("hashed") /\ Elsewhere
  BY DEF Hashed, Become
<1>2. job.session = None /\ job.source = None /\ job.reply = NoReply /\ job.print \in Archive
  BY <1>1, AtStep DEF Stages, Early
<1>3. CASE job' = SetPc(job, "open") /\ (job.expected # None => job.expected.print = job.print)
  <2> DEFINE k == SetPc(job, "open")
  <2>1. "open" \in Pcs
    BY DEF Pcs
  <2>2. /\ k \in Jobs /\ k.pc = "open" /\ k.stamp = job.stamp /\ k.reply = job.reply
        /\ k.expected = job.expected /\ k.cancelled = job.cancelled
        /\ k.signalling = job.signalling /\ k.signalled = job.signalled
        /\ k.print = job.print /\ k.session = job.session /\ k.source = job.source
        /\ k.checkpoint = job.checkpoint /\ k.next = job.next
    BY <1>1, <2>1, AtStep, SetPcIs
  <2>3. /\ job.checkpoint = None /\ job.next = 1 /\ job.pc \in Early /\ job.stamp <= stamp
        /\ job.stamp = stamp => content = job.print
    BY <1>1, <1>2, AtStep, NoneIsNone DEF Stages, Early, Replay
  <2> HIDE DEF k
  <2>4. JobFacts(k)
    BY <1>1, <1>2, <1>3, <2>2, <2>3, AtStep, EarlyFacts
  <2> QED BY <1>1, <1>3, <2>2, <2>3, <2>4, AtStep, JobMoves DEF Asks, k
<1>4. CASE ~(job' = SetPc(job, "open") /\ (job.expected # None => job.expected.print = job.print))
  <2>1. PICK e \in {"Cancelled", "InputChanged", "RetryMismatch"} :
          job' = Failed(job, e) /\ (e = "Cancelled" => job.cancelled)
    BY <1>4 DEF Hashed, Become, SetPc
  <2> QED BY <1>1, <1>2, <2>1, AtStep, JobFails DEF Reasons, HasOk, Has
<1> QED BY <1>3, <1>4

(* The two commands a job without a session asks.                           *)
LEMMA AskFacts ==
  ASSUME NEW j, JobFacts(j), Live(j), j.session = None, NEW k \in Jobs,
         k.pc = "ask", k.then \in {"resolve", "retry"},
         k.session = None, k.reply = NoReply, k.next = 1, k.expected = j.expected,
         k.cancelled = j.cancelled, k.signalling = j.signalling, k.signalled = j.signalled,
         k.stamp = j.stamp, k.print = j.print, k.print \in Archive,
         k.then = "retry" \/ k.checkpoint # None => k.source \in Source,
         k.then = "resolve" => k.expected = None /\ k.source = None,
         There(k) => d.source[k.source].print = k.print,
         ~HasOk(j, "retry"),
         HasOk(j, "resolve") => j.reply.reply.disposition # "start"
  PROVE  JobFacts(k)
<1>1. Stages(j) /\ Owns(j) /\ Replay(j) /\ Phased(j) /\ Cancelled(j) /\ Importing(j)
  BY DEF JobFacts
<1>2. ~Has(k) /\ Live(k) /\ \A c : ~HasOk(k, c)
  BY DEF Has, HasOk, Live
<1>3. \A c : Asks(k, c) => k.then \in c
  BY DEF Asks
<1>4. Stages(k)
  BY <1>2, <1>3 DEF Stages, Early, Reading, Commands
<1>5. Replay(k)
  BY <1>1, <1>2, <1>3 DEF Replay
<1>6. Owns(k) /\ Phased(k)
  BY <1>1, <1>2, <1>3 DEF Owns, Phased, Ended
<1>7. Cancelled(k)
  BY <1>1, <1>2, <1>3 DEF Cancelled
<1>8. Importing(k)
  BY <1>1 DEF Importing, Doing
<1> QED BY <1>4, <1>5, <1>6, <1>7, <1>8 DEF JobFacts

LEMMA OpenedKeeps == ASSUME IInv, Opened PROVE IInv'
<1>1. Step("open") /\ Elsewhere /\ worker # "opening"
  BY DEF Opened, Become
<1>2. /\ job.session = None /\ job.source = None /\ job.reply = NoReply /\ job.print \in Archive
      /\ job.checkpoint = None /\ job.next = 1
  BY <1>1, AtStep DEF Stages, Early
<1>3. ~Has(job) /\ \A c : ~HasOk(job, c)
  BY <1>1, AtStep DEF Has, HasOk
<1>4. "ask" \in Pcs /\ "retry" \in Nexts /\ "resolve" \in Nexts /\ job.pc \in Early
  BY <1>1, AtStep DEF Pcs, Nexts, Commands, Early
<1>5. CASE job' = SetPcThen(job, "ask", "resolve") /\ job.expected = None
  <2> DEFINE k == SetPcThen(job, "ask", "resolve")
  <2>1. /\ k \in Jobs /\ k.pc = "ask" /\ k.then = "resolve" /\ k.stamp = job.stamp
        /\ k.reply = job.reply /\ k.expected = job.expected /\ k.cancelled = job.cancelled
        /\ k.signalling = job.signalling /\ k.signalled = job.signalled
        /\ k.print = job.print /\ k.session = job.session /\ k.source = job.source
        /\ k.checkpoint = job.checkpoint /\ k.next = job.next
    BY <1>1, <1>4, AtStep, SetPcThenIs
  <2> HIDE DEF k
  <2>2. JobFacts(k)
    BY <1>1, <1>2, <1>3, <1>5, <2>1, AtStep, AskFacts DEF There
  <2> QED BY <1>1, <1>3, <1>4, <1>5, <2>1, <2>2, AtStep, JobMoves DEF k, Has
<1>6. CASE /\ job.expected # None
           /\ job' = SetExpected(job, "ask", "retry", job.expected.source, job.expected.run)
  <2> DEFINE k == SetExpected(job, "ask", "retry", job.expected.source, job.expected.run)
  <2>1. job.expected \in Expected
    BY <1>1, <1>6, AtStep DEF Jobs, Wanted
  <2>2. /\ job.expected.source \in Source /\ job.expected.source \in Sources
        /\ job.expected.run \in Checkpoints
    BY <2>1 DEF Expected, Sources, Checkpoints
  <2>3. /\ k \in Jobs /\ k.pc = "ask" /\ k.then = "retry" /\ k.stamp = job.stamp
        /\ k.reply = job.reply /\ k.expected = job.expected /\ k.cancelled = job.cancelled
        /\ k.signalling = job.signalling /\ k.signalled = job.signalled
        /\ k.print = job.print /\ k.session = job.session /\ k.source = job.expected.source
        /\ k.next = job.next
    BY <1>1, <1>4, <2>2, AtStep, SetExpectedIs
  <2> HIDE DEF k
  <2>4. There(k) => d.source[k.source].print = k.print
    BY <1>1, <1>6, <2>3, AtStep DEF Owns, Promised, There
  <2>5. JobFacts(k)
    BY <1>1, <1>2, <1>3, <2>2, <2>3, <2>4, AtStep, AskFacts
  <2> QED BY <1>1, <1>3, <1>4, <1>6, <2>3, <2>5, AtStep, JobMoves DEF k, Has
<1>7. CASE \E e \in {"Cancelled", "StorageFailure", "UnavailableKey"} :
              job' = Failed(job, e) /\ (e = "Cancelled" => job.cancelled)
  BY <1>1, <1>2, <1>3, <1>7, AtStep, JobFails DEF Reasons, Has
<1> QED BY <1>5, <1>6, <1>7 DEF Opened, Become, SetPcThen, SetExpected

LEMMA OpenArchiveKeeps == ASSUME IInv, OpenArchive PROVE IInv'
<1>1. /\ job.pc = "open" /\ worker = "none" /\ worker' = "opening"
      /\ UNCHANGED <<d, content, stamp, closed, launcher, job, active, stopped, queue, exit,
                     jobs, others, faults, deaths>>
  BY DEF OpenArchive, Step, fileVars, counts
<1>2. TypeOK'
  BY <1>1 DEF IInv, TypeOK
<1>3. Owner' /\ Queued' /\ Staged'
  BY <1>1 DEF IInv, Owner, Running, Promised, Present, Queued, Staged, Ready, Begins, Stored,
              Receipts
<1>4. Room'
  BY <1>1 DEF IInv, Room, Used, Unresolved, Present, Asks
<1>5. JobFacts(job)'
  <2>1. Importing(job)'
    BY <1>1 DEF Importing
  <2> QED BY <1>1, <2>1, FactsStay DEF IInv
<1> QED BY <1>2, <1>3, <1>4, <1>5 DEF IInv

(* The steps of a job that holds a session whose run is importing.          *)
Mine(k) ==
  There(k) => /\ d.source[k.source].print = k.print
              /\ RunOf(k).session = k.session /\ RunOf(k).phase = "importing"
Replayed(k, n) ==
  k.stamp = stamp /\ There(k) =>
    /\ n <= Len(Batches[k.print]) /\ n <= Len(Receipts(k.source))
    /\ \A i \in 1..n : Receipts(k.source)[i].batch = Batches[k.print][i]

LEMMA FeedingFacts ==
  ASSUME NEW j, JobFacts(j), Live(j), NEW k \in Jobs,
         k.pc \in Reading \/ (k.pc = "ask" /\ k.then \in {"fed", "finish"}),
         k.session # None, k.source \in Source, k.print = j.print, k.print \in Archive,
         k.stamp = j.stamp, k.expected = j.expected, k.cancelled = j.cancelled,
         k.signalling = j.signalling, k.signalled => k.cancelled, Mine(k),
         k.pc \notin {"append", "verified"} => k.reply = NoReply,
         k.pc = "append" => k.reply \in Batch,
         Replayed(k, IF k.pc = "ask" /\ k.then = "fed" THEN k.next ELSE k.next - 1),
         k.stamp = stamp /\ k.pc = "append" =>
           k.next <= Len(Batches[k.print]) /\ k.reply = Batches[k.print][k.next],
         k.stamp = stamp /\ k.pc \in {"verify", "verified"} => k.next > Len(Batches[k.print]),
         k.pc = "ask" /\ k.then = "finish" /\ There(k) => Begins(k.print, k.source),
         \A s : Doing(j, s) => s = k.source
  PROVE  JobFacts(k)
<1>1. Owns(j) /\ Replay(j) /\ Cancelled(j) /\ Importing(j)
  BY DEF JobFacts
<1>2. ~Has(k) /\ Live(k) /\ Feeding(k) /\ ~Closing(k) /\ \A c : ~HasOk(k, c)
  BY DEF Has, HasOk, Live, Feeding, Closing, Reading, Asks
<1>3. /\ ~Asks(k, {"final"}) /\ ~Asks(k, {"cancel", "fail"}) /\ ~Asks(k, {"ended"})
      /\ ~Asks(k, {"cancel", "fail", "ended"}) /\ ~Asks(k, {"resolve", "retry"})
      /\ ~Asks(k, {"resolve"})
      /\ ~Asks(k, {"retry"}) /\ ~Asks(k, {"cancel"}) /\ ~Asks(k, {"fail"})
      /\ Asks(k, {"fed"}) <=> k.pc = "ask" /\ k.then = "fed"
      /\ Asks(k, {"finish"}) <=> k.pc = "ask" /\ k.then = "finish"
      /\ k.pc \notin {"end", "done", "open"} /\ k.pc \notin Early
  BY DEF Asks, Reading, Early
<1>4. Stages(k)
  BY <1>3 DEF Stages, Early, Reading, Commands
<1>5. Replay(k)
  <2>1. Fed(k) = IF k.pc = "ask" /\ k.then = "fed" THEN k.next ELSE k.next - 1
    BY <1>2, <1>3 DEF Fed
  <2> QED BY <1>1, <1>3, <2>1 DEF Replay, Replayed
<1>6. Owns(k)
  BY <1>1, <1>2, <1>3 DEF Owns, Mine
<1>7. Phased(k)
  BY <1>2, <1>3 DEF Phased, Ended, Mine
<1>8. Cancelled(k)
  BY <1>1, <1>2, <1>3 DEF Cancelled
<1>9. Importing(k)
  BY <1>1, <1>2 DEF Importing, Doing
<1> QED BY <1>4, <1>5, <1>6, <1>7, <1>8, <1>9 DEF JobFacts

(* What a job that holds an importing run passes on to its next step.       *)
LEMMA FeedingIs ==
  ASSUME NEW j, JobFacts(j), Live(j), j.session # None, Feeding(j)
  PROVE  /\ j.source \in Source /\ j.print \in Archive /\ Mine(j)
         /\ Replayed(j, Fed(j))
         /\ \A s : Doing(j, s) => s = j.source
         /\ ~HasOk(j, "resolve") /\ ~HasOk(j, "retry")
         /\ j.signalled => j.cancelled
<1>1. Stages(j) /\ Owns(j) /\ Replay(j) /\ Phased(j) /\ Cancelled(j)
  BY DEF JobFacts
<1>2. ~HasOk(j, "resolve") /\ ~HasOk(j, "retry")
  BY <1>1 DEF Stages, HasOk, Has, Asks
<1>3. j.source \in Source /\ j.source # None /\ j.print \in Archive
  BY <1>1, NoneIsNone DEF Stages
<1> QED BY <1>1, <1>2, <1>3 DEF Owns, Phased, Ended, Mine, Replay, Replayed, Doing, Cancelled

LEMMA AtReply ==
  ASSUME IInv, NEW c, Replied(c)
  PROVE  /\ Step("wait") /\ Running /\ Live(job) /\ job.pc = "wait" /\ job.then = c /\ Has(job)
         /\ stamp \in Nat /\ worker # "opening" /\ job.reply \in Answers
         /\ JobFacts(job) /\ job \in Jobs /\ Stages(job) /\ Replay(job) /\ Owns(job)
         /\ Phased(job) /\ Cancelled(job) /\ Importing(job)
         /\ job.pc # "spawned" /\ ~(job.pc = "wait" /\ job.reply = NoReply)
         /\ \A e : HasOk(job, e) <=> e = c /\ job.reply.error = "ok"
         /\ \A e : Asks(job, e) <=> c \in e
<1>1. Step("wait") /\ job.then = c /\ job.reply # NoReply
  BY DEF Replied
<1>2. job.pc = "wait" /\ Stages(job)
  BY <1>1, AtStep
<1>3. Has(job) /\ job.reply \in Answers
  BY <1>1, <1>2 DEF Has, Stages
<1> QED BY <1>1, <1>2, <1>3, AtStep DEF HasOk, Asks

LEMMA AfterResolveKeeps == ASSUME IInv, AfterResolve PROVE IInv'
<1> DEFINE answer == job.reply.reply
           known == SetKnown(job, answer.source, answer.checkpoint, NoReply)
<1>1. Replied("resolve") /\ Elsewhere
  BY DEF AfterResolve, Become
<1>2. job.session = None /\ job.next = 1 /\ job.print \in Archive
  BY <1>1, AtReply DEF Stages, Early
<1>3. CASE job.reply.error # "ok"
  <2>1. job' = Failed(job, "StorageFailure")
    BY <1>3 DEF AfterResolve, Become
  <2>2. ~HasOk(job, "resolve") /\ ~HasOk(job, "retry")
    BY <1>1, <1>3, AtReply
  <2> QED BY <1>1, <1>2, <2>1, <2>2, AtReply, JobFails DEF Reasons
<1>4. CASE job.reply.error = "ok"
  <2>1. /\ answer \in Resolution /\ HasOk(job, "resolve")
        /\ Present(d, answer.source) => d.source[answer.source].print = job.print
        /\ answer.disposition = "start" =>
             /\ answer.checkpoint.session # None
             /\ Present(d, answer.source) =>
                  /\ d.run[answer.source].session = answer.checkpoint.session
                  /\ d.run[answer.source].phase = "importing"
    BY <1>1, <1>4, AtReply DEF Owns
  <2>2. /\ answer.source \in Source /\ answer.checkpoint \in Run
        /\ answer.source \in Sources /\ answer.checkpoint \in Checkpoints /\ NoReply \in Replies
        /\ answer.disposition \in {"start", "ready", "busy", "retry"}
        /\ answer.checkpoint.session \in Sessions
    BY <2>1 DEF Resolution, Sources, Checkpoints, Replies, Run, Sessions
  <2>3. /\ known \in Jobs /\ known.pc = job.pc /\ known.then = job.then /\ known.stamp = job.stamp
        /\ known.reply = NoReply /\ known.expected = job.expected /\ known.cancelled = job.cancelled
        /\ known.signalling = job.signalling /\ known.signalled = job.signalled
        /\ known.print = job.print /\ known.session = job.session
        /\ known.source = answer.source /\ known.next = job.next
    BY <1>1, <2>2, AtReply, SetKnownIs
  <2>4. \A s : Doing(job, s) => answer.disposition = "start" /\ s = answer.source
    BY <1>1, <1>2, <2>1, AtReply DEF Doing
  <2> HIDE DEF known, answer
  <2>5. CASE answer.disposition = "start"
    <3> DEFINE k == SetSession(known, "bind", answer.checkpoint.session)
    <3>1. job' = k
      BY <1>4, <2>5 DEF AfterResolve, Become, SetSession, SetKnown, known, answer
    <3>2. "bind" \in Pcs
      BY DEF Pcs
    <3>3. /\ k \in Jobs /\ k.pc = "bind" /\ k.session = answer.checkpoint.session
          /\ k.stamp = job.stamp /\ k.reply = NoReply /\ k.expected = job.expected
          /\ k.cancelled = job.cancelled /\ k.signalling = job.signalling
          /\ k.signalled = job.signalled /\ k.print = job.print /\ k.source = answer.source
          /\ k.next = job.next
      BY <2>2, <2>3, <3>2, SetSessionIs
    <3> HIDE DEF k
    <3>4. Mine(k)
      BY <2>1, <2>5, <3>3 DEF Mine, There, RunOf, answer
    <3>5. Replayed(k, k.next - 1)
      BY <1>2, <3>3 DEF Replayed
    <3>6. k.session # None /\ (k.signalled => k.cancelled)
      BY <1>1, <2>1, <2>5, <3>3, AtReply DEF Cancelled, answer
    <3>7. JobFacts(k)
      BY <1>1, <1>2, <2>2, <2>4, <2>5, <3>3, <3>4, <3>5, <3>6, AtReply, FeedingFacts DEF Reading
    <3> QED BY <1>1, <3>1, <3>3, <3>7, AtReply, JobMoves DEF Early, Asks
  <2>6. CASE answer.disposition = "retry" /\ job.kind = "adopt"
    <3> DEFINE k == SetPcThen(known, "ask", "retry")
    <3>1. job' = k
      BY <1>4, <2>6 DEF AfterResolve, Become, SetPcThen, SetKnown, known, answer
    <3>2. "ask" \in Pcs /\ "retry" \in Nexts
      BY DEF Pcs, Nexts, Commands
    <3>3. /\ k \in Jobs /\ k.pc = "ask" /\ k.then = "retry" /\ k.session = None
          /\ k.stamp = job.stamp /\ k.reply = NoReply /\ k.expected = job.expected
          /\ k.cancelled = job.cancelled /\ k.signalling = job.signalling
          /\ k.signalled = job.signalled /\ k.print = job.print /\ k.source = answer.source
          /\ k.next = 1
      BY <1>2, <2>3, <3>2, SetPcThenIs
    <3> HIDE DEF k
    <3>4. There(k) => d.source[k.source].print = k.print
      BY <2>1, <3>3 DEF There, answer
    <3>5. JobFacts(k)
      BY <1>1, <1>2, <2>2, <2>6, <3>3, <3>4, AtReply, AskFacts DEF answer
    <3> QED BY <1>1, <3>1, <3>3, <3>5, AtReply, JobMoves DEF Early, Asks
  <2>7. CASE answer.disposition # "start" /\ ~(answer.disposition = "retry" /\ job.kind = "adopt")
    <3>1. job' = Done(known, answer.disposition) /\ answer.disposition \in Outcomes
      BY <1>4, <2>2, <2>7 DEF AfterResolve, Become, SetKnown, known, answer, Outcomes
    <3> DEFINE k == SetPcThen(known, "ask", "retry")
    <3>2. "ask" \in Pcs /\ "retry" \in Nexts
      BY DEF Pcs, Nexts, Commands
    <3>3. /\ k \in Jobs /\ k.pc = "ask" /\ k.then = "retry" /\ k.session = None
          /\ k.stamp = job.stamp /\ k.reply = NoReply /\ k.expected = job.expected
          /\ k.cancelled = job.cancelled /\ k.signalling = job.signalling
          /\ k.signalled = job.signalled /\ k.print = job.print /\ k.source = answer.source
          /\ k.next = 1 /\ k.checkpoint = known.checkpoint
      BY <1>2, <2>3, <3>2, SetPcThenIs
    <3> HIDE DEF k
    <3>4. There(k) => d.source[k.source].print = k.print
      BY <2>1, <3>3 DEF There, answer
    <3>5. JobFacts(k)
      BY <1>1, <1>2, <2>2, <2>7, <3>3, <3>4, AtReply, AskFacts DEF answer
    <3>6. Done(known, answer.disposition) = Done(k, answer.disposition)
      <4>1. k.kind = known.kind
        BY <2>3 DEF k, SetPcThen, Jobs
      <4> QED BY <1>2, <2>3, <3>3, <4>1 DEF Done
    <3>7. worker = "up" /\ faults = 0 => \A s \in Source : d.run[s].phase # "importing"
      BY <1>1, <2>4, <2>7, AtReply DEF Importing
    <3>8. JobFacts(Done(k, answer.disposition))
      BY <1>1, <2>2, <2>7, <3>1, <3>3, <3>5, <3>7, AtReply, DoneFacts
    <3>9. Done(k, answer.disposition).pc = "done"
      BY <3>1, <3>3, DoneIs
    <3> QED BY <1>1, <3>1, <3>6, <3>8, <3>9, AtReply, JobMoves DEF Early, Asks
  <2> QED BY <2>5, <2>6, <2>7
<1> QED BY <1>3, <1>4

LEMMA AfterRetryKeeps == ASSUME IInv, AfterRetry PROVE IInv'
<1> DEFINE unknown == SetUnknown(job, None)
<1>1. Replied("retry") /\ Elsewhere
  BY DEF AfterRetry, Become
<1>2. job.session = None /\ job.next = 1 /\ job.print \in Archive /\ job.source \in Source
  BY <1>1, AtReply DEF Stages, Early
<1>3. CASE job.reply.error # "ok"
  <2>1. PICK e \in {"RetryMismatch", "StorageFailure"} : job' = Failed(unknown, e)
    BY <1>3 DEF AfterRetry, Become, SetUnknown
  <2>2. None \in Checkpoints
    BY DEF Checkpoints
  <2>3. /\ unknown \in Jobs /\ unknown.pc = job.pc /\ unknown.then = job.then
        /\ unknown.stamp = job.stamp /\ unknown.reply = job.reply
        /\ unknown.expected = job.expected /\ unknown.cancelled = job.cancelled
        /\ unknown.signalling = job.signalling /\ unknown.signalled = job.signalled
        /\ unknown.print = job.print /\ unknown.session = job.session
        /\ unknown.source = job.source /\ unknown.next = job.next
        /\ unknown.error = job.error /\ unknown.checkpoint = None
    BY <1>1, <2>2, AtReply, SetUnknownIs
  <2> HIDE DEF unknown
  <2>4. /\ \A c : HasOk(unknown, c) <=> FALSE
        /\ \A c : Asks(unknown, c) <=> Asks(job, c)
        /\ Has(unknown) /\ (There(unknown) <=> There(job)) /\ Live(unknown)
    BY <1>1, <1>3, <2>3, AtReply DEF HasOk, Has, Asks, There, Live
  <2>5. Stages(unknown)
    BY <1>1, <2>3, <2>4, AtReply DEF Stages, Early, Reading
  <2>6. Replay(unknown)
    BY <1>1, <1>2, <2>3, <2>4, AtReply DEF Replay
  <2>7. Owns(unknown) /\ Phased(unknown)
    BY <1>1, <1>2, <2>3, <2>4, AtReply DEF Owns, Phased, Ended
  <2>8. Cancelled(unknown)
    BY <1>1, <2>3, <2>4, AtReply DEF Cancelled
  <2>9. Importing(unknown)
    BY <1>1, <1>2, <1>3, AtReply DEF Importing, Doing
  <2>10. JobFacts(unknown)
    BY <2>3, <2>5, <2>6, <2>7, <2>8, <2>9 DEF JobFacts
  <2> QED BY <1>1, <1>2, <2>1, <2>3, <2>4, <2>10, AtReply, JobFails DEF Reasons
<1>4. CASE job.reply.error = "ok"
  <2> DEFINE k == SetRetried(job, "bind", job.reply.reply.session, NoReply)
  <2>1. job' = k
    BY <1>4 DEF AfterRetry, Become, SetRetried
  <2>2. /\ job.reply.reply \in [session : Nat]
        /\ There(job) => /\ RunOf(job).session = job.reply.reply.session
                         /\ RunOf(job).phase = "importing"
    BY <1>1, <1>4, AtReply DEF Owns
  <2>3. /\ job.reply.reply.session # None /\ job.reply.reply.session \in Sessions
        /\ "bind" \in Pcs /\ NoReply \in Replies
    BY <2>2, NoneIsNone DEF Sessions, Pcs, Replies
  <2>4. /\ k \in Jobs /\ k.pc = "bind" /\ k.session = job.reply.reply.session
        /\ k.stamp = job.stamp /\ k.reply = NoReply /\ k.expected = job.expected
        /\ k.cancelled = job.cancelled /\ k.signalling = job.signalling
        /\ k.signalled = job.signalled /\ k.print = job.print /\ k.source = job.source
        /\ k.next = job.next
    BY <1>1, <2>3, AtReply, SetRetriedIs
  <2> HIDE DEF k
  <2>5. Mine(k)
    BY <1>1, <2>2, <2>4, AtReply DEF Mine, There, RunOf, Owns
  <2>6. Replayed(k, k.next - 1)
    BY <1>2, <2>4 DEF Replayed
  <2>7. k.signalled => k.cancelled
    BY <1>1, <2>4, AtReply DEF Cancelled
  <2>8. \A s : Doing(job, s) => s = k.source
    BY <1>1, <1>2, <2>4, AtReply DEF Doing
  <2>9. JobFacts(k)
    BY <1>1, <1>2, <2>3, <2>4, <2>5, <2>6, <2>7, <2>8, AtReply, FeedingFacts DEF Reading
  <2> QED BY <1>1, <2>1, <2>4, <2>9, AtReply, JobMoves DEF Early, Asks
<1> QED BY <1>3, <1>4

(* Steps at which the run of the job is importing.                          *)
LEMMA AtReading ==
  ASSUME IInv, NEW p \in Reading, Step(p)
  PROVE  /\ job.session # None /\ Feeding(job) /\ ~Has(job) /\ Fed(job) = job.next - 1
         /\ job.source \in Source /\ job.print \in Archive /\ Mine(job)
         /\ Replayed(job, job.next - 1)
         /\ \A s : Doing(job, s) => s = job.source
         /\ \A c : ~HasOk(job, c) /\ ~Asks(job, c)
         /\ job.signalled => job.cancelled
         /\ job.pc \notin {"none", "spawned", "wait", "ask", "done", "end"} /\ job.pc \notin Early
         /\ worker # "opening" /\ p # "open"
<1>1. /\ job.pc = p /\ JobFacts(job) /\ Live(job) /\ Stages(job) /\ p # "open"
      /\ p \notin {"none", "spawned", "wait", "ask", "done", "end"} /\ p \notin Early
  BY AtStep DEF Reading, Early
<1>2. worker # "opening"
  BY <1>1, AtStep
<1>3. job.session # None /\ Feeding(job)
  BY <1>1 DEF Stages, Feeding
<1>4. ~Has(job) /\ \A c : ~HasOk(job, c) /\ ~Asks(job, c)
  BY <1>1 DEF Has, HasOk, Asks
<1>5. Fed(job) = job.next - 1
  BY <1>4 DEF Fed
<1> QED BY <1>1, <1>2, <1>3, <1>4, <1>5, FeedingIs

(* While its run is importing a job may fail for any reason.                *)
LEMMA ReadingFails ==
  ASSUME IInv, Elsewhere, NEW p \in Reading, Step(p), NEW e \in Reasons,
         job' = Failed(job, e), e = "Cancelled" => job.cancelled
  PROVE  IInv'
BY AtStep, AtReading, JobFails DEF Mine

LEMMA BindKeeps == ASSUME IInv, Bind PROVE IInv'
<1>0. Step("bind") /\ Elsewhere /\ "bind" \in Reading
  BY DEF Bind, Become, Reading
<1>1. PICK g \in Flags : g = job.cancelled
  BY <1>0, AtStep DEF Jobs
<1> DEFINE k == SetBound(job, "bound", g)
<1>2. job' = k /\ "bound" \in Pcs
  BY <1>1 DEF Pcs, Bind, Become, SetBound
<1>3. /\ k \in Jobs /\ k.pc = "bound" /\ k.session = job.session
      /\ k.stamp = job.stamp /\ k.reply = job.reply /\ k.expected = job.expected
      /\ k.cancelled = job.cancelled /\ k.signalling = job.signalling
      /\ k.signalled = g /\ k.print = job.print /\ k.source = job.source
      /\ k.next = job.next
  BY <1>0, <1>2, AtStep, SetBoundIs
<1> HIDE DEF k
<1>4. Mine(k) /\ Replayed(k, k.next - 1)
  BY <1>0, <1>3, AtReading DEF Mine, Replayed, There, RunOf
<1>5. job.reply = NoReply
  BY <1>0, AtStep DEF Stages
<1>6. JobFacts(k)
  BY <1>0, <1>1, <1>3, <1>4, <1>5, AtStep, AtReading, FeedingFacts DEF Reading
<1> QED BY <1>0, <1>2, <1>3, <1>6, AtStep, AtReading, JobMoves DEF Early, Asks

LEMMA BoundKeeps == ASSUME IInv, Bound PROVE IInv'
<1> DEFINE k == SetPc(job, "feed")
<1>1. Step("bound") /\ Elsewhere /\ "bound" \in Reading
  BY DEF Bound, Become, Reading
<1>2. CASE job.cancelled
  <2>1. job' = Failed(job, "Cancelled")
    BY <1>2 DEF Bound, Become
  <2> QED BY <1>1, <1>2, <2>1, ReadingFails DEF Reasons
<1>3. CASE ~job.cancelled
  <2>1. job' = k
    BY <1>3 DEF Bound, Become, SetPc
  <2>2. "feed" \in Pcs
    BY DEF Pcs
  <2>3. /\ k \in Jobs /\ k.pc = "feed" /\ k.session = job.session
        /\ k.stamp = job.stamp /\ k.reply = job.reply /\ k.expected = job.expected
        /\ k.cancelled = job.cancelled /\ k.signalling = job.signalling
        /\ k.signalled = job.signalled /\ k.print = job.print /\ k.source = job.source
        /\ k.next = job.next
    BY <1>1, <2>2, AtStep, SetPcIs
  <2> HIDE DEF k
  <2>4. Mine(k) /\ Replayed(k, k.next - 1)
    BY <1>1, <2>3, AtReading DEF Mine, Replayed, There, RunOf
  <2>5. job.reply = NoReply
    BY <1>1, AtStep DEF Stages
  <2>6. JobFacts(k)
    BY <1>1, <2>3, <2>4, <2>5, AtStep, AtReading, FeedingFacts DEF Reading
  <2> QED BY <1>1, <2>1, <2>3, <2>6, AtStep, AtReading, JobMoves DEF Early, Asks
<1> QED BY <1>2, <1>3

LEMMA FeedKeeps == ASSUME IInv, Feed PROVE IInv'
<1>1. Step("feed") /\ Elsewhere /\ "feed" \in Reading
  BY DEF Feed, Become, Reading
<1>2. CASE \E e \in {"Cancelled", "InvalidArchive"} :
              job' = Failed(job, e) /\ (e = "Cancelled" => job.cancelled)
  BY <1>1, <1>2, ReadingFails DEF Reasons
<1>3. content \in Archive
  BY <1>1, AtStep
<1>4. /\ \A i \in 1..Len(Batches[content]) : Batches[content][i] \in Batch
      /\ Len(Batches[content]) \in Nat
  BY <1>3, BatchesAreBatches
<1>5. /\ job.next \in Nat \ {0} /\ job.print # None /\ job.reply = NoReply
      /\ job.stamp = stamp => content = job.print
  BY <1>1, AtStep, AtReading, NoneIsNone DEF Jobs, Positions, Stages, Replay
<1>6. CASE /\ job.next <= Len(Batches[content])
           /\ job' = SetPcReply(job, "append", Batches[content][job.next])
  <2> DEFINE k == SetPcReply(job, "append", Batches[content][job.next])
  <2>1. Batches[content][job.next] \in Batch
    BY <1>4, <1>5, <1>6
  <2>2. Batches[content][job.next] \in Replies /\ "append" \in Pcs
    BY <2>1 DEF Replies, Pcs
  <2>3. /\ k \in Jobs /\ k.pc = "append" /\ k.session = job.session
        /\ k.stamp = job.stamp /\ k.reply = Batches[content][job.next]
        /\ k.expected = job.expected /\ k.cancelled = job.cancelled
        /\ k.signalling = job.signalling /\ k.signalled = job.signalled
        /\ k.print = job.print /\ k.source = job.source /\ k.next = job.next
    BY <1>1, <2>2, AtStep, SetPcReplyIs
  <2> HIDE DEF k
  <2>4. Mine(k) /\ Replayed(k, k.next - 1)
    BY <1>1, <2>3, AtReading DEF Mine, Replayed, There, RunOf
  <2>5. k.stamp = stamp => k.next <= Len(Batches[k.print]) /\ k.reply = Batches[k.print][k.next]
    BY <1>5, <1>6, <2>3
  <2>6. JobFacts(k)
    BY <1>1, <2>1, <2>3, <2>4, <2>5, AtStep, AtReading, FeedingFacts DEF Reading
  <2> QED BY <1>1, <1>6, <2>3, <2>6, AtStep, AtReading, JobMoves DEF Early, Asks, k
<1>7. CASE /\ job.next > Len(Batches[content])
           /\ job' = SetPcReply(job, "verify", NoReply)
  <2> DEFINE k == SetPcReply(job, "verify", NoReply)
  <2>1. NoReply \in Replies /\ "verify" \in Pcs
    BY DEF Replies, Pcs
  <2>2. /\ k \in Jobs /\ k.pc = "verify" /\ k.session = job.session
        /\ k.stamp = job.stamp /\ k.reply = NoReply /\ k.expected = job.expected
        /\ k.cancelled = job.cancelled /\ k.signalling = job.signalling
        /\ k.signalled = job.signalled /\ k.print = job.print /\ k.source = job.source
        /\ k.next = job.next
    BY <1>1, <2>1, AtStep, SetPcReplyIs
  <2> HIDE DEF k
  <2>3. Mine(k) /\ Replayed(k, k.next - 1)
    BY <1>1, <2>2, AtReading DEF Mine, Replayed, There, RunOf
  <2>4. k.stamp = stamp => k.next > Len(Batches[k.print])
    BY <1>5, <1>7, <2>2
  <2>5. JobFacts(k)
    BY <1>1, <2>2, <2>3, <2>4, AtStep, AtReading, FeedingFacts DEF Reading
  <2> QED BY <1>1, <1>7, <2>2, <2>5, AtStep, AtReading, JobMoves DEF Early, Asks, k
<1>8. CASE job.stamp # stamp /\ Become(Failed(job, "InvalidArchive"))
  BY <1>2, <1>8 DEF Become
<1>9. CASE ~job.cancelled /\ job.next > Len(Batches[content])
           /\ ~(job.stamp # stamp /\ Become(Failed(job, "InvalidArchive")))
  BY <1>7, <1>9 DEF Feed, Become, SetPcReply
<1>10. CASE ~job.cancelled /\ ~(job.next > Len(Batches[content]))
           /\ ~(job.stamp # stamp /\ Become(Failed(job, "InvalidArchive")))
  <2>1. job.next <= Len(Batches[content])
    BY <1>4, <1>5, <1>10
  <2> QED BY <1>6, <1>10, <2>1 DEF Feed, Become, SetPcReply
<1>11. CASE job.cancelled /\ ~(job.stamp # stamp /\ Become(Failed(job, "InvalidArchive")))
  BY <1>2, <1>11 DEF Feed, Become
<1> QED BY <1>8, <1>9, <1>10, <1>11

LEMMA AppendGiveUpKeeps == ASSUME IInv, AppendGiveUp PROVE IInv'
<1>1. Step("append") /\ Elsewhere /\ "append" \in Reading /\ job' = Failed(job, "Cancelled")
  BY DEF AppendGiveUp, Become, Reading
<1>2. ~stopped
  BY <1>1, AtStep DEF IInv, Owner
<1>3. job.cancelled
  BY <1>1, <1>2, AtStep, AtReading DEF AppendGiveUp
<1> QED BY <1>1, <1>3, ReadingFails DEF Reasons

LEMMA VerifyKeeps == ASSUME IInv, Verify PROVE IInv'
<1>1. Step("verify") /\ Elsewhere /\ "verify" \in Reading
  BY DEF Verify, Become, Reading
<1>2. CASE \E e \in {"Cancelled", "InputChanged"} :
              job' = Failed(job, e) /\ (e = "Cancelled" => job.cancelled)
  BY <1>1, <1>2, ReadingFails DEF Reasons
<1>3. CASE job' = SetPcReply(job, "verified", content)
  <2> DEFINE k == SetPcReply(job, "verified", content)
  <2>1. content \in Replies /\ "verified" \in Pcs
    BY <1>1, AtStep DEF Replies, Pcs
  <2>2. /\ k \in Jobs /\ k.pc = "verified" /\ k.session = job.session
        /\ k.stamp = job.stamp /\ k.expected = job.expected
        /\ k.cancelled = job.cancelled /\ k.signalling = job.signalling
        /\ k.signalled = job.signalled /\ k.print = job.print /\ k.source = job.source
        /\ k.next = job.next
    BY <1>1, <2>1, AtStep, SetPcReplyIs
  <2> HIDE DEF k
  <2>3. Mine(k) /\ Replayed(k, k.next - 1)
    BY <1>1, <2>2, AtReading DEF Mine, Replayed, There, RunOf
  <2>4. k.stamp = stamp => k.next > Len(Batches[k.print])
    BY <1>1, <2>2, AtStep DEF Replay
  <2>5. JobFacts(k)
    BY <1>1, <2>2, <2>3, <2>4, AtStep, AtReading, FeedingFacts DEF Reading
  <2> QED BY <1>1, <1>3, <2>2, <2>5, AtStep, AtReading, JobMoves DEF Early, Asks, k
<1> QED BY <1>2, <1>3 DEF Verify, Become, SetPcReply

(* A file that passes the last look has been fed in full.                   *)
LEMMA VerifiedKeeps == ASSUME IInv, Verified PROVE IInv'
<1>1. Step("verified") /\ Elsewhere /\ "verified" \in Reading
  BY DEF Verified, Become, Reading
<1>2. CASE \E e \in {"Cancelled", "InputChanged"} :
              job' = Failed(job, e) /\ (e = "Cancelled" => job.cancelled)
  BY <1>1, <1>2, ReadingFails DEF Reasons
<1>3. CASE Unchanged(job) /\ job' = SetAsk(job, "ask", "finish", NoReply)
  <2> DEFINE k == SetAsk(job, "ask", "finish", NoReply)
  <2>1. NoReply \in Replies /\ "ask" \in Pcs /\ "finish" \in Nexts
    BY DEF Replies, Pcs, Nexts, Commands
  <2>2. /\ k \in Jobs /\ k.pc = "ask" /\ k.then = "finish" /\ k.session = job.session
        /\ k.stamp = job.stamp /\ k.reply = NoReply /\ k.expected = job.expected
        /\ k.cancelled = job.cancelled /\ k.signalling = job.signalling
        /\ k.signalled = job.signalled /\ k.print = job.print /\ k.source = job.source
        /\ k.next = job.next
    BY <1>1, <2>1, AtStep, SetAskIs
  <2> HIDE DEF k
  <2>3. Mine(k) /\ Replayed(k, k.next - 1)
    BY <1>1, <2>2, AtReading DEF Mine, Replayed, There, RunOf
  <2>4. There(k) => Begins(k.print, k.source)
    <3>1. /\ job.stamp = stamp /\ job.next > Len(Batches[job.print]) /\ job.next \in Nat
          /\ Len(Batches[job.print]) \in Nat
      BY <1>1, <1>3, AtStep, AtReading, BatchesAreBatches
         DEF Unchanged, Replay, Jobs, Positions
    <3>2. SUFFICES ASSUME There(k), NEW i \in 1..Len(Batches[job.print])
                   PROVE  /\ i <= Len(Receipts(job.source))
                          /\ Receipts(job.source)[i].batch = Batches[job.print][i]
      BY <2>2 DEF Begins
    <3>3. /\ job.next - 1 <= Len(Batches[job.print])
          /\ job.next - 1 <= Len(Receipts(job.source))
          /\ \A n \in 1..(job.next - 1) :
               Receipts(job.source)[n].batch = Batches[job.print][n]
      BY <1>1, <2>2, <3>1, <3>2, AtReading DEF Replayed, There
    <3>4. job.next - 1 = Len(Batches[job.print])
      BY <3>1, <3>3
    <3> QED BY <3>1, <3>3, <3>4
  <2>5. JobFacts(k)
    BY <1>1, <2>2, <2>3, <2>4, AtStep, AtReading, FeedingFacts
  <2> QED BY <1>1, <1>3, <2>2, <2>5, AtStep, AtReading, JobMoves DEF Early, Asks, k
<1> QED BY <1>2, <1>3 DEF Verified, Become, SetAsk, Unchanged


(* A command of the job goes to the worker, which has no other of it.       *)
LEMMA JobSends ==
  ASSUME IInv, Running, job.pc \notin {"spawned", "wait"}, worker # "opening",
         NEW k, JobFacts(k), job' = k, NEW e \in Entry, queue' = Append(queue, e),
         UNCHANGED <<d, fileVars, closed, launcher, active, worker, stopped, exit, counts>>,
         k.pc = "wait", k.reply = NoReply, k.then = e.command, e.command # "other",
         k.then = "append" =>
           /\ e.batch \in Batch
           /\ k.stamp = stamp => /\ k.next <= Len(Batches[k.print])
                                 /\ e.batch = Batches[k.print][k.next],
         k.then = "resolve" => Unresolved
  PROVE  IInv'
<1>1. UNCHANGED <<d, content, stamp, closed, launcher, active, worker, stopped, exit,
                  jobs, others, faults, deaths>>
  BY DEF fileVars, counts
<1>2. JobFacts(job)'
  BY <1>1, FactsKept
<1>3. queue \in Seq(Entry)
  BY DEF IInv, TypeOK
<1>4. TypeOK'
  <2>1. queue' \in Seq(Entry)
    BY <1>3
  <2> QED BY <1>1, <2>1 DEF IInv, TypeOK, JobFacts
<1>5. Owner'
  BY <1>1 DEF IInv, Owner, Running, Promised, Present
<1>6. Queued'
  <2>1. /\ Len(queue') = Len(queue) + 1 /\ Len(queue) \in Nat
        /\ \A i \in 1..Len(queue) : queue'[i] = queue[i] /\ queue[i].command = "other"
        /\ queue'[Len(queue) + 1] = e
    BY <1>3 DEF IInv, Queued
  <2>2. SUFFICES ASSUME NEW i \in 1..Len(queue'), queue'[i].command # "other"
                 PROVE  /\ k.pc = "wait" /\ k.reply = NoReply /\ k.then = queue'[i].command
                        /\ \A n \in 1..Len(queue') : queue'[n].command # "other" => n = i
                        /\ k.then = "append" =>
                             /\ queue'[i].batch \in Batch
                             /\ k.stamp = stamp =>
                                  /\ k.next <= Len(Batches[k.print])
                                  /\ queue'[i].batch = Batches[k.print][k.next]
    BY <1>1 DEF Queued
  <2>3. i = Len(queue) + 1
    BY <2>1, <2>2
  <2> QED BY <2>1, <2>3
<1>7. Staged'
  BY <1>1 DEF IInv, Staged, Present, Ready, Begins, Stored, Receipts
<1>8. Room'
  <2>1. Used' = Used
    BY <1>1 DEF Used, Present
  <2>2. Unresolved' => Unresolved
    BY <1>1 DEF Unresolved, Running, Early, Asks
  <2>3. Cardinality(Used) \in Nat /\ jobs \in Nat
    BY FS_CardinalityType DEF IInv, Room, TypeOK
  <2> QED BY <1>1, <2>1, <2>2, <2>3 DEF IInv, Room
<1> QED BY <1>2, <1>4, <1>5, <1>6, <1>7, <1>8 DEF IInv

LEMMA AppendQueueKeeps == ASSUME IInv, AppendQueue PROVE IInv'
<1> DEFINE k == SetAsk(job, "wait", "append", NoReply)
           e == [command |-> "append", batch |-> job.reply, removes |-> None]
<1>1. Step("append") /\ "append" \in Reading /\ job' = k /\ queue' = Append(queue, e)
  BY DEF AppendQueue, Reading, SetAsk
<1>2. NoReply \in Replies /\ "wait" \in Pcs /\ "append" \in Nexts
  BY DEF Replies, Pcs, Nexts, Commands
<1>3. /\ k \in Jobs /\ k.pc = "wait" /\ k.then = "append" /\ k.reply = NoReply
      /\ k.session = job.session /\ k.stamp = job.stamp /\ k.expected = job.expected
      /\ k.cancelled = job.cancelled /\ k.signalling = job.signalling
      /\ k.signalled = job.signalled /\ k.print = job.print /\ k.source = job.source
      /\ k.next = job.next
  BY <1>1, <1>2, AtStep, SetAskIs
<1> HIDE DEF k
<1>4. /\ ~Has(k) /\ Live(k) /\ Feeding(k) /\ (There(k) <=> There(job))
      /\ \A c : ~HasOk(k, c) /\ (Asks(k, c) <=> "append" \in c)
      /\ k.pc \notin Early \cup Reading
  BY <1>3 DEF Has, HasOk, Live, Feeding, There, Asks, Early, Reading
<1>5. job.reply \in Batch /\ e \in Entry
  BY <1>1, AtStep DEF Stages, Entry, Commands
<1>6. JobFacts(k)
  <2>1. Stages(k)
    BY <1>1, <1>3, <1>4, AtReading DEF Stages, Commands
  <2>2. Replay(k)
    <3>1. Fed(k) = k.next - 1
      BY <1>4 DEF Fed
    <3> QED BY <1>1, <1>3, <1>4, <3>1, AtStep, AtReading DEF Replay, Replayed
  <2>3. Owns(k)
    BY <1>1, <1>3, <1>4, AtStep, AtReading DEF Owns, RunOf
  <2>4. Phased(k)
    BY <1>1, <1>3, <1>4, AtReading DEF Phased, Ended, Mine, RunOf, Closing
  <2>5. Cancelled(k)
    BY <1>1, <1>3, <1>4, AtStep DEF Cancelled
  <2>6. Importing(k)
    BY <1>1, <1>3, <1>4, AtStep, AtReading DEF Importing, Doing
  <2> QED BY <1>3, <2>1, <2>2, <2>3, <2>4, <2>5, <2>6 DEF JobFacts
<1>7. job.stamp = stamp => /\ job.next <= Len(Batches[job.print])
                           /\ job.reply = Batches[job.print][job.next]
  BY <1>1, AtStep DEF Replay
<1>8. UNCHANGED <<d, fileVars, closed, launcher, active, worker, stopped, exit, counts>>
  BY DEF AppendQueue
<1> HIDE DEF e
<1>9. e.command = "append" /\ e.batch = job.reply
  BY DEF e
<1> QED BY <1>1, <1>3, <1>5, <1>6, <1>7, <1>8, <1>9, AtStep, AtReading, JobSends

LEMMA AskQueueKeeps == ASSUME IInv, AskQueue PROVE IInv'
<1> DEFINE k == SetPc(job, "wait")
           e == [command |-> job.then, batch |-> None, removes |-> None]
<1>1. Step("ask") /\ job' = k /\ queue' = Append(queue, e)
  BY DEF AskQueue, SetPc
<1>2. job.reply = NoReply /\ job.then \in Commands /\ job.then # "append" /\ "wait" \in Pcs
  BY <1>1, AtStep DEF Stages, Pcs
<1>3. /\ k \in Jobs /\ k.pc = "wait" /\ k.then = job.then /\ k.reply = job.reply
      /\ k.session = job.session /\ k.stamp = job.stamp /\ k.expected = job.expected
      /\ k.cancelled = job.cancelled /\ k.signalling = job.signalling
      /\ k.signalled = job.signalled /\ k.print = job.print /\ k.source = job.source
      /\ k.next = job.next /\ k.error = job.error /\ k.checkpoint = job.checkpoint
  BY <1>1, <1>2, AtStep, SetPcIs
<1> HIDE DEF k
<1>4. /\ ~Has(k) /\ ~Has(job) /\ (There(k) <=> There(job)) /\ Live(k) /\ Live(job)
      /\ \A c : ~HasOk(k, c) /\ ~HasOk(job, c) /\ (Asks(k, c) <=> Asks(job, c))
      /\ k.pc \notin Early /\ job.pc \notin Early /\ k.pc \notin Reading /\ job.pc \notin Reading
      /\ Fed(k) = Fed(job) /\ job.pc = "ask"
  BY <1>1, <1>2, <1>3, AtStep DEF Has, HasOk, There, Live, Asks, Early, Reading, Fed
<1>5. Feeding(k) = Feeding(job) /\ Closing(k) = Closing(job)
  BY <1>3, <1>4 DEF Feeding, Closing
<1>6. JobFacts(k)
  <2>1. Stages(k)
    BY <1>1, <1>2, <1>3, <1>4, AtStep DEF Stages
  <2>2. Replay(k)
    BY <1>1, <1>3, <1>4, AtStep DEF Replay
  <2>3. Owns(k) /\ Phased(k)
    BY <1>1, <1>3, <1>4, <1>5, AtStep DEF Owns, RunOf, Phased, Ended
  <2>4. Cancelled(k)
    BY <1>1, <1>3, <1>4, AtStep DEF Cancelled
  <2>5. Importing(k)
    BY <1>1, <1>3, <1>4, <1>5, AtStep DEF Importing, Doing
  <2> QED BY <1>3, <2>1, <2>2, <2>3, <2>4, <2>5 DEF JobFacts
<1>7. e \in Entry /\ e.command = job.then
  BY <1>2 DEF Entry
<1>8. UNCHANGED <<d, fileVars, closed, launcher, active, worker, stopped, exit, counts>>
  BY DEF AskQueue
<1>9. job.then = "resolve" => Unresolved
  BY <1>2, <1>4 DEF Unresolved, Asks
<1>10. job.then # "other"
  BY <1>2 DEF Commands
<1> HIDE DEF e
<1> QED BY <1>1, <1>2, <1>3, <1>4, <1>6, <1>7, <1>8, <1>9, <1>10, AtStep, JobSends

(* What Converted makes of an error.                                        *)
LEMMA ConvertedIs ==
  ASSUME NEW e \in Errors
  PROVE  /\ Converted(e) \in Reasons
         /\ Converted(e) = "Cancelled" => e = "Cancelled"
         /\ e \in {"ok", "ScopeMismatch", "StaleCursor", "StorageFailure", "IncompleteSource"}
              => Converted(e) = "StorageFailure"
BY DEF Converted, Errors, Reasons

LEMMA AfterAppendKeeps == ASSUME IInv, AfterAppend PROVE IInv'
<1>1. Replied("append") /\ Elsewhere
  BY DEF AfterAppend, Become
<1>2. /\ job.session # None /\ Feeding(job) /\ job.source \in Source /\ job.print \in Archive
      /\ Mine(job) /\ Replayed(job, Fed(job)) /\ (\A s : Doing(job, s) => s = job.source)
      /\ ~HasOk(job, "resolve") /\ ~HasOk(job, "retry") /\ (job.signalled => job.cancelled)
  <2>1. job.session # None /\ Feeding(job)
    BY <1>1, AtReply DEF Stages, Commands, Feeding
  <2> QED BY <1>1, <2>1, AtReply, FeedingIs
<1>3. CASE job.reply.error # "ok"
  <2>1. job' = Failed(job, Converted(job.reply.error)) /\ job.reply.error \in Errors
    BY <1>1, <1>3, AtReply DEF AfterAppend, Become, Answers
  <2>2. job.reply.error = "Cancelled" => job.cancelled
    BY <1>1, AtReply DEF Cancelled
  <2> QED BY <1>1, <1>2, <2>1, <2>2, AtReply, ConvertedIs, JobFails DEF Mine
<1>4. CASE job.reply.error = "ok"
  <2> DEFINE k == SetAsk(job, "ask", "fed", NoReply)
  <2>1. job' = k
    BY <1>4 DEF AfterAppend, Become, SetAsk
  <2>2. NoReply \in Replies /\ "ask" \in Pcs /\ "fed" \in Nexts
    BY DEF Replies, Pcs, Nexts, Commands
  <2>3. /\ k \in Jobs /\ k.pc = "ask" /\ k.then = "fed" /\ k.session = job.session
        /\ k.stamp = job.stamp /\ k.reply = NoReply /\ k.expected = job.expected
        /\ k.cancelled = job.cancelled /\ k.signalling = job.signalling
        /\ k.signalled = job.signalled /\ k.print = job.print /\ k.source = job.source
        /\ k.next = job.next
    BY <1>1, <2>2, AtReply, SetAskIs
  <2> HIDE DEF k
  <2>4. Fed(job) = job.next
    BY <1>1, <1>4, AtReply DEF Fed
  <2>5. Mine(k) /\ Replayed(k, k.next)
    BY <1>2, <2>3, <2>4 DEF Mine, Replayed, There, RunOf
  <2>6. JobFacts(k)
    BY <1>1, <1>2, <2>3, <2>5, AtReply, FeedingFacts
  <2> QED BY <1>1, <2>1, <2>3, <2>6, AtReply, JobMoves DEF Early, Asks
<1> QED BY <1>3, <1>4

LEMMA AfterFedKeeps == ASSUME IInv, AfterFed PROVE IInv'
<1>1. Replied("fed") /\ Elsewhere
  BY DEF AfterFed, Become
<1>2. /\ job.session # None /\ Feeding(job) /\ job.source \in Source /\ job.print \in Archive
      /\ Mine(job) /\ Replayed(job, Fed(job)) /\ (\A s : Doing(job, s) => s = job.source)
      /\ ~HasOk(job, "resolve") /\ ~HasOk(job, "retry") /\ (job.signalled => job.cancelled)
  <2>1. job.session # None /\ Feeding(job)
    BY <1>1, AtReply DEF Stages, Commands, Feeding
  <2> QED BY <1>1, <2>1, AtReply, FeedingIs
<1>3. CASE job.reply.error # "ok" \/ job.reply.reply = None
  <2>1. job' = Failed(job, Converted(job.reply.error)) /\ job.reply.error \in Errors
    BY <1>1, <1>3, AtReply DEF AfterFed, Become, Answers
  <2>2. job.reply.error # "Cancelled"
    BY <1>1, AtReply DEF Cancelled
  <2> QED BY <1>1, <1>2, <2>1, <2>2, AtReply, ConvertedIs, JobFails DEF Mine
<1>4. CASE job.reply.error = "ok" /\ job.reply.reply # None
  <2> DEFINE k == SetFed(job, job.reply.reply, job.next + 1, "feed", NoReply)
  <2>1. job' = IF job.cancelled THEN Failed(k, "Cancelled") ELSE k
    BY <1>4 DEF AfterFed, Become, SetFed
  <2>2. job.reply.reply \in Checkpoints
    BY <1>1, <1>4, AtReply DEF Owns, Checkpoints
  <2>3. NoReply \in Replies /\ "feed" \in Pcs /\ job.next + 1 \in Positions /\ job.next \in Nat \ {0}
    BY <1>1, AtReply DEF Replies, Pcs, Positions, Jobs
  <2>4. /\ k \in Jobs /\ k.pc = "feed" /\ k.session = job.session
        /\ k.stamp = job.stamp /\ k.reply = NoReply /\ k.expected = job.expected
        /\ k.cancelled = job.cancelled /\ k.signalling = job.signalling
        /\ k.signalled = job.signalled /\ k.print = job.print /\ k.source = job.source
        /\ k.next = job.next + 1
    BY <1>1, <2>2, <2>3, AtReply, SetFedIs
  <2> HIDE DEF k
  <2>5. Fed(job) = job.next /\ k.next - 1 = job.next
    BY <1>1, <2>3, <2>4, AtReply DEF Fed
  <2>6. Mine(k) /\ Replayed(k, k.next - 1)
    BY <1>2, <2>4, <2>5 DEF Mine, Replayed, There, RunOf
  <2>7. JobFacts(k) /\ Live(k) /\ ~HasOk(k, "resolve") /\ ~HasOk(k, "retry")
    BY <1>1, <1>2, <2>4, <2>6, AtReply, FeedingFacts DEF Reading, Live, HasOk, Has
  <2>8. CASE job.cancelled
    <3>1. There(k) => RunOf(k).phase = "importing"
      BY <2>6 DEF Mine
    <3> QED BY <1>1, <2>1, <2>4, <2>7, <2>8, <3>1, AtReply, JobFails DEF Reasons
  <2>9. CASE ~job.cancelled
    BY <1>1, <2>1, <2>4, <2>7, <2>9, AtReply, JobMoves DEF Early, Asks
  <2> QED BY <2>8, <2>9
<1> QED BY <1>3, <1>4

(* A job that has fed all it could asks for the end of its run.             *)
LEMMA EndingFacts ==
  ASSUME NEW j, JobFacts(j), Live(j), j.session # None, Fed(j) = j.next - 1, NEW k \in Jobs,
         k.pc = "ask", k.then \in {"final", "cancel", "fail", "ended"}, k.reply = NoReply,
         k.session = j.session, k.source = j.source, k.print = j.print, k.next = j.next,
         k.stamp = j.stamp, k.expected = j.expected, k.cancelled = j.cancelled,
         k.signalling = j.signalling, k.signalled => k.cancelled,
         k.then # "final" => k.error \in Reasons,
         k.then # "final" /\ k.error = "Cancelled" => k.cancelled,
         k.then = "cancel" => k.error = "Cancelled",
         k.then = "fail" => k.error # "Cancelled",
         Phased(k), Importing(k)
  PROVE  JobFacts(k)
<1>1. Stages(j) /\ Owns(j) /\ Replay(j) /\ Cancelled(j)
  BY DEF JobFacts
<1>2. /\ ~Has(k) /\ Live(k) /\ (There(k) <=> There(j)) /\ k.pc \notin Early \cup Reading
      /\ \A c : ~HasOk(k, c) /\ (Asks(k, c) <=> k.then \in c)
  BY DEF Has, HasOk, Live, There, Asks, Early, Reading
<1>3. Fed(k) = Fed(j)
  BY <1>2 DEF Fed
<1>4. j.source \in Source /\ j.print \in Archive
  <2>1. j.source \in Source /\ j.source # None
    BY <1>1, NoneIsNone DEF Stages
  <2> QED BY <1>1, <2>1 DEF Stages
<1>5. Stages(k)
  BY <1>2, <1>4 DEF Stages, Commands
<1>6. Replay(k)
  BY <1>1, <1>2, <1>3 DEF Replay
<1>7. Owns(k)
  BY <1>1, <1>2 DEF Owns, RunOf
<1>8. Cancelled(k)
  BY <1>1, <1>2 DEF Cancelled
<1> QED BY <1>5, <1>6, <1>7, <1>8 DEF JobFacts

LEMMA AfterFinishKeeps == ASSUME IInv, AfterFinish PROVE IInv'
<1>1. Replied("finish") /\ Elsewhere
  BY DEF AfterFinish, Become
<1>2. /\ job.session # None /\ ~HasOk(job, "resolve") /\ ~HasOk(job, "retry")
      /\ (job.signalled => job.cancelled)
  BY <1>1, AtReply DEF Stages, Commands, Cancelled
<1>3. CASE job.reply.error # "ok"
  <2>1. job' = Failed(job, Converted(job.reply.error)) /\ job.reply.error \in Errors
    BY <1>1, <1>3, AtReply DEF AfterFinish, Become, Answers
  <2>2. job.reply.error = "Cancelled" => job.cancelled
    BY <1>1, AtReply DEF Cancelled
  <2>3. There(job) /\ Converted(job.reply.error) # "StorageFailure"
          => RunOf(job).phase = "importing"
    <3>1. Converted(job.reply.error) # "StorageFailure"
            => job.reply.error \notin {"ok", "IncompleteSource"}
      BY <2>1, ConvertedIs
    <3>2. job.reply.error \notin {"ok", "IncompleteSource"} => Feeding(job)
      BY <1>1, AtReply DEF Feeding
    <3> QED BY <1>1, <1>2, <3>1, <3>2, AtReply DEF Phased, Ended
  <2> QED BY <1>1, <1>2, <2>1, <2>2, <2>3, AtReply, ConvertedIs, JobFails
<1>4. CASE job.reply.error = "ok"
  <2> DEFINE k == SetAsk(job, "ask", "final", NoReply)
  <2>1. job' = k
    BY <1>4 DEF AfterFinish, Become, SetAsk
  <2>2. NoReply \in Replies /\ "ask" \in Pcs /\ "final" \in Nexts
    BY DEF Replies, Pcs, Nexts, Commands
  <2>3. /\ k \in Jobs /\ k.pc = "ask" /\ k.then = "final" /\ k.session = job.session
        /\ k.stamp = job.stamp /\ k.reply = NoReply /\ k.expected = job.expected
        /\ k.cancelled = job.cancelled /\ k.signalling = job.signalling
        /\ k.signalled = job.signalled /\ k.print = job.print /\ k.source = job.source
        /\ k.next = job.next
    BY <1>1, <2>2, AtReply, SetAskIs
  <2> HIDE DEF k
  <2>4. Fed(job) = job.next - 1
    BY <1>1, AtReply DEF Fed
  <2>5. Phased(k)
    <3>1. /\ There(k) <=> There(job)
          /\ ~Feeding(k) /\ ~Closing(k) /\ ~Has(k) /\ \A c : ~HasOk(k, c)
          /\ ~Asks(k, {"ended"})
      BY <2>3 DEF There, Feeding, Closing, Has, HasOk, Asks, Reading
    <3>2. There(job) => RunOf(job).phase = "ready"
      BY <1>1, <1>2, <1>4, AtReply DEF Phased, Ended
    <3> QED BY <2>3, <3>1, <3>2 DEF Phased, Ended, RunOf
  <2>6. Importing(k)
    <3>1. \A s : ~Doing(job, s)
      BY <1>1, <1>2, <1>4, AtReply DEF Doing, Feeding, Closing, Reading
    <3> QED BY <1>1, <3>1, AtReply DEF Importing
  <2>7. JobFacts(k)
    BY <1>1, <1>2, <2>3, <2>4, <2>5, <2>6, AtReply, EndingFacts
  <2> QED BY <1>1, <2>1, <2>3, <2>7, AtReply, JobMoves DEF Early, Asks
<1> QED BY <1>3, <1>4

(* The checkpoint of a job with a session is for its owner to look at.      *)
LEMMA KnownFacts ==
  ASSUME NEW j, JobFacts(j), j.session # None, NEW c \in Checkpoints
  PROVE  /\ JobFacts(SetUnknown(j, c))
         /\ \A o : Done(SetUnknown(j, c), o) = Done([j EXCEPT !.checkpoint = c], o)
<1> DEFINE k == SetUnknown(j, c)
<1>1. /\ j \in Jobs /\ Stages(j) /\ Replay(j) /\ Owns(j) /\ Phased(j) /\ Cancelled(j)
      /\ Importing(j)
  BY DEF JobFacts
<1>2. /\ k \in Jobs /\ k.checkpoint = c /\ k.pc = j.pc /\ k.expected = j.expected
      /\ k.cancelled = j.cancelled /\ k.signalling = j.signalling
      /\ k.signalled = j.signalled /\ k.stamp = j.stamp /\ k.print = j.print
      /\ k.next = j.next /\ k.error = j.error /\ k.reply = j.reply /\ k.then = j.then
      /\ k.session = j.session /\ k.source = j.source /\ k.outcome = j.outcome
  BY <1>1, SetUnknownIs DEF SetUnknown, Jobs
<1> HIDE DEF k
<1>3. /\ Live(k) = Live(j) /\ Has(k) = Has(j) /\ There(k) = There(j) /\ Fed(k) = Fed(j)
      /\ Feeding(k) = Feeding(j) /\ Closing(k) = Closing(j) /\ RunOf(k) = RunOf(j)
  BY <1>2 DEF Live, Has, There, Fed, Feeding, Closing, RunOf, HasOk, Asks
<1>4. \A x : HasOk(k, x) = HasOk(j, x) /\ Asks(k, x) = Asks(j, x)
  BY <1>2 DEF HasOk, Has, Asks
<1>5. Stages(k)
  BY <1>1, <1>2, <1>4 DEF Stages
<1>6. Replay(k)
  BY <1>1, <1>2, <1>3, <1>4 DEF Replay
<1>7. Owns(k)
  BY <1>1, <1>2, <1>3, <1>4 DEF Owns
<1>8. Phased(k)
  BY <1>1, <1>2, <1>3, <1>4 DEF Phased, Ended
<1>9. Cancelled(k)
  BY <1>1, <1>2, <1>3, <1>4 DEF Cancelled
<1>10. Importing(k)
  BY <1>1, <1>2, <1>3, <1>4 DEF Importing, Doing
<1> QED BY <1>2, <1>5, <1>6, <1>7, <1>8, <1>9, <1>10 DEF JobFacts, k, SetUnknown

LEMMA AfterFinalKeeps == ASSUME IInv, AfterFinal PROVE IInv'
<1>1. Replied("final") /\ Elsewhere
  BY DEF AfterFinal, Become
<1>2. /\ job.session # None /\ ~HasOk(job, "resolve") /\ ~HasOk(job, "retry")
      /\ (There(job) => RunOf(job).phase = "ready")
      /\ \A s : ~Doing(job, s)
  <2>1. job.session # None
    BY <1>1, AtReply DEF Stages, Commands
  <2> QED BY <1>1, <2>1, AtReply DEF Phased, Ended, Doing, Feeding, Closing, Reading
<1>3. CASE job.reply.error # "ok" \/ job.reply.reply = None
  <2>1. job' = Failed(job, Converted(job.reply.error)) /\ job.reply.error \in Errors
    BY <1>1, <1>3, AtReply DEF AfterFinal, Become, Answers
  <2>2. job.reply.error \in {"ok", "ScopeMismatch", "StaleCursor", "StorageFailure"}
    BY <1>1, AtReply DEF Cancelled
  <2>3. Converted(job.reply.error) = "StorageFailure"
    BY <2>1, <2>2, ConvertedIs
  <2> QED BY <1>1, <1>2, <2>1, <2>3, AtReply, JobFails DEF Reasons
<1>4. CASE job.reply.error = "ok" /\ job.reply.reply # None
  <2> DEFINE k == SetUnknown(job, job.reply.reply)
  <2>1. job.reply.reply \in Checkpoints
    BY <1>1, <1>4, AtReply DEF Owns, Checkpoints
  <2>2. JobFacts(k) /\ job' = Done(k, "ready")
    BY <1>1, <1>2, <1>4, <2>1, AtReply, KnownFacts DEF AfterFinal, Become
  <2>3. k.session = job.session /\ k.source = job.source
    BY <1>1, <2>1, AtReply, SetUnknownIs
  <2> HIDE DEF k
  <2>4. "ready" \in Outcomes
    BY DEF Outcomes
  <2>5. JobFacts(Done(k, "ready"))
    <3>1. There(k) => RunOf(k).phase = "ready"
      BY <1>2, <2>3 DEF There, RunOf
    <3>2. worker = "up" /\ faults = 0 => \A s \in Source : d.run[s].phase # "importing"
      BY <1>1, <1>2, AtReply DEF Importing
    <3> QED BY <1>1, <2>2, <2>4, <3>1, <3>2, AtReply, DoneFacts
  <2>6. Done(k, "ready").pc = "done"
    BY <2>2, <2>4, DoneIs DEF JobFacts
  <2> QED BY <1>1, <2>2, <2>5, <2>6, AtReply, JobMoves DEF Early, Asks
<1> QED BY <1>3, <1>4

LEMMA EndKeeps == ASSUME IInv, End PROVE IInv'
<1>1. Step("end") /\ Elsewhere
  BY DEF End, Become
<1>2. /\ job.session # None /\ job.reply = NoReply /\ job.error \in Reasons
      /\ ~Has(job) /\ Closing(job) /\ Fed(job) = job.next - 1
      /\ (job.signalled => job.cancelled) /\ (job.error = "Cancelled" => job.cancelled)
  BY <1>1, AtStep DEF Stages, Has, Closing, Fed, HasOk, Asks, Cancelled
<1>3. PICK g \in Flags : g = (job.signalled \/ job.error = "Cancelled")
  BY DEF Flags
<1>4. PICK t \in {"cancel", "fail"} : t = IF job.error = "Cancelled" THEN "cancel" ELSE "fail"
  OBVIOUS
<1> DEFINE k == SetEnd(job, "ask", g, t)
<1>5. job' = k /\ "ask" \in Pcs /\ t \in Nexts
  BY <1>3, <1>4 DEF End, Become, SetEnd, Pcs, Nexts, Commands
<1>6. /\ k \in Jobs /\ k.pc = "ask" /\ k.then = t /\ k.session = job.session
      /\ k.stamp = job.stamp /\ k.reply = NoReply /\ k.expected = job.expected
      /\ k.cancelled = job.cancelled /\ k.signalling = job.signalling
      /\ k.signalled = g /\ k.print = job.print /\ k.source = job.source
      /\ k.next = job.next /\ k.error = job.error
  BY <1>1, <1>2, <1>5, AtStep, SetEndIs
<1> HIDE DEF k
<1>7. /\ There(k) <=> There(job)
      /\ ~Feeding(k) /\ Closing(k) /\ ~Has(k) /\ (\A c : ~HasOk(k, c))
      /\ ~Asks(k, {"ended"}) /\ ~Asks(k, {"final"})
  BY <1>4, <1>6 DEF There, Feeding, Closing, Has, HasOk, Asks, Reading
<1>8. Phased(k)
  BY <1>1, <1>2, <1>6, <1>7, AtStep DEF Phased, Ended, RunOf
<1>9. Importing(k)
  <2>1. \A s : Doing(job, s) => Doing(k, s)
    BY <1>2, <1>6, <1>7 DEF Doing, HasOk
  <2> QED BY <1>1, <2>1, AtStep DEF Importing
<1>10. JobFacts(k)
  BY <1>1, <1>2, <1>3, <1>4, <1>6, <1>8, <1>9, AtStep, EndingFacts
<1> QED BY <1>1, <1>4, <1>5, <1>6, <1>10, AtStep, JobMoves DEF Early, Asks

LEMMA AfterEndKeeps == ASSUME IInv, AfterEnd PROVE IInv'
<1>1. PICK c \in {"cancel", "fail"} : Replied(c)
  BY DEF AfterEnd
<1>2. /\ job.session # None /\ job.error \in Reasons /\ ~Closing(job)
      /\ Fed(job) = job.next - 1 /\ (job.signalled => job.cancelled)
      /\ (job.error = "Cancelled" => job.cancelled)
      /\ \A s : ~Doing(job, s)
  <2>1. job.session # None /\ job.error \in Reasons
    BY <1>1, AtReply DEF Stages, Commands
  <2> QED BY <1>1, <2>1, AtReply DEF Closing, Fed, Cancelled, Doing, Feeding, Reading
<1>3. PICK e \in Reasons :
        e = IF job.reply.error \in {"ok", "StaleCursor", "Cancelled"}
            THEN job.error ELSE "StorageFailure"
  BY <1>2 DEF Reasons
<1> DEFINE k == SetEnded(job, "ask", "ended", NoReply, e)
<1>4. job' = k /\ Elsewhere /\ "ask" \in Pcs /\ "ended" \in Nexts /\ NoReply \in Replies /\ e \in Causes
  BY <1>3 DEF AfterEnd, Become, SetEnded, Pcs, Nexts, Commands, Replies, Causes
<1>5. /\ k \in Jobs /\ k.pc = "ask" /\ k.then = "ended" /\ k.session = job.session
      /\ k.stamp = job.stamp /\ k.reply = NoReply /\ k.expected = job.expected
      /\ k.cancelled = job.cancelled /\ k.signalling = job.signalling
      /\ k.signalled = job.signalled /\ k.print = job.print /\ k.source = job.source
      /\ k.next = job.next /\ k.error = e
  BY <1>1, <1>4, AtReply, SetEndedIs
<1> HIDE DEF k
<1>6. /\ There(k) <=> There(job)
      /\ ~Feeding(k) /\ ~Closing(k) /\ ~Has(k) /\ (\A x : ~HasOk(k, x)) /\ ~Asks(k, {"final"})
  BY <1>5 DEF There, Feeding, Closing, Has, HasOk, Asks, Reading
<1>7. Phased(k)
  <2>1. There(job) => e = "StorageFailure" \/ RunOf(job).phase = EndPhase(e)
    BY <1>1, <1>2, <1>3, AtReply DEF Phased, Ended
  <2> QED BY <1>5, <1>6, <2>1 DEF Phased, Ended, RunOf
<1>8. Importing(k)
  BY <1>1, <1>2, AtReply DEF Importing
<1>9. JobFacts(k)
  BY <1>1, <1>2, <1>3, <1>5, <1>7, <1>8, AtReply, EndingFacts
<1> QED BY <1>1, <1>4, <1>5, <1>9, AtReply, JobMoves DEF Early, Asks

LEMMA AfterEndedKeeps == ASSUME IInv, AfterEnded PROVE IInv'
<1>1. Replied("ended") /\ Elsewhere
  BY DEF AfterEnded, Become
<1>2. /\ job.session # None /\ job.error \in Reasons
      /\ (job.error = "Cancelled" => job.cancelled)
      /\ (There(job) => job.error = "StorageFailure" \/ RunOf(job).phase = EndPhase(job.error))
      /\ \A s : ~Doing(job, s)
  <2>1. job.session # None /\ job.error \in Reasons
    BY <1>1, AtReply DEF Stages, Commands
  <2> QED BY <1>1, <2>1, AtReply DEF Cancelled, Phased, Ended, Doing, Feeding, Closing, Reading
<1>3. worker = "up" /\ faults = 0 => \A s \in Source : d.run[s].phase # "importing"
  BY <1>1, <1>2, AtReply DEF Importing
<1>4. CASE job.reply.error # "ok" \/ job.reply.reply = None
  <2>1. job' = Done(job, "StorageFailure") /\ "StorageFailure" \in Outcomes
    BY <1>4 DEF AfterEnded, Become, Outcomes, Reasons
  <2>2. JobFacts(Done(job, "StorageFailure"))
    BY <1>1, <1>3, <2>1, AtReply, DoneFacts
  <2>3. Done(job, "StorageFailure").pc = "done"
    BY <1>1, <2>1, AtReply, DoneIs
  <2> QED BY <1>1, <2>1, <2>2, <2>3, AtReply, JobMoves DEF Early, Asks
<1>5. CASE job.reply.error = "ok" /\ job.reply.reply # None
  <2> DEFINE k == SetUnknown(job, job.reply.reply)
             o == IF job.reply.reply.phase = "ready" THEN "ready" ELSE job.error
  <2>1. job.reply.reply \in Checkpoints
    BY <1>1, <1>5, AtReply DEF Owns, Checkpoints
  <2>2. JobFacts(k) /\ job' = Done(k, o)
    BY <1>1, <1>2, <1>5, <2>1, AtReply, KnownFacts DEF AfterEnded, Become
  <2>3. k.session = job.session /\ k.source = job.source /\ k.cancelled = job.cancelled
    BY <1>1, <2>1, AtReply, SetUnknownIs
  <2>4. o \in Outcomes /\ (o = "Cancelled" => job.cancelled)
    BY <1>2 DEF Outcomes
  <2>5. There(job) /\ o # "StorageFailure" =>
          RunOf(job).phase = IF o = "ready" THEN "ready" ELSE EndPhase(o)
    <3>1. There(job) => RunOf(job) = job.reply.reply
      BY <1>1, <1>2, <1>5, AtReply DEF Phased, Ended
    <3>2. job.error # "ready"
      BY <1>2 DEF Reasons
    <3> QED BY <1>2, <3>1, <3>2
  <2> HIDE DEF k, o
  <2>6. There(k) /\ o # "StorageFailure" =>
          RunOf(k).phase = IF o = "ready" THEN "ready" ELSE EndPhase(o)
    BY <2>3, <2>5 DEF There, RunOf
  <2>7. JobFacts(Done(k, o))
    BY <1>1, <1>3, <2>2, <2>3, <2>4, <2>6, AtReply, DoneFacts
  <2>8. Done(k, o).pc = "done"
    BY <2>2, <2>4, DoneIs DEF JobFacts
  <2> QED BY <1>1, <2>2, <2>7, <2>8, AtReply, JobMoves DEF Early, Asks
<1> QED BY <1>4, <1>5

-----------------------------------------------------------------------------
(* The steps of the owner, of the file and of the shutdown.                 *)

(* A cancellation reaches a job, and changes nothing else that is said of it.*)
LEMMA FlagFacts ==
  ASSUME NEW j, JobFacts(j), NEW x \in Flags, NEW y \in Flags, NEW g \in Flags,
         j.cancelled => x, y \/ g => x
  PROVE  JobFacts(SetFlags(j, x, y, g))
<1> DEFINE k == SetFlags(j, x, y, g)
<1>1. /\ j \in Jobs /\ Stages(j) /\ Replay(j) /\ Owns(j) /\ Phased(j) /\ Cancelled(j)
      /\ Importing(j)
  BY DEF JobFacts
<1>2. /\ k \in Jobs /\ k.cancelled = x /\ k.signalling = y /\ k.signalled = g /\ k.pc = j.pc
      /\ k.expected = j.expected /\ k.stamp = j.stamp /\ k.print = j.print /\ k.next = j.next
      /\ k.error = j.error /\ k.reply = j.reply /\ k.then = j.then /\ k.session = j.session
      /\ k.source = j.source /\ k.checkpoint = j.checkpoint /\ k.outcome = j.outcome
  BY <1>1, SetFlagsIs DEF SetFlags, Jobs
<1> HIDE DEF k
<1>3. /\ Live(k) = Live(j) /\ Has(k) = Has(j) /\ There(k) = There(j) /\ Fed(k) = Fed(j)
      /\ Feeding(k) = Feeding(j) /\ Closing(k) = Closing(j) /\ RunOf(k) = RunOf(j)
      /\ Ended(k) = Ended(j)
  BY <1>2 DEF Live, Has, There, Fed, Feeding, Closing, Ended, RunOf, HasOk, Asks
<1>4. \A c : HasOk(k, c) = HasOk(j, c) /\ Asks(k, c) = Asks(j, c)
  BY <1>2 DEF HasOk, Has, Asks
<1>5. Stages(k)
  BY <1>1, <1>2, <1>4 DEF Stages
<1>6. Replay(k)
  BY <1>1, <1>2, <1>3, <1>4 DEF Replay
<1>7. Owns(k)
  BY <1>1, <1>2, <1>3, <1>4 DEF Owns
<1>8. Phased(k)
  BY <1>1, <1>2, <1>3, <1>4 DEF Phased
<1>9. Cancelled(k)
  BY <1>1, <1>2, <1>3, <1>4 DEF Cancelled
<1>10. Importing(k)
  BY <1>1, <1>2, <1>3, <1>4 DEF Importing, Doing
<1> QED BY <1>2, <1>5, <1>6, <1>7, <1>8, <1>9, <1>10 DEF JobFacts, k

LEMMA JobFlagged ==
  ASSUME IInv, NEW x \in Flags, NEW y \in Flags, NEW g \in Flags, job.cancelled => x, y \/ g => x,
         job' = SetFlags(job, x, y, g), job.pc # "spawned",
         closed' \in BOOLEAN,
         \/ exit' = exit
         \/ exit = "none" /\ exit' = "rejected"
         \/ exit = "rejected" /\ exit' = "draining" /\ launcher = NoLaunch,
         UNCHANGED <<d, fileVars, launcher, active, worker, stopped, queue, counts>>
  PROVE  IInv'
<1>0. job' = SetFlags(job, x, y, g)
  OBVIOUS
<1>1. UNCHANGED <<d, content, stamp, launcher, active, worker, stopped, queue,
                  jobs, others, faults, deaths>>
  BY DEF fileVars, counts
<1>2. job \in Jobs /\ JobFacts(job)
  BY DEF IInv, TypeOK
<1>3. JobFacts(job)'
  BY <1>1, <1>2, FlagFacts, FactsKept
<1>4. /\ job'.pc = job.pc /\ job'.reply = job.reply /\ job'.then = job.then
      /\ job'.stamp = job.stamp /\ job'.next = job.next /\ job'.print = job.print
  BY <1>2, <1>0 DEF SetFlags, Jobs
<1>5. TypeOK'
  BY <1>1, <1>3 DEF IInv, TypeOK, JobFacts
<1>6. Owner'
  BY <1>1, <1>4 DEF IInv, Owner, Running, Promised, Present
<1>7. Queued'
  BY <1>1, <1>4 DEF IInv, Queued
<1>8. Staged'
  BY <1>1 DEF IInv, Staged, Present, Ready, Begins, Stored, Receipts
<1>9. Room'
  BY <1>1, <1>4 DEF IInv, Room, Used, Present, Unresolved, Asks
<1> QED BY <1>3, <1>5, <1>6, <1>7, <1>8, <1>9 DEF IInv

LEMMA CancelFlagKeeps == ASSUME IInv, CancelFlag PROVE IInv'
<1>1. PICK x \in Flags : x = TRUE
  BY DEF Flags
<1>2. PICK g \in Flags : g = job.signalled
  BY DEF IInv, TypeOK, Jobs
<1>3. job' = SetFlags(job, x, x, g)
  BY <1>1, <1>2 DEF CancelFlag, SetFlags, IInv, TypeOK, Jobs
<1>4. job.pc # "spawned"
  BY DEF CancelFlag, IInv, Owner
<1>5. UNCHANGED <<d, fileVars, closed, launcher, active, worker, stopped, queue, exit, counts>>
  BY DEF CancelFlag
<1>6. closed' \in BOOLEAN
  BY <1>5 DEF IInv, TypeOK
<1> QED BY <1>1, <1>3, <1>4, <1>5, <1>6, JobFlagged

LEMMA CancelSignalKeeps == ASSUME IInv, CancelSignal PROVE IInv'
<1>1. PICK x \in Flags : x = job.cancelled
  BY DEF IInv, TypeOK, Jobs
<1>2. PICK y \in Flags : y = FALSE
  BY DEF Flags
<1>3. PICK g \in Flags : g = (job.signalled \/ job.bound)
  BY DEF Flags
<1>4. job' = SetFlags(job, x, y, g)
  BY <1>1, <1>2, <1>3 DEF CancelSignal, SetFlags, IInv, TypeOK, Jobs
<1>5. job.cancelled
  BY DEF CancelSignal, IInv, JobFacts, Cancelled
<1>6. job.pc # "spawned"
  BY DEF CancelSignal, IInv, Owner, NewJob
<1>7. UNCHANGED <<d, fileVars, closed, launcher, active, worker, stopped, queue, exit, counts>>
  BY DEF CancelSignal
<1>8. closed' \in BOOLEAN
  BY <1>7 DEF IInv, TypeOK
<1> QED BY <1>1, <1>2, <1>4, <1>5, <1>6, <1>7, <1>8, JobFlagged

(* A shutdown cancels the job there is.                                     *)
LEMMA ExitFlags ==
  ASSUME IInv, job.pc # "spawned"
  PROVE  /\ \E x \in Flags, y \in Flags, g \in Flags :
              /\ (job.cancelled => x) /\ (y \/ g => x)
              /\ [job EXCEPT !.cancelled = TRUE, !.signalled = @ \/ job.bound]
                    = SetFlags(job, x, y, g)
         /\ \E x \in Flags, y \in Flags, g \in Flags :
              (job.cancelled => x) /\ (y \/ g => x) /\ job = SetFlags(job, x, y, g)
<1>1. job \in Jobs /\ (job.signalling \/ job.signalled => job.cancelled)
  BY DEF IInv, TypeOK, JobFacts, Cancelled
<1>2. PICK x \in Flags : x = TRUE
  BY DEF Flags
<1>3. PICK y \in Flags : y = job.signalling
  BY <1>1 DEF Jobs
<1>4. PICK g \in Flags : g = (job.signalled \/ job.bound)
  BY DEF Flags
<1>5. [job EXCEPT !.cancelled = TRUE, !.signalled = @ \/ job.bound] = SetFlags(job, x, y, g)
  BY <1>1, <1>2, <1>3, <1>4 DEF SetFlags, Jobs
<1>6. PICK z \in Flags : z = job.cancelled
  BY <1>1 DEF Jobs
<1>7. PICK h \in Flags : h = job.signalled
  BY <1>1 DEF Jobs
<1>8. job = SetFlags(job, z, y, h)
  BY <1>1, <1>3, <1>6, <1>7 DEF SetFlags, Jobs
<1>9. (job.cancelled => x) /\ (y \/ g => x)
  BY <1>2
<1>10. (job.cancelled => z) /\ (y \/ h => z)
  BY <1>1, <1>3, <1>6, <1>7
<1>11. \E a \in Flags, b \in Flags, c \in Flags :
         /\ (job.cancelled => a) /\ (b \/ c => a)
         /\ [job EXCEPT !.cancelled = TRUE, !.signalled = @ \/ job.bound]
               = SetFlags(job, a, b, c)
  <2> WITNESS x \in Flags, y \in Flags, g \in Flags
  <2> QED BY <1>5, <1>9
<1>12. \E a \in Flags, b \in Flags, c \in Flags :
         (job.cancelled => a) /\ (b \/ c => a) /\ job = SetFlags(job, a, b, c)
  <2> WITNESS z \in Flags, y \in Flags, h \in Flags
  <2> QED BY <1>8, <1>10
<1> QED BY <1>11, <1>12

LEMMA RejectKeeps == ASSUME IInv, Reject PROVE IInv'
<1>1. CASE job.pc # "spawned"
  <2>1. PICK x \in Flags, y \in Flags, g \in Flags :
           (job.cancelled => x) /\ (y \/ g => x) /\ job' = SetFlags(job, x, y, g)
    <3>1. CASE active /\ Running
      BY <1>1, <3>1, ExitFlags DEF Reject
    <3>2. CASE ~(active /\ Running)
      BY <1>1, <3>2, ExitFlags DEF Reject
    <3> QED BY <3>1, <3>2
  <2>2. /\ UNCHANGED <<d, fileVars, launcher, active, worker, stopped, queue, counts>>
        /\ exit = "none" /\ exit' = "rejected" /\ closed' \in BOOLEAN
    BY DEF Reject
  <2> QED BY <1>1, <2>1, <2>2, JobFlagged
<1>2. CASE job.pc = "spawned"
  <2>1. /\ job' = job /\ exit' = "rejected" /\ closed' = TRUE
        /\ UNCHANGED <<d, content, stamp, launcher, active, worker, stopped, queue,
                       jobs, others, faults, deaths>>
    BY <1>2 DEF Reject, IInv, Owner, fileVars, counts
  <2>2. JobFacts(job)'
    BY <2>1, FactsKept DEF IInv
  <2>3. TypeOK'
    BY <2>1 DEF IInv, TypeOK
  <2>4. Owner' /\ Queued'
    BY <1>2, <2>1 DEF IInv, Owner, Running, Promised, Present, Queued
  <2>5. Staged'
    BY <2>1 DEF IInv, Staged, Present, Ready, Begins, Stored, Receipts
  <2>6. Room'
    BY <2>1 DEF IInv, Room, Used, Present, Unresolved, Asks
  <2> QED BY <2>2, <2>3, <2>4, <2>5, <2>6 DEF IInv
<1> QED BY <1>1, <1>2

LEMMA DrainKeeps == ASSUME IInv, Drain PROVE IInv'
<1>1. job.pc # "spawned"
  BY DEF Drain, IInv, Owner
<1>2. PICK x \in Flags, y \in Flags, g \in Flags :
         (job.cancelled => x) /\ (y \/ g => x) /\ job' = SetFlags(job, x, y, g)
  <2>1. CASE Running
    BY <1>1, <2>1, ExitFlags DEF Drain
  <2>2. CASE ~Running
    BY <1>1, <2>2, ExitFlags DEF Drain
  <2> QED BY <2>1, <2>2
<1>3. /\ UNCHANGED <<d, fileVars, launcher, active, worker, stopped, queue, counts>>
      /\ exit = "rejected" /\ exit' = "draining" /\ launcher = NoLaunch
  BY DEF Drain
<1>4. closed' \in BOOLEAN
  BY DEF Drain, IInv, TypeOK
<1> QED BY <1>1, <1>2, <1>3, <1>4, JobFlagged

(* A change of the file is seen by whoever looks at its metadata.           *)
LEMMA ChangeFileKeeps == ASSUME IInv, ChangeFile PROVE IInv'
<1>1. /\ stamp' = stamp + 1 /\ content' \in Archive /\ stamp \in Nat
      /\ UNCHANGED <<d, closed, launcher, job, active, worker, stopped, queue, exit,
                     jobs, others, faults, deaths>>
  BY DEF ChangeFile, counts, IInv, TypeOK
<1>2. job \in Jobs /\ Replay(job) /\ job.stamp \in Nat
  BY DEF IInv, JobFacts, Jobs, Stamps
<1>3. job.stamp <= stamp' /\ job.stamp # stamp'
  BY <1>1, <1>2 DEF Replay
<1>4. JobFacts(job)'
  <2>1. Replay(job)'
    BY <1>1, <1>2, <1>3 DEF Replay, Asks, There, Begins, Receipts, Present
  <2> QED BY <1>1, <2>1
    DEF IInv, JobFacts, Stages, Owns, Phased, Cancelled, Importing, Live, Asks, Has, HasOk,
        There, RunOf, Promised, Feeding, Closing, Ended, Doing, Present
<1>5. TypeOK'
  BY <1>1 DEF IInv, TypeOK
<1>6. Owner'
  BY <1>1 DEF IInv, Owner, Running, Promised, Present
<1>7. Queued'
  BY <1>1, <1>3 DEF IInv, Queued
<1>8. Staged'
  BY <1>1 DEF IInv, Staged, Present, Ready, Begins, Stored, Receipts
<1>9. Room'
  BY <1>1 DEF IInv, Room, Used, Present, Unresolved, Asks
<1> QED BY <1>4, <1>5, <1>6, <1>7, <1>8, <1>9 DEF IInv

(* Nothing imports while no job runs.                                       *)
LEMMA NotRunning ==
  ASSUME IInv, ~Running
  PROVE  /\ worker = "up" /\ faults = 0 => \A s \in Source : d.run[s].phase # "importing"
         /\ job.pc \in {"none", "done"}
<1>1. \A s : ~Doing(job, s)
  BY DEF Running, Doing, Feeding, Closing, HasOk, Has, Asks, Reading
<1> QED BY <1>1 DEF IInv, JobFacts, Importing, Running

LEMMA LaunchLockKeeps ==
  ASSUME IInv, NEW kind \in Kinds, LaunchLock(kind)
  PROVE  IInv'
<1>1. /\ UNCHANGED <<d, content, stamp, closed, job, active, worker, stopped, queue, exit,
                     others, faults, deaths>>
      /\ launcher = NoLaunch /\ ~Running /\ exit \in {"none", "rejected"}
      /\ jobs < MaxJobs /\ jobs' = jobs + 1 /\ jobs \in Nat
  BY DEF LaunchLock, fileVars, counts, IInv, TypeOK
<1>2. job.pc \in {"none", "done"}
  BY <1>1, NotRunning
<1> DEFINE e == IF kind = "retry"
                THEN [source |-> job.source, print |-> job.print, run |-> job.checkpoint]
                ELSE None
<1>3. launcher' = [step |-> "locked", kind |-> kind, expected |-> e]
  BY DEF LaunchLock
<1>4. e \in Expected \cup {None} /\ Promised(e)
  <2>1. CASE kind = "retry"
    <3>1. job.checkpoint # None /\ job \in Jobs /\ Stages(job) /\ Owns(job)
      BY <2>1 DEF LaunchLock, IInv, JobFacts
    <3>2. job.source \in Source /\ job.source # None
      BY <3>1, NoneIsNone DEF Stages
    <3>3. job.print \in Archive
      BY <3>1, <3>2 DEF Stages
    <3>4. job.checkpoint \in Run
      BY <3>1 DEF Jobs, Checkpoints
    <3>5. e \in Expected
      BY <2>1, <3>2, <3>3, <3>4 DEF Expected
    <3>6. Promised(e)
      BY <2>1, <3>1, <3>2 DEF Promised, Owns, There
    <3> QED BY <3>5, <3>6
  <2>2. CASE kind # "retry"
    BY <2>2 DEF Promised
  <2> QED BY <2>1, <2>2
<1> HIDE DEF e
<1>5. /\ launcher'.step = "locked" /\ launcher'.expected = e
      /\ launcher' \in [step : {"none", "locked", "installed"}, kind : Kinds,
                        expected : Expected \cup {None}]
  BY <1>3, <1>4
<1>6. JobFacts(job)'
  BY <1>1, FactsKept DEF IInv
<1>7. TypeOK'
  BY <1>1, <1>5 DEF IInv, TypeOK
<1>8. Owner'
  BY <1>1, <1>2, <1>4, <1>5 DEF IInv, Owner, Running, Promised, Present
<1>9. Queued'
  BY <1>1 DEF IInv, Queued
<1>10. Staged'
  BY <1>1 DEF IInv, Staged, Present, Ready, Begins, Stored, Receipts
<1>11. Room'
  <2>1. Used' = Used
    BY <1>1 DEF Used, Present
  <2>2. ~Unresolved
    BY <1>1, <1>2 DEF Unresolved, Early, Asks
  <2>3. Cardinality(Used) \in Nat /\ MaxJobs \in Nat
    BY FS_CardinalityType, DiscordImportAssumption DEF IInv, Room
  <2> QED BY <1>1, <2>1, <2>2, <2>3 DEF IInv, Room
<1> QED BY <1>6, <1>7, <1>8, <1>9, <1>10, <1>11 DEF IInv

(* A job that has not begun.                                                *)
LEMMA NewIs ==
  ASSUME NEW kind \in Kinds, NEW e \in Wanted
  PROVE  LET j == NewJob(kind, e)
         IN /\ j \in Jobs
            /\ j.pc = "spawned" /\ j.kind = kind /\ j.expected = e /\ j.outcome = None
            /\ ~j.cancelled /\ ~j.signalling /\ ~j.signalled /\ j.stamp = 0 /\ j.print = None
            /\ j.next = 1 /\ j.error = None /\ j.reply = NoReply /\ j.then = None
            /\ j.session = None /\ j.source = None /\ j.checkpoint = None
<1>1. /\ "spawned" \in Pcs /\ None \in Ends /\ FALSE \in Flags /\ 0 \in Stamps /\ None \in Prints
      /\ 1 \in Positions /\ None \in Causes /\ NoReply \in Replies /\ None \in Nexts
      /\ None \in Sessions /\ None \in Sources /\ None \in Checkpoints
  BY DEF Pcs, Ends, Flags, Stamps, Prints, Positions, Causes, Replies, Nexts, Sessions, Sources,
         Checkpoints
<1>2. NewJob(kind, e) \in Jobs
  BY <1>1 DEF NewJob, Jobs
<1> QED BY <1>2 DEF NewJob

LEMMA NoJobIs ==
  /\ NoJob \in Jobs
  /\ NoJob.pc = "none" /\ NoJob.kind = "start" /\ NoJob.expected = None
  /\ ~NoJob.cancelled /\ ~NoJob.signalling /\ ~NoJob.signalled /\ NoJob.stamp = 0
  /\ NoJob.print = None /\ NoJob.next = 1 /\ NoJob.error = None /\ NoJob.reply = NoReply
  /\ NoJob.then = None /\ NoJob.session = None /\ NoJob.source = None /\ NoJob.checkpoint = None
<1> DEFINE j == NewJob("start", None)
<1>1. "start" \in Kinds /\ None \in Wanted /\ "none" \in Pcs
  BY DEF Kinds, Wanted, Pcs
<1>2. /\ j \in Jobs
      /\ j.pc = "spawned" /\ j.kind = "start" /\ j.expected = None /\ j.outcome = None
      /\ ~j.cancelled /\ ~j.signalling /\ ~j.signalled /\ j.stamp = 0 /\ j.print = None
      /\ j.next = 1 /\ j.error = None /\ j.reply = NoReply /\ j.then = None
      /\ j.session = None /\ j.source = None /\ j.checkpoint = None
  BY <1>1, NewIs
<1> HIDE DEF j
<1>3. NoJob = SetPc(j, "none")
  BY DEF NoJob, SetPc, j
<1>4. NoJob.kind = j.kind
  BY <1>2, <1>3 DEF SetPc, Jobs
<1> QED BY <1>1, <1>2, <1>3, <1>4, SetPcIs

(* Of a job that has not begun, or is none, only its promise is to keep.    *)
LEMMA IdleFacts ==
  ASSUME stamp \in Nat, NEW j \in Jobs, j.pc \in {"none", "spawned"}, j.session = None,
         j.source = None, j.checkpoint = None, j.reply = NoReply, j.next = 1, j.print = None,
         ~j.signalling, ~j.signalled, j.stamp = 0, Promised(j.expected),
         worker = "up" /\ faults = 0 => \A s \in Source : d.run[s].phase # "importing"
  PROVE  JobFacts(j)
<1>1. /\ ~Has(j) /\ ~There(j) /\ \A c : ~Asks(j, c) /\ ~HasOk(j, c)
  BY DEF Has, There, Asks, HasOk
<1>2. Stages(j)
  BY <1>1 DEF Stages, Early, Reading
<1>3. Replay(j)
  BY <1>1 DEF Replay
<1>4. Owns(j) /\ Phased(j)
  BY <1>1 DEF Owns, Phased
<1>5. Cancelled(j)
  BY <1>1 DEF Cancelled
<1>6. Importing(j)
  BY DEF Importing
<1> QED BY <1>2, <1>3, <1>4, <1>5, <1>6 DEF JobFacts

LEMMA LaunchInstallKeeps == ASSUME IInv, LaunchInstall PROVE IInv'
<1>1. /\ UNCHANGED <<d, content, stamp, closed, worker, stopped, queue, exit,
                     jobs, others, faults, deaths>>
      /\ launcher.step = "locked" /\ ~Running
  BY DEF LaunchInstall, fileVars, counts, IInv, Owner
<1>2. job.pc \in {"none", "done"} /\ launcher # NoLaunch
  BY <1>1, NotRunning DEF NoLaunch
<1>3. launcher.kind \in Kinds /\ launcher.expected \in Wanted /\ Promised(launcher.expected)
  BY <1>2 DEF IInv, TypeOK, Owner, Wanted
<1>4. Staged'
  BY <1>1 DEF IInv, Staged, Present, Ready, Begins, Stored, Receipts
<1>5. Queued'
  BY <1>1, <1>2 DEF LaunchInstall, IInv, Queued
<1>6. Used' = Used /\ Unresolved /\ jobs' = jobs
  BY <1>1, <1>2 DEF Used, Present, Unresolved
<1>7. CASE closed
  <2>1. launcher' = NoLaunch /\ UNCHANGED <<job, active>>
    BY <1>7 DEF LaunchInstall
  <2>2. JobFacts(job)'
    BY <1>1, <2>1, FactsKept DEF IInv
  <2>3. TypeOK'
    BY <1>1, <2>1 DEF IInv, TypeOK, NoLaunch, Kinds
  <2>4. Owner'
    BY <1>1, <1>2, <2>1 DEF IInv, Owner, Running, Promised, Present, NoLaunch
  <2>5. Room'
    <3>1. Cardinality(Used) \in Nat /\ jobs \in Nat
      BY FS_CardinalityType DEF IInv, Room, TypeOK
    <3> QED BY <1>6, <3>1 DEF IInv, Room
  <2> QED BY <1>4, <1>5, <2>2, <2>3, <2>4, <2>5 DEF IInv
<1>8. CASE ~closed
  <2>1. /\ launcher' = [launcher EXCEPT !.step = "installed"]
        /\ job' = NewJob(launcher.kind, launcher.expected) /\ active' = FALSE
    BY <1>8 DEF LaunchInstall
  <2>2. /\ launcher'.step = "installed" /\ launcher'.expected = launcher.expected
        /\ launcher' \in [step : {"none", "locked", "installed"}, kind : Kinds,
                          expected : Expected \cup {None}]
    BY <2>1 DEF IInv, TypeOK
  <2>3. launcher' # NoLaunch
    BY <2>2 DEF NoLaunch
  <2>4. /\ job' \in Jobs
        /\ job'.pc = "spawned" /\ job'.kind = launcher.kind /\ job'.expected = launcher.expected
        /\ ~job'.cancelled /\ ~job'.signalling /\ ~job'.signalled /\ job'.stamp = 0
        /\ job'.print = None /\ job'.next = 1 /\ job'.reply = NoReply
        /\ job'.session = None /\ job'.source = None /\ job'.checkpoint = None
    BY <1>3, <2>1, NewIs
  <2>5. JobFacts(job)'
    <3> DEFINE k == NewJob(launcher.kind, launcher.expected)
    <3>1. JobFacts(k)
      <4>1. /\ k \in Jobs
            /\ k.pc = "spawned" /\ k.expected = launcher.expected
            /\ ~k.signalling /\ ~k.signalled /\ k.stamp = 0
            /\ k.print = None /\ k.next = 1 /\ k.reply = NoReply
            /\ k.session = None /\ k.source = None /\ k.checkpoint = None
        BY <1>3, NewIs
      <4>2. worker = "up" /\ faults = 0 => \A s \in Source : d.run[s].phase # "importing"
        BY <1>1, NotRunning
      <4>3. stamp \in Nat
        BY DEF IInv, TypeOK
      <4> HIDE DEF k
      <4> QED BY <1>3, <4>1, <4>2, <4>3, IdleFacts
    <3> QED BY <1>1, <2>1, <3>1, FactsKept
  <2>6. TypeOK'
    BY <1>1, <2>1, <2>2, <2>4 DEF IInv, TypeOK
  <2>7. Owner'
    <3>1. launcher'.step # "locked"
      BY <2>2
    <3>2. job' = NewJob(job'.kind, job'.expected)
      BY <2>1, <2>4
    <3> QED BY <1>1, <1>2, <1>3, <2>1, <2>2, <2>3, <2>4, <3>1, <3>2
        DEF IInv, Owner, Running, Promised, Present
  <2>8. Room'
    <3>1. Cardinality(Used) \in Nat /\ jobs \in Nat
      BY FS_CardinalityType DEF IInv, Room, TypeOK
    <3> QED BY <1>6, <3>1 DEF IInv, Room
  <2>9. Queued'
    BY <1>1, <1>2 DEF IInv, Queued
  <2> QED BY <1>4, <2>5, <2>6, <2>7, <2>8, <2>9 DEF IInv
<1> QED BY <1>7, <1>8

LEMMA LaunchActivateKeeps == ASSUME IInv, LaunchActivate PROVE IInv'
<1>1. /\ UNCHANGED <<d, content, stamp, closed, worker, stopped, queue, exit,
                     jobs, others, faults, deaths>>
      /\ active' = TRUE /\ launcher' = NoLaunch /\ job.pc = "spawned" /\ launcher # NoLaunch
      /\ job = NewJob(job.kind, job.expected) /\ stamp \in Nat /\ content \in Archive
      /\ worker # "opening"
  BY DEF LaunchActivate, fileVars, counts, IInv, Owner, TypeOK
<1>2. JobFacts(job) /\ job \in Jobs
  BY DEF IInv, TypeOK
<1>3. job.kind \in Kinds /\ job.expected \in Wanted
  BY <1>2 DEF Jobs
<1>4. PICK g \in Flags : g = closed
  BY DEF IInv, TypeOK, Flags
<1> DEFINE k == [job EXCEPT !.cancelled = g, !.pc = "identify"]
<1>5. job' = k
  BY <1>4 DEF LaunchActivate
<1>6. /\ k \in Jobs /\ k.pc = "identify" /\ k.expected = job.expected /\ k.session = job.session
      /\ k.source = job.source /\ k.checkpoint = job.checkpoint /\ k.reply = job.reply
      /\ k.next = job.next /\ k.signalling = job.signalling /\ k.signalled = job.signalled
      /\ k.stamp = job.stamp /\ k.print = job.print
  BY <1>2 DEF Jobs, Pcs
<1>7. /\ job.session = None /\ job.source = None /\ job.checkpoint = None /\ job.reply = NoReply
      /\ job.next = 1 /\ ~job.cancelled /\ job.stamp = 0 /\ job.print = None
  BY <1>1, <1>3, NewIs
<1> HIDE DEF k
<1>8. JobFacts(k)
  <2>1. k.cancelled = job.cancelled \/ k.cancelled
    BY <1>2, <1>6, <1>7 DEF Jobs, Flags
  <2>2. job.pc \in Early
    BY <1>1 DEF Early
  <2> QED BY <1>1, <1>2, <1>6, <1>7, <2>1, <2>2, EarlyFacts
<1>9. JobFacts(job)'
  BY <1>1, <1>5, <1>8, FactsKept
<1>10. TypeOK'
  BY <1>1, <1>5, <1>6 DEF IInv, TypeOK, NoLaunch, Kinds
<1>11. Owner'
  BY <1>1, <1>5, <1>6 DEF IInv, Owner, Running, NoLaunch
<1>12. Queued'
  BY <1>1 DEF IInv, Queued
<1>13. Staged'
  BY <1>1 DEF IInv, Staged, Present, Ready, Begins, Stored, Receipts
<1>14. Room'
  <2>1. Used' = Used /\ Unresolved
    BY <1>1 DEF Used, Present, Unresolved
  <2>2. Cardinality(Used) \in Nat /\ jobs \in Nat
    BY FS_CardinalityType DEF IInv, Room, TypeOK
  <2> QED BY <1>1, <2>1, <2>2 DEF IInv, Room
<1> QED BY <1>9, <1>10, <1>11, <1>12, <1>13, <1>14 DEF IInv

LEMMA DrainedKeeps == ASSUME IInv, Drained PROVE IInv'
<1>1. /\ UNCHANGED <<d, content, stamp, closed, launcher, worker, stopped, queue,
                     jobs, others, faults, deaths>>
      /\ job' = NoJob /\ active' = FALSE /\ exit = "draining" /\ exit' = "drained" /\ ~Running
  BY DEF Drained, fileVars, counts
<1>2. job.pc \in {"none", "done"} /\ launcher = NoLaunch /\ ~stopped /\ worker # "opening"
  BY <1>1, NotRunning DEF IInv, Owner
<1>3. JobFacts(NoJob)
  <2>1. worker = "up" /\ faults = 0 => \A s \in Source : d.run[s].phase # "importing"
    BY <1>1, NotRunning
  <2>2. stamp \in Nat /\ Promised(None)
    BY DEF IInv, TypeOK, Promised
  <2> QED BY <2>1, <2>2, NoJobIs, IdleFacts
<1>4. JobFacts(job)'
  BY <1>1, <1>3, FactsKept
<1>5. TypeOK'
  BY <1>1, NoJobIs DEF IInv, TypeOK
<1>6. Owner'
  BY <1>1, <1>2, NoJobIs DEF IInv, Owner, NoLaunch
<1>7. Queued'
  BY <1>1, <1>2 DEF IInv, Queued
<1>8. Staged'
  BY <1>1 DEF IInv, Staged, Present, Ready, Begins, Stored, Receipts
<1>9. Room'
  <2>1. Used' = Used /\ ~Unresolved'
    BY <1>1, <1>2, NoJobIs DEF Used, Present, Unresolved, Early, Asks
  <2>2. Cardinality(Used) \in Nat /\ jobs \in Nat
    BY FS_CardinalityType DEF IInv, Room, TypeOK
  <2> QED BY <1>1, <2>1, <2>2 DEF IInv, Room
<1> QED BY <1>4, <1>5, <1>6, <1>7, <1>8, <1>9 DEF IInv

(* The last steps of a shutdown say nothing of a job: there is none.        *)
LEMMA ExitKeeps ==
  ASSUME IInv, UNCHANGED <<d, fileVars, closed, launcher, job, active, queue, counts, worker>>,
         exit \in {"drained", "stopping"}, exit' \in {"stopping", "down"},
         stopped' \in BOOLEAN
  PROVE  IInv'
<1>1. UNCHANGED <<d, content, stamp, closed, launcher, job, active, worker, queue,
                  jobs, others, faults, deaths>>
  BY DEF fileVars, counts
<1>2. JobFacts(job)'
  BY <1>1, FactsKept DEF IInv
<1>3. TypeOK'
  BY <1>1 DEF IInv, TypeOK
<1>4. Owner'
  BY <1>1 DEF IInv, Owner, Running
<1>5. Queued'
  BY <1>1 DEF IInv, Queued
<1>6. Staged'
  BY <1>1 DEF IInv, Staged, Present, Ready, Begins, Stored, Receipts
<1>7. Room'
  BY <1>1 DEF IInv, Room, Used, Present, Unresolved, Asks
<1> QED BY <1>2, <1>3, <1>4, <1>5, <1>6, <1>7 DEF IInv

LEMMA DieKeeps == ASSUME IInv, Die PROVE IInv'
<1>1. /\ UNCHANGED <<d, content, stamp, jobs, others, faults>> /\ deaths' = deaths + 1
      /\ closed' = FALSE /\ launcher' = NoLaunch /\ job' = NoJob /\ active' = FALSE
      /\ worker' = "none" /\ stopped' = FALSE /\ queue' = <<>> /\ exit' = "none"
  BY DEF Die, fileVars
<1>2. JobFacts(job)'
  <2>1. /\ ~Has(job)' /\ ~There(job)' /\ ~Live(job)'
        /\ \A c : ~(Asks(NoJob, c)) /\ ~HasOk(NoJob, c)
    BY <1>1, NoJobIs DEF Has, There, Asks, HasOk, Live
  <2>2. Stages(NoJob)
    BY <2>1, NoJobIs DEF Stages, Early, Reading
  <2>3. Stages(job)'
    BY <1>1, <2>2 DEF Stages, Asks
  <2>4. Replay(job)'
    <3>1. 0 <= stamp
      BY DEF IInv, TypeOK
    <3> QED BY <1>1, <2>1, <3>1, NoJobIs DEF Replay, Asks, There, Live
  <2>5. Owns(job)'
    BY <1>1, <2>1, NoJobIs DEF Owns, Promised, There, HasOk, Has
  <2>6. Phased(job)'
    BY <1>1, <2>1, NoJobIs DEF Phased, There
  <2>7. Cancelled(job)'
    BY <1>1, <2>1, NoJobIs DEF Cancelled, Has, Asks
  <2>8. Importing(job)'
    BY <1>1 DEF Importing
  <2> QED BY <1>1, <2>3, <2>4, <2>5, <2>6, <2>7, <2>8, NoJobIs DEF JobFacts
<1>3. TypeOK'
  <2>1. <<>> \in Seq(Entry)
    OBVIOUS
  <2>2. NoLaunch \in [step : {"none", "locked", "installed"}, kind : Kinds,
                      expected : Expected \cup {None}]
    BY DEF NoLaunch, Kinds
  <2>3. /\ d \in Db /\ content \in Archive /\ stamp \in Nat /\ jobs \in Nat /\ others \in Nat
        /\ faults \in Nat /\ deaths \in Nat
    BY DEF IInv, TypeOK
  <2>4. job' \in Jobs
    BY <1>1, NoJobIs
  <2>5. queue' \in Seq(Entry)
    BY <1>1, <2>1
  <2>6. deaths' \in Nat
    BY <1>1, <2>3
  <2>7. launcher' \in [step : {"none", "locked", "installed"}, kind : Kinds,
                       expected : Expected \cup {None}]
    BY <1>1, <2>2
  <2> QED BY <1>1, <2>3, <2>4, <2>5, <2>6, <2>7 DEF TypeOK
<1>4. Owner'
  BY <1>1, NoJobIs DEF Owner, NoLaunch
<1>5. Queued'
  BY <1>1 DEF Queued
<1>6. Staged'
  BY <1>1 DEF IInv, Staged, Present, Ready, Begins, Stored, Receipts
<1>7. Room'
  <2>1. Used' = Used /\ ~Unresolved'
    BY <1>1, NoJobIs DEF Used, Present, Unresolved, Early, Asks
  <2>2. Cardinality(Used) \in Nat /\ jobs \in Nat
    BY FS_CardinalityType DEF IInv, Room, TypeOK
  <2> QED BY <1>1, <2>1, <2>2 DEF IInv, Room
<1> QED BY <1>2, <1>3, <1>4, <1>5, <1>6, <1>7 DEF IInv

LEMMA OtherClientKeeps == ASSUME IInv, OtherClient PROVE IInv'
<1>1. /\ UNCHANGED <<d, content, stamp, closed, launcher, job, active, worker, stopped, exit,
                     jobs, faults, deaths>>
      /\ others' = others + 1
  BY DEF OtherClient, fileVars
<1>2. PICK removes \in {None} \cup {s \in Source : Present(d, s)} :
         queue' = Append(queue, [command |-> "other", batch |-> None, removes |-> removes])
  BY DEF OtherClient
<1> DEFINE e == [command |-> "other", batch |-> None, removes |-> removes]
<1>3. e \in Entry /\ e.command = "other" /\ queue \in Seq(Entry)
  BY <1>2 DEF Entry, IInv, TypeOK
<1> HIDE DEF e
<1>4. /\ Len(queue') = Len(queue) + 1 /\ Len(queue) \in Nat /\ queue' \in Seq(Entry)
      /\ \A i \in 1..Len(queue) : queue'[i] = queue[i]
      /\ queue'[Len(queue) + 1] = e
  BY <1>2, <1>3 DEF e
<1>5. JobFacts(job)'
  BY <1>1, FactsKept DEF IInv
<1>6. TypeOK'
  BY <1>1, <1>4 DEF IInv, TypeOK
<1>7. Owner'
  BY <1>1 DEF IInv, Owner, Running, Promised, Present
<1>8. Queued'
  <2>1. \A i \in 1..Len(queue') : queue'[i].command # "other" =>
          i \in 1..Len(queue) /\ queue'[i] = queue[i]
    BY <1>3, <1>4
  <2> QED BY <1>1, <1>4, <2>1 DEF IInv, Queued
<1>9. Staged'
  BY <1>1 DEF IInv, Staged, Present, Ready, Begins, Stored, Receipts
<1>10. Room'
  BY <1>1 DEF IInv, Room, Used, Present, Unresolved, Asks
<1> QED BY <1>5, <1>6, <1>7, <1>8, <1>9, <1>10 DEF IInv

(* By the time the worker is stopped no command of a job is left.           *)
LEMMA WorkerExitsKeeps == ASSUME IInv, WorkerExits PROVE IInv'
<1>1. /\ UNCHANGED <<d, content, stamp, closed, launcher, active, stopped, exit,
                     jobs, others, faults, deaths>>
      /\ worker' = "gone" /\ queue' = <<>> /\ stopped
  BY DEF WorkerExits, fileVars, counts
<1>2. job.pc = "none"
  BY <1>1 DEF IInv, Owner
<1>3. job' = job
  <2>1. ~\E i \in 1..Len(queue) : queue[i].command # "other"
    BY <1>2 DEF IInv, Queued
  <2> QED BY <2>1 DEF WorkerExits
<1>4. JobFacts(job)'
  <2>1. Importing(job)'
    BY <1>1 DEF Importing
  <2> QED BY <1>1, <1>3, <2>1, FactsStay DEF IInv
<1>5. TypeOK'
  BY <1>1, <1>3 DEF IInv, TypeOK
<1>6. Owner'
  BY <1>1, <1>2, <1>3 DEF IInv, Owner, Running, Promised, Present
<1>7. Queued'
  BY <1>1 DEF Queued
<1>8. Staged'
  BY <1>1 DEF IInv, Staged, Present, Ready, Begins, Stored, Receipts
<1>9. Room'
  BY <1>1, <1>3 DEF IInv, Room, Used, Present, Unresolved, Asks
<1> QED BY <1>4, <1>5, <1>6, <1>7, <1>8, <1>9 DEF IInv

-----------------------------------------------------------------------------
(* The database.                                                            *)

LEMMA NoRunIs ==
  NoRun \in Run /\ NoRun.phase = "none" /\ NoRun.session = None /\ NoRun.receipts = <<>>
<1>1. <<>> \in Ledgers
  BY DEF Ledgers
<1>2. /\ "none" \in Phases /\ None \in Sessions /\ None \in RunCodes /\ 0 \in Counts
  BY DEF Phases, Sessions, RunCodes, Counts
<1> QED BY <1>1, <1>2 DEF NoRun, Run

LEMMA NoSourceIs ==
  NoSource \in Registration /\ NoSource.state = "absent" /\ NoSource.print = None
BY DEF NoSource, Registration

(* What a run says when it has been saved.                                  *)
SetRun(r, p, n, c, v, m) ==
  [r EXCEPT !.phase = p, !.session = n, !.code = c, !.rev = v, !.missing = m]
LEMMA SetRunIs ==
  ASSUME NEW r \in Run, NEW p \in Phases, NEW n \in Sessions, NEW c \in RunCodes, NEW v \in Counts,
         NEW m \in Counts
  PROVE  LET x == SetRun(r, p, n, c, v, m)
         IN /\ x \in Run /\ x.phase = p /\ x.session = n /\ x.receipts = r.receipts
            /\ x.items = r.items
<1> DEFINE x == SetRun(r, p, n, c, v, m)
<1>1. x \in Run
  BY DEF SetRun, Run
<1>2. x.phase = p /\ x.session = n /\ x.receipts = r.receipts /\ x.items = r.items
  BY DEF SetRun, Run
<1> QED BY <1>1, <1>2

LEMMA WorkerOpensKeeps == ASSUME IInv, WorkerOpens PROVE IInv'
<1>1. /\ UNCHANGED <<content, stamp, closed, launcher, job, active, stopped, queue, exit,
                     jobs, others, faults, deaths>>
      /\ worker = "opening" /\ job.pc = "open" /\ worker' \in {"up", "failed"}
      /\ \/ worker' = "up" /\ d' = InterruptRuns(d)
         \/ worker' = "failed" /\ d' = d
  BY DEF WorkerOpens, fileVars, counts, IInv, Owner
<1>2. d \in Db
  BY DEF IInv, TypeOK
<1>3. /\ d' \in Db
      /\ \A s \in Source :
           /\ d'.rows[s] = d.rows[s] /\ d'.task[s] = d.task[s]
           /\ d'.run[s].receipts = d.run[s].receipts
           /\ d'.source[s].print = d.source[s].print
           /\ d'.source[s].state = "absent" <=> d.source[s].state = "absent"
           /\ Ready(d', s) => Ready(d, s)
           /\ d.source[s].state = "absent" => d'.source[s] = d.source[s] /\ d'.run[s] = d.run[s]
           /\ worker' = "up" => d'.run[s].phase # "importing"
  <2>1. CASE worker' = "up" /\ d' = InterruptRuns(d)
    <3> DEFINE run == [s \in Source |->
                          IF d.run[s].phase = "importing"
                          THEN [d.run[s] EXCEPT !.phase = "interrupted", !.rev = @ + 1]
                          ELSE d.run[s]]
               source == [s \in Source |->
                            IF d.run[s].phase = "importing"
                            THEN [d.source[s] EXCEPT !.state = "unavailable"] ELSE d.source[s]]
    <3>1. d' = [d EXCEPT !.run = run, !.source = source]
      BY <2>1 DEF InterruptRuns
    <3>2. d.run \in [Source -> Run] /\ d.source \in [Source -> Registration]
      BY <1>2 DEF Db
    <3>3. \A s \in Source : /\ run[s] \in Run /\ run[s].receipts = d.run[s].receipts
                            /\ run[s].phase # "importing"
                            /\ d.run[s].phase # "importing" => run[s] = d.run[s]
                            /\ run[s].phase = "ready" => d.run[s].phase = "ready"
      <4>1. SUFFICES ASSUME NEW s \in Source
                     PROVE  /\ run[s] \in Run /\ run[s].receipts = d.run[s].receipts
                            /\ run[s].phase # "importing"
                            /\ d.run[s].phase # "importing" => run[s] = d.run[s]
                            /\ run[s].phase = "ready" => d.run[s].phase = "ready"
        OBVIOUS
      <4>2. d.run[s] \in Run
        BY <3>2
      <4>3. CASE d.run[s].phase # "importing"
        BY <4>2, <4>3
      <4>4. CASE d.run[s].phase = "importing"
        <5> DEFINE r == d.run[s]
        <5>1. /\ "interrupted" \in Phases /\ r.rev + 1 \in Counts /\ r.session \in Sessions
              /\ r.code \in RunCodes /\ r.missing \in Counts
          BY <4>2 DEF Run, Phases, Counts
        <5>2. run[s] = SetRun(r, "interrupted", r.session, r.code, r.rev + 1, r.missing)
          BY <4>2, <4>4 DEF SetRun, Run
        <5> QED BY <4>2, <4>4, <5>1, <5>2, SetRunIs
      <4> QED BY <4>3, <4>4
    <3>4. \A s \in Source : /\ source[s] \in Registration /\ source[s].print = d.source[s].print
                            /\ d.run[s].phase # "importing" => source[s] = d.source[s]
                            /\ d.run[s].phase = "importing" => source[s].state = "unavailable"
      <4>1. SUFFICES ASSUME NEW s \in Source
                     PROVE  /\ source[s] \in Registration /\ source[s].print = d.source[s].print
                            /\ d.run[s].phase # "importing" => source[s] = d.source[s]
                            /\ d.run[s].phase = "importing" => source[s].state = "unavailable"
        OBVIOUS
      <4>2. d.source[s] \in Registration
        BY <3>2
      <4> QED BY <4>2 DEF Registration
    <3>5. run \in [Source -> Run] /\ source \in [Source -> Registration]
      BY <3>3, <3>4
    <3> HIDE DEF run, source
    <3>6. /\ d' \in Db /\ d'.run = run /\ d'.source = source
          /\ d'.rows = d.rows /\ d'.task = d.task
      BY <1>2, <3>1, <3>5 DEF Db
    <3>7. \A s \in Source : d.source[s].state = "absent" => d.run[s].phase # "importing"
      BY NoRunIs DEF IInv, Staged, Present
    <3> QED BY <3>3, <3>4, <3>6, <3>7 DEF Ready
  <2>2. CASE worker' = "failed" /\ d' = d
    BY <1>2, <2>2
  <2> QED BY <1>1, <2>1, <2>2
<1>4. \A s \in Source : (Present(d', s) <=> Present(d, s))
  BY <1>3 DEF Present
<1>5. JobFacts(job)'
  <2>1. /\ JobFacts(job) /\ ~There(job) /\ ~Has(job)
        /\ \A c : ~Asks(job, c) /\ ~HasOk(job, c)
    BY <1>1 DEF IInv, JobFacts, Stages, Early, There, Has, Asks, HasOk
  <2>2. ~There(job)' /\ ~Has(job)'
    BY <1>1, <2>1 DEF There, Has, JobFacts, Stages, Early
  <2>3. Stages(job)'
    BY <1>1, <2>1 DEF JobFacts, Stages, Asks
  <2>4. Replay(job)'
    BY <1>1, <2>1, <2>2 DEF JobFacts, Replay, Live, Asks
  <2>5. Owns(job)'
    <3>1. Promised(job.expected)'
      <4>1. job.expected # None => job.expected.source \in Source
        BY DEF IInv, TypeOK, Jobs, Wanted, Expected
      <4> QED BY <1>1, <1>3, <1>4, <2>1, <4>1 DEF Promised, JobFacts, Owns
    <3> QED BY <1>1, <2>1, <2>2, <3>1 DEF JobFacts, Owns, HasOk
  <2>6. Phased(job)'
    BY <2>2 DEF Phased
  <2>7. Cancelled(job)'
    BY <1>1, <2>1, <2>2 DEF JobFacts, Cancelled, Asks
  <2>8. Importing(job)'
    BY <1>3 DEF Importing
  <2> QED BY <1>1, <2>1, <2>3, <2>4, <2>5, <2>6, <2>7, <2>8 DEF JobFacts
<1>6. TypeOK'
  BY <1>1, <1>3 DEF IInv, TypeOK
<1>7. Owner'
  <2>1. launcher = NoLaunch \/ Promised(launcher.expected)'
    <3>1. launcher.expected # None => launcher.expected.source \in Source
      BY DEF IInv, TypeOK, Expected
    <3> QED BY <1>1, <1>3, <1>4, <3>1 DEF IInv, Owner, Promised
  <2> QED BY <1>1, <2>1 DEF IInv, Owner, Running
<1>8. Queued'
  BY <1>1 DEF IInv, Queued
<1>9. Staged'
  <2>1. ASSUME NEW s \in Source
        PROVE  /\ Stored(s)' = Stored(s)
               /\ \A a : Begins(a, s)' <=> Begins(a, s)
    <3>1. Receipts(s)' = Receipts(s)
      BY <1>3 DEF Receipts
    <3> QED BY <3>1 DEF Stored, Begins
  <2> QED BY <1>3, <1>4, <2>1 DEF IInv, Staged, Present
<1>10. Room'
  <2>1. Used' = Used
    BY <1>3, <1>4 DEF Used
  <2> QED BY <1>1, <2>1 DEF IInv, Room, Unresolved, Asks
<1> QED BY <1>5, <1>6, <1>7, <1>8, <1>9, <1>10 DEF IInv

LEMMA InitHolds == ASSUME Init PROVE IInv
<1>1. /\ d = EmptyDb /\ content = Selected /\ stamp = 0 /\ closed = FALSE
      /\ launcher = NoLaunch /\ job = NoJob /\ active = FALSE
      /\ worker = "none" /\ stopped = FALSE /\ queue = <<>> /\ exit = "none"
      /\ jobs = 0 /\ others = 0 /\ faults = 0 /\ deaths = 0
  BY DEF Init
<1>2. /\ d \in Db
      /\ \A s \in Source : /\ d.source[s] = NoSource /\ d.run[s] = NoRun /\ d.rows[s] = {}
                           /\ d.task[s] = "none" /\ ~Present(d, s)
  BY <1>1, NoRunIs, NoSourceIs DEF EmptyDb, Db, Present
<1>3. TypeOK
  <2>1. <<>> \in Seq(Entry)
    OBVIOUS
  <2>2. NoLaunch \in [step : {"none", "locked", "installed"}, kind : Kinds,
                      expected : Expected \cup {None}]
    BY DEF NoLaunch, Kinds
  <2>3. Selected \in Archive
    BY DiscordImportAssumption
  <2> QED BY <1>1, <1>2, <2>1, <2>2, <2>3, NoJobIs DEF TypeOK
<1>4. Owner
  BY <1>1, NoJobIs DEF Owner, NoLaunch
<1>5. Queued
  BY <1>1 DEF Queued
<1>6. Staged
  <2>1. \A s \in Source : Stored(s) = {} /\ IsFiniteSet(d.rows[s]) /\ ~Ready(d, s)
    <3>1. SUFFICES ASSUME NEW s \in Source
                   PROVE  Stored(s) = {} /\ IsFiniteSet(d.rows[s]) /\ ~Ready(d, s)
      OBVIOUS
    <3>2. Len(Receipts(s)) = 0
      BY <1>2, NoRunIs DEF Receipts
    <3>3. Stored(s) = {}
      BY <3>2 DEF Stored
    <3>4. IsFiniteSet(d.rows[s])
      BY <1>2, FS_EmptySet
    <3> QED BY <1>2, <3>3, <3>4, NoSourceIs DEF Ready
  <2> QED BY <1>2, <2>1 DEF Staged
<1>7. Room
  <2>1. Used = {} /\ ~Unresolved
    BY <1>1, <1>2, NoJobIs DEF Used, Unresolved, Early, Asks
  <2>2. MaxJobs \in Nat
    BY DiscordImportAssumption
  <2> QED BY <1>1, <2>1, <2>2, FS_EmptySet DEF Room
<1>8. JobFacts(job)
  <2>1. Promised(None) /\ stamp \in Nat
    BY <1>1 DEF Promised
  <2> QED BY <1>1, <2>1, NoJobIs, IdleFacts
<1> QED BY <1>3, <1>4, <1>5, <1>6, <1>7, <1>8 DEF IInv

-----------------------------------------------------------------------------
(* The commands of the job.                                                 *)

(* The command at the head of the queue, if it is the job's.                *)
LEMMA HeadIs ==
  ASSUME IInv, queue # <<>>, Head(queue).command # "other"
  PROVE  /\ job.pc = "wait" /\ job.reply = NoReply /\ job.then = Head(queue).command
         /\ job.then \in Commands /\ Live(job) /\ Running /\ launcher = NoLaunch
         /\ ~Has(job) /\ (\A c : ~HasOk(job, c)) /\ (\A c : Asks(job, c) <=> job.then \in c)
         /\ queue \in Seq(Entry) /\ Tail(queue) \in Seq(Entry)
         /\ \A i \in 1..Len(Tail(queue)) : Tail(queue)[i].command = "other"
         /\ job.then = "append" =>
              /\ Head(queue).batch \in Batch
              /\ job.stamp = stamp => /\ job.next <= Len(Batches[job.print])
                                      /\ Head(queue).batch = Batches[job.print][job.next]
         /\ job.then = "resolve" => Unresolved
         /\ JobFacts(job) /\ job \in Jobs /\ Stages(job) /\ Replay(job) /\ Owns(job)
         /\ Phased(job) /\ Cancelled(job) /\ Importing(job)
<1>1. /\ queue \in Seq(Entry) /\ Len(queue) \in Nat /\ 1 \in 1..Len(queue)
      /\ Head(queue) = queue[1] /\ Tail(queue) \in Seq(Entry)
      /\ Len(Tail(queue)) = Len(queue) - 1
      /\ \A i \in 1..Len(Tail(queue)) : Tail(queue)[i] = queue[i + 1] /\ i + 1 \in 1..Len(queue)
  BY DEF IInv, TypeOK
<1>2. /\ job.pc = "wait" /\ job.reply = NoReply /\ job.then = Head(queue).command
      /\ \A k \in 1..Len(queue) : queue[k].command # "other" => k = 1
      /\ job.then = "append" =>
           /\ Head(queue).batch \in Batch
           /\ job.stamp = stamp => /\ job.next <= Len(Batches[job.print])
                                   /\ Head(queue).batch = Batches[job.print][job.next]
  BY <1>1 DEF IInv, Queued
<1>3. \A i \in 1..Len(Tail(queue)) : Tail(queue)[i].command = "other"
  <2>1. SUFFICES ASSUME NEW i \in 1..Len(Tail(queue)) PROVE Tail(queue)[i].command = "other"
    OBVIOUS
  <2>2. i + 1 # 1
    OBVIOUS
  <2> QED BY <1>1, <1>2, <2>1, <2>2
<1>4. JobFacts(job) /\ job \in Jobs /\ Stages(job)
  BY DEF IInv, JobFacts
<1>5. launcher = NoLaunch
  BY <1>2 DEF IInv, TypeOK, Owner, Running
<1>6. job.then \in Commands
  BY <1>2, <1>4 DEF Stages
<1>7. ~Has(job) /\ (\A c : ~HasOk(job, c)) /\ (\A c : Asks(job, c) <=> job.then \in c)
  BY <1>2 DEF Has, HasOk, Asks
<1>8. job.then = "resolve" => Unresolved
  BY <1>2 DEF Unresolved, Asks
<1> QED BY <1>1, <1>2, <1>3, <1>4, <1>5, <1>6, <1>7, <1>8 DEF JobFacts, Live, Running

(* A command is executed: what is to be shown of it.                        *)
LEMMA ExecuteKeeps ==
  ASSUME IInv, queue # <<>>, Head(queue).command # "other", worker = "up",
         queue' = Tail(queue), NEW r \in Answers, job' = SetReply(job, r), r.error # "none",
         UNCHANGED <<fileVars, closed, launcher, active, worker, stopped, exit, jobs, others, deaths>>,
         faults' \in Nat, d' \in Db, Staged', JobFacts(job)',
         Used' = Used \/ (job.then = "resolve" /\ \E s : s \notin Used /\ Used' = Used \cup {s})
  PROVE  IInv'
<1>1. UNCHANGED <<content, stamp, closed, launcher, active, worker, stopped, exit,
                  jobs, others, deaths>>
  BY DEF fileVars
<1>2. r \in Replies
  BY DEF Replies
<1>3. /\ job' \in Jobs /\ job'.reply = r /\ job'.pc = "wait" /\ job'.then = job.then
  BY <1>2, HeadIs, SetReplyIs
<1>4. r # NoReply
  BY DEF NoReply
<1>5. TypeOK'
  BY <1>1, <1>3, HeadIs DEF IInv, TypeOK
<1>6. Owner'
  BY <1>1, <1>3, HeadIs DEF IInv, Owner
<1>7. Queued'
  BY HeadIs DEF Queued
<1>8. Room'
  <2>1. ~Unresolved'
    BY <1>1, <1>3, <1>4, HeadIs DEF Unresolved, Early, Asks
  <2>2. Cardinality(Used) \in Nat /\ IsFiniteSet(Used) /\ jobs \in Nat
    BY FS_CardinalityType DEF IInv, Room, TypeOK
  <2>3. CASE Used' = Used
    BY <1>1, <2>1, <2>2, <2>3 DEF IInv, Room
  <2>4. CASE job.then = "resolve" /\ \E s : s \notin Used /\ Used' = Used \cup {s}
    <3>1. IsFiniteSet(Used') /\ Cardinality(Used') = Cardinality(Used) + 1
      BY <2>2, <2>4, FS_AddElement
    <3>2. Unresolved
      BY <2>4, HeadIs
    <3> QED BY <1>1, <2>1, <2>2, <3>1, <3>2 DEF IInv, Room
  <2> QED BY <2>3, <2>4
<1> QED BY <1>5, <1>6, <1>7, <1>8 DEF IInv

(* What is so of a job that is answered, where the database stays as it is. *)
LEMMA AnsweredFacts ==
  ASSUME IInv, queue # <<>>, Head(queue).command # "other", NEW r \in Answers, r.error # "none",
         job.then \in {"append", "finish"} /\ r.error = "Cancelled" => job.cancelled,
         job.then \in {"fed", "final"} =>
           r.error \in {"ok", "ScopeMismatch", "StaleCursor", "StorageFailure"},
         job.then = "append" /\ r.error = "ok" => Replayed(job, job.next),
         job.then = "resolve" /\ r.error = "ok" =>
           /\ r.reply \in Resolution /\ r.reply.disposition # "start"
           /\ Present(d, r.reply.source) => d.source[r.reply.source].print = job.print,
         job.then \in {"retry", "finish"} => r.error # "ok",
         job.then \in {"fed", "final", "ended"} /\ r.error = "ok" =>
           /\ r.reply \in Run \cup {None}
           /\ There(job) /\ r.reply # None => RunOf(job) = r.reply,
         job.then \in {"cancel", "fail"} /\ r.error \in {"ok", "StaleCursor", "Cancelled"}
           /\ There(job) => job.error = "StorageFailure" \/ RunOf(job).phase = EndPhase(job.error)
  PROVE  LET k == SetReply(job, r)
         IN /\ k \in Jobs /\ Stages(k) /\ Replay(k) /\ Owns(k) /\ Phased(k) /\ Cancelled(k)
            /\ \A s : /\ Doing(job, s)
                      /\ job.then \notin {"cancel", "fail"}
                      /\ job.then = "finish" => r.error # "IncompleteSource"
                      => Doing(k, s)
<1> DEFINE k == SetReply(job, r)
<1>1. r \in Replies /\ r # NoReply
  BY DEF Replies, NoReply
<1>2. /\ k \in Jobs /\ k.reply = r /\ k.pc = job.pc /\ k.expected = job.expected
      /\ k.cancelled = job.cancelled /\ k.signalling = job.signalling
      /\ k.signalled = job.signalled /\ k.stamp = job.stamp /\ k.print = job.print
      /\ k.next = job.next /\ k.error = job.error /\ k.then = job.then /\ k.session = job.session
      /\ k.source = job.source /\ k.checkpoint = job.checkpoint
  BY <1>1, HeadIs, SetReplyIs
<1> HIDE DEF k
<1>3. /\ Live(k) /\ Live(job) /\ (There(k) <=> There(job)) /\ RunOf(k) = RunOf(job)
      /\ k.pc = "wait" /\ Has(k) /\ ~Has(job)
      /\ \A c : Asks(k, c) <=> job.then \in c
      /\ \A c : HasOk(k, c) <=> job.then = c /\ r.error = "ok"
      /\ \A c : Asks(job, c) <=> job.then \in c
      /\ \A c : ~HasOk(job, c)
  BY <1>1, <1>2, HeadIs DEF Live, There, RunOf, Has, HasOk, Asks
<1>4. /\ Feeding(job) <=> job.then \in {"append", "fed", "finish"}
      /\ Feeding(k) <=> \/ job.then \in {"append", "fed"}
                        \/ job.then = "finish" /\ r.error \notin {"ok", "IncompleteSource"}
      /\ ~Closing(k) /\ (Closing(job) <=> job.then \in {"cancel", "fail"})
      /\ Ended(k) <=> \/ /\ job.then \in {"cancel", "fail"}
                         /\ r.error \in {"ok", "StaleCursor", "Cancelled"}
                      \/ job.then = "ended"
      /\ Ended(job) <=> job.then = "ended"
  BY <1>2, <1>3 DEF Feeding, Closing, Ended, Reading
<1>5. Stages(k)
  BY <1>2, <1>3, HeadIs DEF Stages, Early, Reading
<1>6. Replay(k)
  <2>1. Fed(k) = IF (job.then = "append" /\ r.error = "ok") \/ job.then = "fed"
                 THEN job.next ELSE job.next - 1
    BY <1>2, <1>3 DEF Fed
  <2>2. Fed(job) = IF job.then = "fed" THEN job.next ELSE job.next - 1
    BY <1>3 DEF Fed
  <2>3. CASE job.then = "append" /\ r.error = "ok"
    BY <1>2, <1>3, <2>1, <2>3, HeadIs DEF Replay, Replayed
  <2>4. CASE ~(job.then = "append" /\ r.error = "ok")
    BY <1>2, <1>3, <2>1, <2>2, <2>4, HeadIs DEF Replay
  <2> QED BY <2>3, <2>4
<1>7. Owns(k)
  BY <1>2, <1>3, HeadIs DEF Owns
<1>8. Phased(k)
  BY <1>2, <1>3, <1>4, HeadIs DEF Phased
<1>9. Cancelled(k)
  BY <1>2, <1>3, HeadIs DEF Cancelled
<1>10. \A s : /\ Doing(job, s)
              /\ job.then \notin {"cancel", "fail"}
              /\ job.then = "finish" => r.error # "IncompleteSource"
              => Doing(k, s)
  BY <1>2, <1>3, <1>4 DEF Doing
<1> QED BY <1>2, <1>5, <1>6, <1>7, <1>8, <1>9, <1>10 DEF k

(* What is so of a job that is answered, where its run was written.         *)
LEMMA WrittenFacts ==
  ASSUME IInv, queue # <<>>, Head(queue).command # "other", NEW r \in Answers, r.error # "none",
         job.then \in {"append", "finish", "cancel", "fail", "retry"},
         r.error = "ok" \/ (job.then = "finish" /\ r.error = "IncompleteSource"),
         NEW S \in Source, S = job.source, Present(d, S), d \in Db, d' \in Db,
         job' = SetReply(job, r), UNCHANGED <<content, stamp, worker, faults>>,
         \A s \in Source : /\ Present(d', s) <=> Present(d, s)
                           /\ d'.source[s].print = d.source[s].print,
         \A s \in Source \ {S} : d'.run[s] = d.run[s],
         Len(Receipts(S)) <= Len(d'.run[S].receipts),
         \A i \in 1..Len(Receipts(S)) : d'.run[S].receipts[i] = Receipts(S)[i],
         job.then = "retry" => /\ r.reply \in [session : Nat]
                               /\ d'.run[S].session = r.reply.session
                               /\ d'.run[S].phase = "importing",
         job.then # "retry" => d'.run[S].session = d.run[S].session,
         job.then = "append" =>
           /\ d'.run[S].phase = "importing"
           /\ job.stamp = stamp =>
                /\ job.next <= Len(d'.run[S].receipts)
                /\ d'.run[S].receipts[job.next].batch = Batches[job.print][job.next],
         job.then = "finish" =>
           d'.run[S].phase = IF r.error = "ok" THEN "ready" ELSE "failed",
         job.then \in {"cancel", "fail"} => d'.run[S].phase = EndPhase(job.error)
  PROVE  JobFacts(job)'
<1> DEFINE k == SetReply(job, r)
<1>1. r \in Replies /\ r # NoReply
  BY DEF Replies, NoReply
<1>2. /\ k \in Jobs /\ k.reply = r /\ k.pc = job.pc /\ k.expected = job.expected
      /\ k.cancelled = job.cancelled /\ k.signalling = job.signalling
      /\ k.signalled = job.signalled /\ k.stamp = job.stamp /\ k.print = job.print
      /\ k.next = job.next /\ k.error = job.error /\ k.then = job.then /\ k.session = job.session
      /\ k.source = S /\ k.checkpoint = job.checkpoint
  BY <1>1, HeadIs, SetReplyIs
<1>0. job' = k
  OBVIOUS
<1> HIDE DEF k
<1>3. /\ Live(k) /\ k.pc = "wait" /\ Has(k)
      /\ \A c : Asks(k, c) <=> job.then \in c
      /\ \A c : HasOk(k, c) <=> job.then = c /\ r.error = "ok"
      /\ S # None /\ There(job) /\ RunOf(job) = d.run[S]
  BY <1>1, <1>2, HeadIs, NoneIsNone DEF Live, Has, HasOk, Asks, There, RunOf
<1>4. /\ Live(job)' /\ Has(job)' /\ There(job)' /\ RunOf(job)' = d'.run[S]
      /\ Receipts(job.source)' = d'.run[S].receipts
  BY <1>0, <1>2, <1>3 DEF Live, Has, There, RunOf, Receipts
<1>5. /\ Feeding(k) <=> job.then = "append"
      /\ ~Closing(k)
      /\ Ended(k) <=> job.then \in {"cancel", "fail"}
  BY <1>2, <1>3 DEF Feeding, Closing, Ended, Reading
<1>6. job.then # "retry" => job.session # None /\ d.run[S].session = job.session
  BY <1>3, HeadIs DEF Stages, Commands, Owns
<1>7. job.then = "retry" => job.session = None
  BY HeadIs DEF Stages
<1>8. Stages(job)'
  <2>1. Stages(k)
    BY <1>2, <1>3, <1>6, <1>7, HeadIs DEF Stages, Early, Reading
  <2> QED BY <1>0, <2>1 DEF Stages, Asks
<1>9. Replay(job)'
  <2>1. Fed(k) = (IF job.then = "append" THEN job.next ELSE job.next - 1)
    BY <1>2, <1>3 DEF Fed
  <2>2. Fed(job) = job.next - 1 /\ job.next \in Nat \ {0}
    BY HeadIs DEF Fed, Jobs, Positions
  <2>3. Fed(job)' = (IF job.then = "append" THEN job.next ELSE job.next - 1)
    BY <1>0, <2>1 DEF Fed, HasOk, Has, Asks
  <2>4. Len(Receipts(S)) \in Nat /\ Len(d'.run[S].receipts) \in Nat /\ Len(Batches[job.print]) \in Nat
    <3>1. Receipts(S) \in Ledgers /\ d'.run[S].receipts \in Ledgers
      BY DEF Db, Run, Receipts
    <3>2. job.print \in Archive
      BY HeadIs DEF Stages, Early
    <3> QED BY <3>1, <3>2, BatchesAreBatches DEF Ledgers
  <2>5. job.stamp = stamp /\ job.session # None =>
          /\ Fed(job)' <= Len(Batches[job.print]) /\ Fed(job)' <= Len(d'.run[S].receipts)
          /\ \A i \in 1..Fed(job)' : d'.run[S].receipts[i].batch = Batches[job.print][i]
    <3>1. SUFFICES ASSUME job.stamp = stamp, job.session # None
                   PROVE  /\ Fed(job)' <= Len(Batches[job.print])
                          /\ Fed(job)' <= Len(d'.run[S].receipts)
                          /\ \A i \in 1..Fed(job)' :
                               d'.run[S].receipts[i].batch = Batches[job.print][i]
      OBVIOUS
    <3>2. /\ job.next - 1 <= Len(Batches[job.print]) /\ job.next - 1 <= Len(Receipts(S))
          /\ \A i \in 1..(job.next - 1) : Receipts(S)[i].batch = Batches[job.print][i]
      BY <1>3, <2>2, <3>1, HeadIs DEF Replay
    <3>3. \A i \in 1..(job.next - 1) : d'.run[S].receipts[i].batch = Batches[job.print][i]
      BY <2>2, <2>4, <3>2
    <3>4. CASE job.then = "append"
      <4>1. job.next <= Len(Batches[job.print]) /\ job.next <= Len(d'.run[S].receipts)
            /\ d'.run[S].receipts[job.next].batch = Batches[job.print][job.next]
        BY <3>1, <3>4, HeadIs
      <4>2. \A i \in 1..job.next : i \in 1..(job.next - 1) \/ i = job.next
        BY <2>2
      <4> QED BY <2>3, <3>3, <3>4, <4>1, <4>2
    <3>5. CASE job.then # "append"
      <4>1. job.next - 1 <= Len(d'.run[S].receipts)
        BY <2>2, <2>4, <3>2
      <4> QED BY <2>3, <3>2, <3>3, <3>5, <4>1
    <3> QED BY <3>4, <3>5
  <2>6. Asks(job, {"finish"})' => Begins(job.print, job.source)'
    <3>1. SUFFICES ASSUME job.then = "finish", NEW i \in 1..Len(Batches[job.print])
                   PROVE  i <= Len(d'.run[S].receipts)
                          /\ d'.run[S].receipts[i].batch = Batches[job.print][i]
      BY <1>0, <1>2, <1>3, <1>4 DEF Begins, Asks
    <3>2. i <= Len(Receipts(S)) /\ Receipts(S)[i].batch = Batches[job.print][i]
      BY <1>3, <3>1, HeadIs DEF Replay, Begins
    <3>3. i \in 1..Len(Receipts(S)) /\ i <= Len(d'.run[S].receipts)
      BY <2>4, <3>2
    <3> QED BY <3>2, <3>3
  <2> QED BY <1>0, <1>2, <1>3, <1>4, <2>5, <2>6, HeadIs DEF Replay
<1>10. Owns(job)'
  <2>1. Promised(job.expected)'
    <3>1. job.expected # None => job.expected.source \in Source
      BY HeadIs DEF Jobs, Wanted, Expected
    <3> QED BY <1>0, <1>2, <3>1, HeadIs DEF Promised, Owns
  <2>2. d'.source[S].print = job.print
    BY <1>3, HeadIs DEF Owns
  <2>3. \A c : HasOk(job, c)' <=> HasOk(k, c)
    BY <1>0 DEF HasOk, Has
  <2> QED BY <1>0, <1>2, <1>3, <1>4, <1>6, <1>7, <2>1, <2>2 DEF Owns, HasOk, Has
<1>11. Phased(job)'
  <2>1. /\ Feeding(job)' <=> job.then = "append"
        /\ ~Closing(job)'
        /\ Ended(job)' <=> job.then \in {"cancel", "fail"}
    BY <1>0, <1>5 DEF Feeding, Closing, Ended, Has, Asks
  <2> QED BY <1>0, <1>2, <1>3, <1>4, <1>7, <2>1 DEF Phased, HasOk, Has, Asks
<1>12. Cancelled(job)'
  BY <1>0, <1>2, <1>3, <1>4, HeadIs DEF Cancelled, Asks, Has
<1>13. Importing(job)'
  <2>1. SUFFICES ASSUME worker = "up", faults = 0, NEW s \in Source, d'.run[s].phase = "importing"
                 PROVE  Doing(job, s)'
    BY DEF Importing
  <2>2. CASE s = S
    <3>1. job.then \in {"append", "retry"}
      BY <2>1, <2>2 DEF EndPhase
    <3>2. job.then = "append" => Feeding(job)'
      BY <1>0, <1>5 DEF Feeding, Has, Asks
    <3>3. job.then = "retry" => HasOk(job, "retry")'
      BY <1>0, <1>3 DEF HasOk, Has
    <3> QED BY <1>0, <1>2, <1>6, <2>2, <3>1, <3>2, <3>3 DEF Doing
  <2>3. CASE s # S
    <3>1. Doing(job, s)
      BY <2>1, <2>3, HeadIs DEF Importing
    <3> QED BY <2>3, <3>1, HeadIs DEF Doing
  <2> QED BY <2>2, <2>3
<1> QED BY <1>0, <1>2, <1>8, <1>9, <1>10, <1>11, <1>12, <1>13 DEF JobFacts

(* The content of the database, where one run was written.                  *)
LEMMA WrittenStaged ==
  ASSUME IInv, NEW S \in Source, Present(d, S),
         \A s \in Source : /\ Present(d', s) <=> Present(d, s)
                           /\ d'.source[s].print = d.source[s].print,
         \A s \in Source \ {S} :
           d'.run[s] = d.run[s] /\ d'.source[s] = d.source[s] /\ d'.rows[s] = d.rows[s],
         IsFiniteSet(d'.rows[S]),
         d'.rows[S] = UNION {d'.run[S].receipts[i].batch.contents : i \in 1..Len(d'.run[S].receipts)},
         Ready(d', S) => \A i \in 1..Len(Batches[d.source[S].print]) :
                           /\ i <= Len(d'.run[S].receipts)
                           /\ d'.run[S].receipts[i].batch = Batches[d.source[S].print][i]
  PROVE  Staged'
<1>1. Stored(S)' = d'.rows[S]
  BY DEF Stored, Receipts
<1>2. SUFFICES ASSUME NEW s \in Source
               PROVE  /\ ~Present(d', s) => /\ d'.source[s] = NoSource /\ d'.run[s] = NoRun
                                            /\ d'.rows[s] = {}
                      /\ Present(d', s) => d'.source[s].print \in Archive
                      /\ IsFiniteSet(d'.rows[s])
                      /\ d'.rows[s] = Stored(s)'
                      /\ Ready(d', s) => \A i \in 1..Len(Batches[d'.source[s].print]) :
                           /\ i <= Len(d'.run[s].receipts)
                           /\ d'.run[s].receipts[i].batch = Batches[d'.source[s].print][i]
  BY DEF Staged, Present, Begins, Receipts
<1>3. CASE s = S
  BY <1>1, <1>3 DEF IInv, Staged
<1>4. CASE s # S
  <2>1. /\ d'.run[s] = d.run[s] /\ d'.source[s] = d.source[s] /\ d'.rows[s] = d.rows[s]
        /\ (Ready(d', s) <=> Ready(d, s))
    BY <1>4 DEF Ready
  <2>2. Stored(s)' = Stored(s)
    BY <2>1 DEF Stored, Receipts
  <2>3. Ready(d, s) => \A i \in 1..Len(Batches[d.source[s].print]) :
                         /\ i <= Len(d.run[s].receipts)
                         /\ d.run[s].receipts[i].batch = Batches[d.source[s].print][i]
    BY DEF IInv, Staged, Begins, Receipts
  <2> QED BY <2>1, <2>2, <2>3 DEF IInv, Staged
<1> QED BY <1>3, <1>4

(* What save_run and set_source_phase leave.                                *)
Live4 == {"importing", "ready", "failed", "cancelled"}
LEMMA MoveIs ==
  ASSUME NEW e \in Db, NEW s \in Source, NEW r \in Run, r.phase \in Live4
  PROVE  LET m == Move(e, s, r)
         IN /\ m \in Db
            /\ m.run[s].phase = r.phase /\ m.run[s].session = r.session
            /\ m.run[s].receipts = r.receipts
            /\ m.source[s].state # "absent" /\ m.source[s].print = e.source[s].print
            /\ m.source[s].state = "ready" => r.phase = "ready"
            /\ m.rows = e.rows /\ m.task = e.task
            /\ \A x \in Source \ {s} : m.run[x] = e.run[x] /\ m.source[x] = e.source[x]
<1> DEFINE saved == [r EXCEPT !.rev = @ + 1]
           state == StateOf(r.phase)
           run == [e.run EXCEPT ![s] = saved]
           source == [e.source EXCEPT ![s].state = state]
           m == Move(e, s, r)
<1>1. /\ saved \in Run /\ saved.phase = r.phase /\ saved.session = r.session
      /\ saved.receipts = r.receipts
  <2>1. /\ r.phase \in Phases /\ r.session \in Sessions /\ r.code \in RunCodes
        /\ r.rev + 1 \in Counts /\ r.missing \in Counts
    BY DEF Run, Counts
  <2>2. saved = SetRun(r, r.phase, r.session, r.code, r.rev + 1, r.missing)
    BY DEF SetRun, Run
  <2> QED BY <2>1, <2>2, SetRunIs
<1>2. /\ state \in {"preparing", "ready", "failed", "unavailable"}
      /\ state = "ready" => r.phase = "ready"
  BY DEF StateOf, Live4
<1>3. e.run \in [Source -> Run] /\ e.source \in [Source -> Registration]
  BY DEF Db
<1>4. run \in [Source -> Run] /\ run[s] = saved /\ \A x \in Source \ {s} : run[x] = e.run[x]
  BY <1>1, <1>3
<1>5. /\ source \in [Source -> Registration]
      /\ source[s].state = state /\ source[s].print = e.source[s].print
      /\ \A x \in Source \ {s} : source[x] = e.source[x]
  <2>1. [e.source[s] EXCEPT !.state = state] \in Registration
    BY <1>2, <1>3 DEF Registration
  <2>2. e.source[s] \in Registration
    BY <1>3
  <2> HIDE DEF state
  <2>3. source[s] = [e.source[s] EXCEPT !.state = state]
    BY <1>3
  <2> QED BY <1>3, <2>1, <2>2, <2>3 DEF Registration
<1>6. m = [[e EXCEPT !.run[s] = saved] EXCEPT !.source[s].state = state]
  BY DEF Move, SaveRun
<1> HIDE DEF saved, state, m
<1>7. m = [e EXCEPT !.run = run, !.source = source]
  BY <1>6 DEF Db
<1> HIDE DEF run, source
<1>8. m \in Db /\ m.run = run /\ m.source = source /\ m.rows = e.rows /\ m.task = e.task
  BY <1>4, <1>5, <1>7 DEF Db
<1> QED BY <1>1, <1>2, <1>4, <1>5, <1>8 DEF m


(* Where what the worker shares with the job stays, its database does.      *)
LEMMA StagedStays == ASSUME IInv, d' = d PROVE Staged' /\ Used' = Used /\ d' \in Db
<1>1. Staged'
  BY DEF IInv, Staged, Present, Ready, Begins, Stored, Receipts
<1>2. Used' = Used
  BY DEF Used, Present
<1> QED BY <1>1, <1>2 DEF IInv, TypeOK

(* An answered command that left the database as it is.                     *)
LEMMA AnsweredKeeps ==
  ASSUME IInv, queue # <<>>, Head(queue).command # "other", worker = "up",
         queue' = Tail(queue), NEW r \in Answers, job' = SetReply(job, r), r.error # "none",
         UNCHANGED <<fileVars, closed, launcher, active, worker, stopped, exit, jobs, others, deaths>>,
         d' = d, faults' \in Nat,
         job.then \in {"append", "finish"} /\ r.error = "Cancelled" => job.cancelled,
         job.then \in {"fed", "final"} =>
           r.error \in {"ok", "ScopeMismatch", "StaleCursor", "StorageFailure"},
         job.then = "append" /\ r.error = "ok" => Replayed(job, job.next),
         job.then = "resolve" /\ r.error = "ok" =>
           /\ r.reply \in Resolution /\ r.reply.disposition # "start"
           /\ Present(d, r.reply.source) => d.source[r.reply.source].print = job.print,
         job.then \in {"retry", "finish"} => r.error # "ok",
         job.then \in {"fed", "final", "ended"} /\ r.error = "ok" =>
           /\ r.reply \in Run \cup {None}
           /\ There(job) /\ r.reply # None => RunOf(job) = r.reply,
         job.then \in {"cancel", "fail"} /\ r.error \in {"ok", "StaleCursor", "Cancelled"}
           /\ There(job) => job.error = "StorageFailure" \/ RunOf(job).phase = EndPhase(job.error),
         faults' = 0 =>
           /\ faults = 0
           /\ job.then = "finish" => r.error # "IncompleteSource"
           /\ job.then \in {"cancel", "fail"} /\ There(job) => RunOf(job).phase # "importing"
  PROVE  IInv'
<1> DEFINE k == SetReply(job, r)
<1>0. job' = k
  OBVIOUS
<1>1. /\ k \in Jobs /\ Stages(k) /\ Replay(k) /\ Owns(k) /\ Phased(k) /\ Cancelled(k)
      /\ \A s : /\ Doing(job, s)
                /\ job.then \notin {"cancel", "fail"}
                /\ job.then = "finish" => r.error # "IncompleteSource"
                => Doing(k, s)
  BY AnsweredFacts
<1> HIDE DEF k
<1>2. UNCHANGED <<content, stamp>>
  BY DEF fileVars
<1>3. Importing(job)'
  <2>1. SUFFICES ASSUME faults' = 0, NEW s \in Source, d.run[s].phase = "importing"
                 PROVE  Doing(job, s)'
    BY DEF Importing
  <2>2. Doing(job, s)
    BY <2>1, HeadIs DEF Importing
  <2>3. job.then \notin {"cancel", "fail"}
    <3>1. SUFFICES ASSUME job.then \in {"cancel", "fail"} PROVE FALSE
      OBVIOUS
    <3>2. s = job.source
      BY <2>2, <3>1, HeadIs DEF Doing
    <3>3. There(job)
      <4>1. Present(d, s)
        BY <2>1, NoRunIs DEF IInv, Staged
      <4> QED BY <3>2, <4>1, NoneIsNone DEF There
    <3> QED BY <2>1, <3>1, <3>2, <3>3 DEF RunOf
  <2>4. Doing(k, s)
    BY <1>1, <2>1, <2>2, <2>3
  <2>5. Doing(job, s)' <=> Doing(k, s)
    BY <1>0 DEF Doing, HasOk, Has, Feeding, Closing, Asks
  <2> QED BY <2>4, <2>5
<1>4. JobFacts(job)'
  BY <1>0, <1>1, <1>2, <1>3, FactsCarry
<1> QED BY <1>4, StagedStays, ExecuteKeeps

(* A refused command, whatever it was: a failed transaction.                *)
LEMMA FaultKeeps ==
  ASSUME IInv, queue # <<>>, Head(queue).command # "other", worker = "up",
         queue' = Tail(queue), job' = SetReply(job, [error |-> "StorageFailure", reply |-> None]),
         UNCHANGED <<fileVars, closed, launcher, active, worker, stopped, exit, jobs, others, deaths>>,
         d' = d, faults' = faults + 1
  PROVE  IInv'
<1> DEFINE r == [error |-> "StorageFailure", reply |-> None]
<1>1. r \in Answers /\ r.error = "StorageFailure"
  BY DEF Answers, Errors, Told
<1> HIDE DEF r
<1>2. faults' \in Nat /\ faults' # 0
  BY DEF IInv, TypeOK
<1>3. job' = SetReply(job, r)
  BY DEF r
<1> QED BY <1>1, <1>2, <1>3, AnsweredKeeps

(* What a session that ends or feeds a run is refused for.                  *)
LEMMA ActiveIs ==
  ASSUME IInv, queue # <<>>, Head(queue).command # "other",
         job.then \in {"append", "finish", "cancel", "fail"}
  PROVE  LET e == ActiveSession(d, Session)
         IN /\ e \in {"ok", "ScopeMismatch", "StaleCursor", "Cancelled"}
            /\ job.source \in Source /\ job.print \in Archive /\ job.session # None
            /\ e = "ok" => /\ There(job) /\ Present(d, job.source)
                           /\ RunOf(job).phase = "importing"
            /\ e # "ok" /\ There(job) => RunOf(job).phase # "importing"
            /\ e # "ok" /\ job.then \in {"append", "finish"} => ~There(job) /\ e = "ScopeMismatch"
            /\ e # "ok" /\ job.then \in {"cancel", "fail"} /\ There(job) =>
                 job.error = "StorageFailure"
<1> DEFINE e == ActiveSession(d, Session)
<1>1. job.source \in Source /\ job.print \in Archive /\ job.session # None
  BY HeadIs DEF Stages, Early, Commands
<1>2. There(job) <=> Present(d, job.source)
  BY <1>1, NoneIsNone DEF There
<1>3. There(job) => d.source[job.source].print = job.print /\ d.run[job.source].session = job.session
  BY <1>1, HeadIs DEF Owns, RunOf
<1>4. NoRun.session = None
  BY NoRunIs
<1>5. /\ Session.source = job.source /\ Session.id = job.session /\ Session.print = job.print
  BY DEF Session
<1>6. e = IF ~There(job) THEN "ScopeMismatch"
          ELSE IF d.run[job.source].phase = "cancelled" THEN "Cancelled"
          ELSE IF d.run[job.source].phase # "importing" THEN "StaleCursor" ELSE "ok"
  BY <1>1, <1>2, <1>3, <1>4, <1>5 DEF ActiveSession
<1> HIDE DEF e
<1>7. job.then \in {"append", "finish"} /\ There(job) => RunOf(job).phase = "importing"
  <2>1. job.then \in {"append", "finish"} => Feeding(job)
    BY HeadIs DEF Feeding
  <2> QED BY <1>1, <2>1, HeadIs DEF Phased
<1>8. job.then \in {"cancel", "fail"} /\ There(job) =>
        job.error = "StorageFailure" \/ RunOf(job).phase = "importing"
  <2>1. job.then \in {"cancel", "fail"} => Closing(job)
    BY HeadIs DEF Closing
  <2> QED BY <1>1, <2>1, HeadIs DEF Phased
<1> QED BY <1>1, <1>2, <1>6, <1>7, <1>8 DEF RunOf, e

(* A command of the job is executed with this result.                       *)
Executing(result) ==
  /\ queue # <<>> /\ Head(queue).command # "other" /\ worker = "up" /\ queue' = Tail(queue)
  /\ d' = result.db /\ job' = SetReply(job, Answer(result))
  /\ UNCHANGED <<fileVars, closed, launcher, active, worker, stopped, exit, jobs, others, faults,
                 deaths>>

LEMMA RefusedKeeps ==
  ASSUME IInv, NEW e \in Errors \ {"ok"}, Executing(Refuse(d, e)),
         job.then \in {"append", "finish"} /\ e = "Cancelled" => job.cancelled,
         job.then \in {"fed", "final"} => e \in {"ScopeMismatch", "StaleCursor", "StorageFailure"},
         job.then \in {"cancel", "fail"} /\ There(job) =>
           job.error = "StorageFailure" /\ RunOf(job).phase # "importing",
         job.then = "finish" => e # "IncompleteSource"
  PROVE  IInv'
<1> DEFINE r == [error |-> e, reply |-> None]
<1>1. r \in Answers /\ r.error = e /\ e # "none"
  BY DEF Answers, Errors, Told
<1>2. /\ queue # <<>> /\ Head(queue).command # "other" /\ worker = "up" /\ queue' = Tail(queue)
      /\ d' = d /\ job' = SetReply(job, r)
      /\ UNCHANGED <<fileVars, closed, launcher, active, worker, stopped, exit, jobs, others, deaths>>
      /\ faults' = faults /\ faults' \in Nat
  BY DEF Executing, Refuse, Answer, IInv, TypeOK
<1> HIDE DEF r
<1> QED BY <1>1, <1>2, AnsweredKeeps

LEMMA StatusKeeps ==
  ASSUME IInv, job.then \in {"fed", "final", "ended"},
         Executing(ImportStatus(d, job.source, job.print))
  PROVE  IInv'
<1> DEFINE run == d.run[job.source]
<1>1. queue # <<>> /\ Head(queue).command # "other" /\ worker = "up" /\ queue' = Tail(queue)
  BY DEF Executing
<1>2. job.source \in Source /\ run \in Run
  <2>1. job.source \in Source
    BY <1>1, HeadIs DEF Stages, Commands
  <2> QED BY <2>1 DEF IInv, TypeOK, Db
<1>3. CASE ~Present(d, job.source)
  <2>1. Executing(Refuse(d, "ScopeMismatch"))
    BY <1>3 DEF ImportStatus
  <2> QED BY <2>1, RefusedKeeps DEF Errors
<1>4. CASE Present(d, job.source) /\ d.source[job.source].print # job.print
  <2>1. Executing(Refuse(d, "StaleCursor"))
    BY <1>4 DEF ImportStatus
  <2> QED BY <2>1, RefusedKeeps DEF Errors
<1>5. CASE Present(d, job.source) /\ d.source[job.source].print = job.print
  <2> DEFINE read == IF run = NoRun THEN None ELSE run
             r == [error |-> "ok", reply |-> read]
  <2>1. read \in Run \cup {None} /\ (read # None => run = read)
    BY <1>2
  <2>2. Executing(Commit(d, read))
    BY <1>5 DEF ImportStatus
  <2> HIDE DEF read
  <2>3. r \in Answers /\ r.error = "ok" /\ r.reply = read
    BY <2>1 DEF Answers, Errors, Told
  <2>4. /\ d' = d /\ job' = SetReply(job, r)
        /\ UNCHANGED <<fileVars, closed, launcher, active, worker, stopped, exit, jobs, others, deaths>>
        /\ faults' = faults /\ faults' \in Nat
    BY <2>2 DEF Executing, Commit, Answer, IInv, TypeOK
  <2> HIDE DEF r
  <2> QED BY <1>1, <2>1, <2>3, <2>4, AnsweredKeeps DEF RunOf
<1> QED BY <1>3, <1>4, <1>5

LEMMA ResolveKnownKeeps ==
  ASSUME IInv, job.then = "resolve", NEW s, MappedTo(d, job.print) # {},
         Executing(ResolveOrRegister(d, job.print, s, jobs))
  PROVE  IInv'
<1>1. queue # <<>> /\ Head(queue).command # "other" /\ worker = "up" /\ queue' = Tail(queue)
  BY DEF Executing
<1> DEFINE x == CHOOSE y \in MappedTo(d, job.print) : TRUE
           run == d.run[x]
           word == CASE run.phase = "ready" -> "ready"
                     [] run.phase = "importing" -> "busy"
                     [] OTHER -> "retry"
           told == [source |-> x, disposition |-> word, checkpoint |-> run]
           r == [error |-> "ok", reply |-> told]
<1>2. Executing(Commit(d, told))
  BY DEF ResolveOrRegister
<1>3. x \in Source /\ d.source[x].print = job.print
  BY DEF MappedTo
<1> HIDE DEF x
<1>4. run \in Run
  BY <1>3 DEF IInv, TypeOK, Db
<1>5. word \in {"ready", "busy", "retry"}
  OBVIOUS
<1> HIDE DEF word, run
<1>6. told \in Resolution /\ told.disposition # "start" /\ told.source = x
  BY <1>3, <1>4, <1>5 DEF Resolution
<1> HIDE DEF told
<1>7. r \in Answers /\ r.error = "ok" /\ r.reply = told
  BY <1>6 DEF Answers, Errors, Told
<1>8. /\ d' = d /\ job' = SetReply(job, r)
      /\ UNCHANGED <<fileVars, closed, launcher, active, worker, stopped, exit, jobs, others, deaths>>
      /\ faults' = faults /\ faults' \in Nat
  BY <1>2 DEF Executing, Commit, Answer, IInv, TypeOK
<1> HIDE DEF r
<1> QED BY <1>1, <1>3, <1>6, <1>7, <1>8, AnsweredKeeps

(* A command that moves the run of the job's source.                        *)
LEMMA MovedKeeps ==
  ASSUME IInv, job.then \in {"finish", "cancel", "fail", "retry"}, NEW run \in Run,
         NEW e \in {"ok", "IncompleteSource"}, NEW reply \in Told,
         e = "IncompleteSource" => job.then = "finish",
         Executing([db |-> Move(d, job.source, run), error |-> e, reply |-> reply]),
         job.source \in Source, Present(d, job.source),
         run.phase \in Live4, run.receipts = d.run[job.source].receipts,
         job.then = "retry" => /\ reply \in [session : Nat] /\ run.session = reply.session
                               /\ run.phase = "importing",
         job.then # "retry" => run.session = d.run[job.source].session,
         job.then = "finish" => run.phase = IF e = "ok" THEN "ready" ELSE "failed",
         job.then \in {"cancel", "fail"} => run.phase = EndPhase(job.error)
  PROVE  IInv'
<1> DEFINE r == [error |-> e, reply |-> reply]
<1>0. PICK S \in Source : S = job.source
  OBVIOUS
<1>1. r \in Answers /\ r.error = e /\ r.reply = reply /\ r.error # "none"
  BY DEF Answers, Errors
<1>2. /\ queue # <<>> /\ Head(queue).command # "other" /\ worker = "up" /\ queue' = Tail(queue)
      /\ d' = Move(d, S, run) /\ Present(d, S) /\ job' = SetReply(job, r)
      /\ UNCHANGED <<fileVars, closed, launcher, active, worker, stopped, exit, jobs, others, deaths>>
      /\ faults' = faults /\ faults' \in Nat /\ d \in Db
      /\ UNCHANGED <<content, stamp, worker, faults>>
  BY <1>0 DEF Executing, Answer, IInv, TypeOK, fileVars
<1> HIDE DEF r
<1>3. /\ d' \in Db
      /\ d'.run[S].phase = run.phase /\ d'.run[S].session = run.session
      /\ d'.run[S].receipts = run.receipts
      /\ d'.source[S].state # "absent" /\ d'.source[S].print = d.source[S].print
      /\ d'.source[S].state = "ready" => run.phase = "ready"
      /\ d'.rows = d.rows /\ d'.task = d.task
      /\ \A x \in Source \ {S} : d'.run[x] = d.run[x] /\ d'.source[x] = d.source[x]
  BY <1>2, MoveIs
<1>4. \A s \in Source : /\ Present(d', s) <=> Present(d, s)
                        /\ d'.source[s].print = d.source[s].print
  <2>1. Present(d', S)
    BY <1>3 DEF Present
  <2>2. \A s \in Source \ {S} : d'.source[s] = d.source[s]
    BY <1>3
  <2>3. \A s \in Source \ {S} : Present(d', s) <=> Present(d, s)
    BY <2>2 DEF Present
  <2> QED BY <1>2, <1>3, <2>1, <2>2, <2>3
<1>5. Receipts(S) = d'.run[S].receipts /\ Len(Receipts(S)) \in Nat
  <2>1. d.run[S].receipts \in Ledgers
    BY <1>2 DEF Db, Run
  <2> QED BY <1>0, <1>3, <2>1 DEF Receipts, Ledgers
<1>6. JobFacts(job)'
  <2>1. /\ run.phase = d'.run[S].phase /\ run.session = d'.run[S].session
        /\ Len(Receipts(S)) <= Len(d'.run[S].receipts)
        /\ \A i \in 1..Len(Receipts(S)) : d'.run[S].receipts[i] = Receipts(S)[i]
        /\ \A s \in Source \ {S} : d'.run[s] = d.run[s]
    BY <1>3, <1>5
  <2>2. job.then # "retry" => d'.run[S].session = d.run[S].session
    BY <1>0, <2>1
  <2>3. job.then = "retry" => /\ r.reply \in [session : Nat]
                              /\ d'.run[S].session = r.reply.session
                              /\ d'.run[S].phase = "importing"
    BY <1>1, <2>1
  <2>4. job.then = "finish" => d'.run[S].phase = IF r.error = "ok" THEN "ready" ELSE "failed"
    BY <1>1, <2>1
  <2>5. job.then \in {"cancel", "fail"} => d'.run[S].phase = EndPhase(job.error)
    BY <2>1
  <2>6. r.error = "ok" \/ (job.then = "finish" /\ r.error = "IncompleteSource")
    BY <1>1
  <2>7. job.then \in {"append", "finish", "cancel", "fail", "retry"} /\ job.then # "append"
    OBVIOUS
  <2> QED BY <1>0, <1>1, <1>2, <1>3, <1>4, <2>1, <2>2, <2>3, <2>4, <2>5, <2>6, <2>7, WrittenFacts
<1>7. Staged'
  <2>1. IsFiniteSet(d.rows[S]) /\ d.rows[S] = Stored(S)
    BY DEF IInv, Staged
  <2>2. d'.rows[S] = UNION {d'.run[S].receipts[i].batch.contents : i \in 1..Len(d'.run[S].receipts)}
    <3>1. Stored(S) = UNION {Receipts(S)[i].batch.contents : i \in 1..Len(Receipts(S))}
      BY DEF Stored
    <3>2. d'.rows[S] = Stored(S)
      BY <1>3, <2>1
    <3> QED BY <1>5, <3>1, <3>2
  <2>3. ASSUME Ready(d', S)
        PROVE  \A i \in 1..Len(Batches[d.source[S].print]) :
                 /\ i <= Len(d'.run[S].receipts)
                 /\ d'.run[S].receipts[i].batch = Batches[d.source[S].print][i]
    <3>1. job.then = "finish"
      BY <1>0, <1>3, <2>3 DEF Ready, EndPhase
    <3>2. There(job)
      BY <1>0, NoneIsNone DEF There
    <3>3. Begins(job.print, S) /\ d.source[S].print = job.print
      BY <1>0, <1>2, <3>1, <3>2, HeadIs DEF Replay, Owns
    <3> QED BY <1>5, <3>3 DEF Begins
  <2> QED BY <1>0, <1>2, <1>3, <1>4, <2>1, <2>2, <2>3, WrittenStaged
<1>8. Used' = Used
  BY <1>3, <1>4 DEF Used
<1> QED BY <1>1, <1>2, <1>3, <1>6, <1>7, <1>8, ExecuteKeeps

LEMMA CancelImportKeeps ==
  ASSUME IInv, job.then = "cancel", Executing(CancelImport(d, Session))
  PROVE  IInv'
<1> DEFINE e == ActiveSession(d, Session)
           S == job.source
           run == SetRun(d.run[S], "cancelled", d.run[S].session, d.run[S].code, d.run[S].rev,
                         d.run[S].missing)
<1>1. queue # <<>> /\ Head(queue).command # "other"
  BY DEF Executing
<1>2. Session.source = S
  BY DEF Session
<1>3. CASE e # "ok"
  <2>1. Executing(Refuse(d, e))
    BY <1>3 DEF CancelImport
  <2>2. e \in Errors \ {"ok"} /\ (There(job) => job.error = "StorageFailure"
                                              /\ RunOf(job).phase # "importing")
    BY <1>1, <1>3, ActiveIs DEF Errors
  <2> HIDE DEF e
  <2> QED BY <2>1, <2>2, RefusedKeeps
<1>4. CASE e = "ok"
  <2>1. S \in Source /\ Present(d, S)
    BY <1>1, <1>4, ActiveIs
  <2>2. d.run[S] \in Run
    BY <2>1 DEF IInv, TypeOK, Db
  <2>3. /\ d.run[S].session \in Sessions /\ d.run[S].code \in RunCodes /\ d.run[S].rev \in Counts
        /\ d.run[S].missing \in Counts /\ "cancelled" \in Phases
    BY <2>2 DEF Run, Phases
  <2>4. /\ run \in Run /\ run.phase = "cancelled" /\ run.session = d.run[S].session
        /\ run.receipts = d.run[S].receipts
    BY <2>2, <2>3, SetRunIs
  <2>5. run = [d.run[S] EXCEPT !.phase = "cancelled"]
    BY <2>2 DEF SetRun, Run
  <2>6. Executing(Commit(Move(d, S, run), None))
    BY <1>2, <1>4, <2>5 DEF CancelImport
  <2> HIDE DEF run
  <2>7. Executing([db |-> Move(d, S, run), error |-> "ok", reply |-> None])
    BY <2>6 DEF Commit
  <2>8. job.error = "Cancelled"
    BY <1>1, HeadIs DEF Stages
  <2> QED BY <2>1, <2>4, <2>7, <2>8, MovedKeeps DEF Live4, EndPhase, Told
<1> QED BY <1>3, <1>4

LEMMA FailImportKeeps ==
  ASSUME IInv, job.then = "fail", Executing(FailImport(d, Session, job.error))
  PROVE  IInv'
<1> DEFINE e == ActiveSession(d, Session)
           S == job.source
           run == SetRun(d.run[S], "failed", d.run[S].session, job.error, d.run[S].rev,
                         d.run[S].missing)
<1>1. queue # <<>> /\ Head(queue).command # "other"
  BY DEF Executing
<1>2. Session.source = S
  BY DEF Session
<1>3. CASE e # "ok"
  <2>1. Executing(Refuse(d, e))
    BY <1>3 DEF FailImport
  <2>2. e \in Errors \ {"ok"} /\ (There(job) => job.error = "StorageFailure"
                                              /\ RunOf(job).phase # "importing")
    BY <1>1, <1>3, ActiveIs DEF Errors
  <2> HIDE DEF e
  <2> QED BY <2>1, <2>2, RefusedKeeps
<1>4. CASE e = "ok"
  <2>1. S \in Source /\ Present(d, S)
    BY <1>1, <1>4, ActiveIs
  <2>2. d.run[S] \in Run
    BY <2>1 DEF IInv, TypeOK, Db
  <2>0. job.error \in Reasons /\ job.error # "Cancelled"
    BY <1>1, HeadIs DEF Stages
  <2>3. /\ d.run[S].session \in Sessions /\ job.error \in RunCodes /\ d.run[S].rev \in Counts
        /\ d.run[S].missing \in Counts /\ "failed" \in Phases
    BY <2>0, <2>2 DEF Run, Phases, RunCodes
  <2>4. /\ run \in Run /\ run.phase = "failed" /\ run.session = d.run[S].session
        /\ run.receipts = d.run[S].receipts
    BY <2>2, <2>3, SetRunIs
  <2>5. run = [d.run[S] EXCEPT !.phase = "failed", !.code = job.error]
    BY <2>2 DEF SetRun, Run
  <2>6. Executing(Commit(Move(d, S, run), None))
    BY <1>2, <1>4, <2>5 DEF FailImport
  <2> HIDE DEF run
  <2>7. Executing([db |-> Move(d, S, run), error |-> "ok", reply |-> None])
    BY <2>6 DEF Commit
  <2> QED BY <2>0, <2>1, <2>4, <2>7, MovedKeeps DEF Live4, EndPhase, Told
<1> QED BY <1>3, <1>4

LEMMA FinishImportKeeps ==
  ASSUME IInv, job.then = "finish", Executing(FinishImport(d, Session))
  PROVE  IInv'
<1> DEFINE e == ActiveSession(d, Session)
           S == job.source
<1>1. queue # <<>> /\ Head(queue).command # "other"
  BY DEF Executing
<1>2. Session.source = S
  BY DEF Session
<1>3. CASE e # "ok"
  <2>1. Executing(Refuse(d, e))
    BY <1>3 DEF FinishImport
  <2>2. e = "ScopeMismatch" /\ ~There(job)
    BY <1>1, <1>3, ActiveIs
  <2> HIDE DEF e
  <2> QED BY <2>1, <2>2, RefusedKeeps DEF Errors
<1>4. CASE e = "ok"
  <2> DEFINE missing == Incomplete(d, S)
             phase == IF missing THEN "failed" ELSE "ready"
             code == IF missing THEN "incomplete_source" ELSE None
             count == MissingReplies(d, S)
             error == IF missing THEN "IncompleteSource" ELSE "ok"
             run == SetRun(d.run[S], phase, d.run[S].session, code, d.run[S].rev, count)
  <2>1. S \in Source /\ Present(d, S)
    BY <1>1, <1>4, ActiveIs
  <2>2. d.run[S] \in Run
    BY <2>1 DEF IInv, TypeOK, Db
  <2>3. count \in Counts
    <3> DEFINE unseen == {r \in d.rows[S] : r.reply # None /\ r.reply \notin Ids(d.rows[S])}
    <3>1. IsFiniteSet(d.rows[S])
      BY <2>1 DEF IInv, Staged
    <3>2. IsFiniteSet(unseen)
      BY <3>1, FS_Subset
    <3>3. Cardinality(unseen) \in Nat
      BY <3>2, FS_CardinalityType
    <3> QED BY <3>3 DEF MissingReplies, Counts
  <2>4. /\ phase \in {"failed", "ready"} /\ code \in RunCodes /\ error \in {"ok", "IncompleteSource"}
        /\ phase = IF error = "ok" THEN "ready" ELSE "failed"
    BY DEF RunCodes
  <2>5. run = [d.run[S] EXCEPT !.phase = phase, !.code = code, !.missing = count]
    BY <2>2 DEF SetRun, Run
  <2>6. Executing([db |-> Move(d, S, run), reply |-> None, error |-> error])
    BY <1>2, <1>4, <2>5 DEF FinishImport
  <2>7. d.run[S].session \in Sessions /\ d.run[S].rev \in Counts
    BY <2>2 DEF Run
  <2> HIDE DEF phase, code, count, error, missing
  <2>8. phase \in Phases /\ phase \in Live4
    BY <2>4 DEF Phases, Live4
  <2>9. /\ run \in Run /\ run.phase = phase /\ run.session = d.run[S].session
        /\ run.receipts = d.run[S].receipts
    BY <2>2, <2>3, <2>4, <2>7, <2>8, SetRunIs
  <2> HIDE DEF run
  <2>10. Executing([db |-> Move(d, S, run), error |-> error, reply |-> None])
    BY <2>6
  <2> QED BY <2>1, <2>4, <2>8, <2>9, <2>10, MovedKeeps DEF Told
<1> QED BY <1>3, <1>4

LEMMA RetryImportKeeps ==
  ASSUME IInv, job.then = "retry",
         Executing(Retried(RetryImport(d, job.source, job.checkpoint, jobs)))
  PROVE  IInv'
<1> DEFINE S == job.source
           run == SetRun(d.run[S], "importing", jobs, None, d.run[S].rev, d.run[S].missing)
<1>1. queue # <<>> /\ Head(queue).command # "other"
  BY DEF Executing
<1>2. S \in Source /\ d \in Db /\ jobs \in Nat
  BY <1>1, HeadIs DEF Stages, Asks, IInv, TypeOK
<1>3. d.run[S] \in Run
  BY <1>2 DEF Db
<1>4. run = [d.run[S] EXCEPT !.session = jobs, !.phase = "importing", !.code = None]
  BY <1>3 DEF SetRun, Run
<1>5. ASSUME NEW e \in {"StaleCursor", "InvalidStore"},
             RetryImport(d, S, job.checkpoint, jobs) = Refuse(d, e)
      PROVE  IInv'
  <2>1. Refuse(d, e).error # "ok"
    BY DEF Refuse
  <2>2. Executing(Refuse(d, e))
    BY <1>5, <2>1 DEF Retried
  <2>3. e \in Errors \ {"ok"}
    BY DEF Errors
  <2> QED BY <2>2, <2>3, RefusedKeeps
<1>6. ASSUME Present(d, S),
             RetryImport(d, S, job.checkpoint, jobs) = Commit(Move(d, S, run), None)
      PROVE  IInv'
  <2>1. /\ d.run[S].rev \in Counts /\ d.run[S].missing \in Counts /\ jobs \in Sessions
        /\ "importing" \in Phases /\ None \in RunCodes
    BY <1>2, <1>3 DEF Run, Phases, Sessions, RunCodes
  <2>2. /\ run \in Run /\ run.phase = "importing" /\ run.session = jobs
        /\ run.receipts = d.run[S].receipts
    BY <1>3, <2>1, SetRunIs
  <2> HIDE DEF run
  <2>3. "importing" \in Live4
    BY DEF Live4
  <2>4. Move(d, S, run).run[S].session = jobs
    BY <1>2, <2>2, <2>3, MoveIs
  <2> DEFINE reply == [session |-> jobs]
  <2>5. Executing([db |-> Move(d, S, run), error |-> "ok", reply |-> reply])
    <3>1. Retried(Commit(Move(d, S, run), None))
            = [db |-> Move(d, S, run), error |-> "ok", reply |-> reply]
      BY <2>4 DEF Retried, Commit
    <3> QED BY <1>6, <3>1
  <2>6. reply \in Told /\ reply \in [session : Nat] /\ reply.session = jobs
    BY <1>2 DEF Told
  <2> HIDE DEF reply
  <2> QED BY <1>2, <1>6, <2>2, <2>3, <2>5, <2>6, MovedKeeps
<1> HIDE DEF run
<1>7. \/ RetryImport(d, S, job.checkpoint, jobs) = Refuse(d, "StaleCursor")
      \/ RetryImport(d, S, job.checkpoint, jobs) = Refuse(d, "InvalidStore")
      \/ Present(d, S)
         /\ RetryImport(d, S, job.checkpoint, jobs) = Commit(Move(d, S, run), None)
  BY <1>4 DEF RetryImport
<1> QED BY <1>5, <1>6, <1>7

LEMMA IdsIs ==
  ASSUME NEW X, IsFiniteSet(X)
  PROVE  IsFiniteSet(Ids(X))
<1> DEFINE f == [x \in X |-> x.id]
<1>1. f \in Surjection(X, Ids(X))
  BY DEF Ids, Surjection
<1> QED BY <1>1, FS_Surjection

(* The rows, the ledger and the run of a batch that was written.            *)
LEMMA AppendRowsIs ==
  ASSUME NEW e \in Db, NEW s \in Source, NEW b \in Batch, IsFiniteSet(e.rows[s]),
         ~Conflicts(b.contents, e.rows[s])
  PROVE  LET m == AppendRows(e, s, b)
         IN /\ m \in Db /\ m.run[s].items \in Nat
            /\ m.run[s].phase = e.run[s].phase /\ m.run[s].session = e.run[s].session
            /\ m.run[s].receipts = Append(e.run[s].receipts, Receipt(b, m.run[s].items))
            /\ m.rows[s] = e.rows[s] \cup b.contents /\ IsFiniteSet(m.rows[s])
            /\ m.source = e.source /\ m.task = e.task
            /\ \A x \in Source \ {s} : m.run[x] = e.run[x] /\ m.rows[x] = e.rows[x]
<1> DEFINE items == e.run[s].items + NewItems(e, s, b)
           receipts == Append(e.run[s].receipts, Receipt(b, items))
           warned == e.run[s].warned + b.warnings
           saved == [e.run[s] EXCEPT !.items = items, !.receipts = receipts, !.warned = warned,
                                     !.rev = @ + 1]
           run == [e.run EXCEPT ![s] = saved]
           rows == [e.rows EXCEPT ![s] = Upsert(@, b.contents)]
           talks == [e.talks EXCEPT ![s] = Upsert(@, b.talks)]
           identity == e.identity \cup {<<"content", i>> : i \in Ids(b.contents)}
                                  \cup {<<"conversation", c>> : c \in Ids(b.talks)}
           m == AppendRows(e, s, b)
<1>1. /\ e.run \in [Source -> Run] /\ e.run[s] \in Run
      /\ e.rows \in [Source -> SUBSET Row] /\ e.talks \in [Source -> SUBSET Talk]
      /\ e.identity \subseteq {"content", "conversation"} \X Nat
  BY DEF Db
<1>2. /\ b.contents \in SUBSET Row /\ b.talks \in SUBSET Talk /\ b.warnings \in Nat
      /\ IsFiniteSet(b.contents)
  BY DEF Batch
<1>3. NewItems(e, s, b) \in Nat
  <2>1. IsFiniteSet(Ids(b.contents) \ Ids(e.rows[s]))
    BY <1>2, IdsIs, FS_Difference
  <2> QED BY <2>1, FS_CardinalityType DEF NewItems
<1>4. items \in Nat /\ warned \in Counts
  BY <1>1, <1>2, <1>3 DEF Run, Counts
<1> HIDE DEF items, warned
<1>5. receipts \in Ledgers
  <2>1. Receipt(b, items) \in [batch : Batch, items : Nat]
    BY <1>4 DEF Receipt
  <2>2. e.run[s].receipts \in Ledgers
    BY <1>1 DEF Run
  <2> QED BY <2>1, <2>2 DEF Ledgers
<1> HIDE DEF receipts
<1>6. /\ saved \in Run /\ saved.items = items /\ saved.receipts = receipts
      /\ saved.phase = e.run[s].phase /\ saved.session = e.run[s].session
  <2>1. items \in Counts /\ e.run[s].rev + 1 \in Counts
    BY <1>1, <1>4 DEF Run, Counts
  <2>2. saved \in Run
    BY <1>1, <1>4, <1>5, <2>1 DEF Run
  <2>3. /\ saved.items = items /\ saved.receipts = receipts
        /\ saved.phase = e.run[s].phase /\ saved.session = e.run[s].session
    BY <1>1 DEF Run
  <2> QED BY <2>2, <2>3
<1>7. m = [e EXCEPT !.run = run, !.rows = rows, !.talks = talks, !.identity = identity]
  <2>1. m = SaveRun([e EXCEPT !.rows[s] = Upsert(@, b.contents),
                              !.talks[s] = Upsert(@, b.talks),
                              !.identity = @ \cup {<<"content", i>> : i \in Ids(b.contents)}
                                             \cup {<<"conversation", c>> : c \in Ids(b.talks)}],
                    s, [e.run[s] EXCEPT !.items = items,
                                        !.receipts = receipts,
                                        !.warned = warned])
    BY <1>1 DEF AppendRows, items, receipts, warned, Run
  <2>2. [[e.run[s] EXCEPT !.items = items, !.receipts = receipts, !.warned = warned]
           EXCEPT !.rev = @ + 1] = saved
    BY <1>1 DEF Run
  <2>3. [e EXCEPT !.rows[s] = Upsert(@, b.contents), !.talks[s] = Upsert(@, b.talks),
                  !.identity = @ \cup {<<"content", i>> : i \in Ids(b.contents)}
                                 \cup {<<"conversation", c>> : c \in Ids(b.talks)}]
          = [e EXCEPT !.rows = rows, !.talks = talks, !.identity = identity]
    BY DEF Db
  <2> HIDE DEF saved, rows, talks, identity, m
  <2>4. m = [[e EXCEPT !.rows = rows, !.talks = talks, !.identity = identity]
               EXCEPT !.run[s] = saved]
    BY <2>1, <2>2, <2>3 DEF SaveRun
  <2> QED BY <2>4 DEF Db
<1>8. rows[s] = e.rows[s] \cup b.contents
  <2>1. rows[s] = Upsert(e.rows[s], b.contents)
    BY <1>1
  <2>2. \A x \in b.contents, y \in e.rows[s] : x.id = y.id => x = y
    BY DEF Conflicts
  <2>3. ASSUME NEW y \in e.rows[s], y.id \in Ids(b.contents) PROVE y \in b.contents
    BY <2>2, <2>3 DEF Ids
  <2>4. Upsert(e.rows[s], b.contents) = e.rows[s] \cup b.contents
    BY <2>3 DEF Upsert
  <2> QED BY <2>1, <2>4
<1>9. rows \in [Source -> SUBSET Row] /\ \A x \in Source \ {s} : rows[x] = e.rows[x]
  <2>1. Upsert(e.rows[s], b.contents) \in SUBSET Row
    BY <1>1, <1>2 DEF Upsert
  <2> QED BY <1>1, <2>1
<1>10. talks \in [Source -> SUBSET Talk]
  <2>1. Upsert(e.talks[s], b.talks) \in SUBSET Talk
    BY <1>1, <1>2 DEF Upsert
  <2> QED BY <1>1, <2>1
<1>11. identity \subseteq {"content", "conversation"} \X Nat
  <2>1. Ids(b.contents) \subseteq Nat /\ Ids(b.talks) \subseteq Nat
    BY <1>2, ArchiveDbAssumption DEF Ids, Row, Talk
  <2> QED BY <1>1, <2>1
<1> HIDE DEF saved
<1>12. run \in [Source -> Run] /\ run[s] = saved /\ \A x \in Source \ {s} : run[x] = e.run[x]
  BY <1>1, <1>6
<1> HIDE DEF run, rows, talks, identity, m
<1>13. m \in Db /\ m.run = run /\ m.rows = rows /\ m.source = e.source /\ m.task = e.task
  BY <1>7, <1>9, <1>10, <1>11, <1>12 DEF Db
<1>14. IsFiniteSet(e.rows[s] \cup b.contents)
  BY <1>2, FS_Union
<1> QED BY <1>4, <1>6, <1>8, <1>9, <1>12, <1>13, <1>14 DEF receipts, m

(* A batch that was written.                                                *)
LEMMA BatchWrittenKeeps ==
  ASSUME IInv, job.then = "append", NEW b \in Batch, NEW told \in Told,
         Executing([db |-> AppendRows(d, job.source, b), error |-> "ok", reply |-> told]),
         job.source \in Source, Present(d, job.source),
         d.run[job.source].phase = "importing",
         ~Conflicts(b.contents, d.rows[job.source]),
         job.next - 1 = Len(d.run[job.source].receipts),
         job.stamp = stamp => b = Batches[job.print][job.next]
  PROVE  IInv'
<1> DEFINE r == [error |-> "ok", reply |-> told]
<1>0. PICK S \in Source : S = job.source
  OBVIOUS
<1>1. r \in Answers /\ r.error = "ok" /\ r.reply = told
  BY DEF Answers, Errors
<1>2. /\ queue # <<>> /\ Head(queue).command # "other" /\ worker = "up" /\ queue' = Tail(queue)
      /\ d' = AppendRows(d, S, b) /\ Present(d, S) /\ job' = SetReply(job, r)
      /\ UNCHANGED <<fileVars, closed, launcher, active, worker, stopped, exit, jobs, others, deaths>>
      /\ faults' = faults /\ faults' \in Nat /\ d \in Db
      /\ UNCHANGED <<content, stamp, worker, faults>>
  BY <1>0 DEF Executing, Answer, IInv, TypeOK, fileVars
<1> HIDE DEF r
<1>3. IsFiniteSet(d.rows[S]) /\ d.rows[S] = Stored(S)
  BY DEF IInv, Staged
<1> DEFINE receipt == Receipt(b, d'.run[S].items)
<1>4. /\ d' \in Db /\ d'.run[S].items \in Nat
      /\ d'.run[S].phase = d.run[S].phase /\ d'.run[S].session = d.run[S].session
      /\ d'.run[S].receipts = Append(d.run[S].receipts, receipt)
      /\ d'.rows[S] = d.rows[S] \cup b.contents /\ IsFiniteSet(d'.rows[S])
      /\ d'.source = d.source /\ d'.task = d.task
      /\ \A x \in Source \ {S} : d'.run[x] = d.run[x] /\ d'.rows[x] = d.rows[x]
  <2>1. ~Conflicts(b.contents, d.rows[S])
    BY <1>0
  <2> DEFINE m == AppendRows(d, S, b)
  <2>2. /\ m \in Db /\ m.run[S].items \in Nat
        /\ m.run[S].phase = d.run[S].phase /\ m.run[S].session = d.run[S].session
        /\ m.run[S].receipts = Append(d.run[S].receipts, Receipt(b, m.run[S].items))
        /\ m.rows[S] = d.rows[S] \cup b.contents /\ IsFiniteSet(m.rows[S])
        /\ m.source = d.source /\ m.task = d.task
        /\ \A x \in Source \ {S} : m.run[x] = d.run[x] /\ m.rows[x] = d.rows[x]
    BY <1>2, <1>3, <2>1, AppendRowsIs
  <2>3. d' = m
    BY <1>2
  <2> HIDE DEF m
  <2> QED BY <2>2, <2>3
<1>5. receipt.batch = b
  BY DEF Receipt
<1> HIDE DEF receipt
<1>6. /\ d.run[S].receipts \in Ledgers /\ Len(Receipts(S)) = job.next - 1
      /\ Len(d'.run[S].receipts) = job.next /\ job.next \in Nat \ {0}
      /\ d'.run[S].receipts[job.next] = receipt
      /\ \A i \in 1..(job.next - 1) : d'.run[S].receipts[i] = Receipts(S)[i]
  <2>1. d.run[S].receipts \in Ledgers
    BY <1>2 DEF Db, Run
  <2>2. job.next \in Nat \ {0}
    BY <1>2, HeadIs DEF Jobs, Positions
  <2>3. Len(d.run[S].receipts) = job.next - 1 /\ Receipts(S) = d.run[S].receipts
    BY <1>0 DEF Receipts
  <2>4. d.run[S].receipts \in Seq([batch : Batch, items : Nat])
    BY <2>1 DEF Ledgers
  <2> QED BY <1>4, <2>1, <2>2, <2>3, <2>4
<1>7. \A s \in Source : /\ Present(d', s) <=> Present(d, s)
                        /\ d'.source[s].print = d.source[s].print
  BY <1>4 DEF Present
<1>8. JobFacts(job)'
  <2>1. Len(Receipts(S)) <= Len(d'.run[S].receipts)
    BY <1>6
  <2>2. \A i \in 1..Len(Receipts(S)) : d'.run[S].receipts[i] = Receipts(S)[i]
    BY <1>6
  <2>3. /\ d'.run[S].phase = "importing" /\ d'.run[S].session = d.run[S].session
        /\ \A s \in Source \ {S} : d'.run[s] = d.run[s]
    BY <1>0, <1>4
  <2>4. job.stamp = stamp =>
          /\ job.next <= Len(d'.run[S].receipts)
          /\ d'.run[S].receipts[job.next].batch = Batches[job.print][job.next]
    BY <1>5, <1>6
  <2> QED BY <1>0, <1>1, <1>2, <1>4, <1>7, <2>1, <2>2, <2>3, <2>4, WrittenFacts
<1>9. Staged'
  <2>1. d'.rows[S]
          = UNION {d'.run[S].receipts[i].batch.contents : i \in 1..Len(d'.run[S].receipts)}
    <3>1. d.rows[S] = UNION {Receipts(S)[i].batch.contents : i \in 1..(job.next - 1)}
      BY <1>3, <1>6 DEF Stored
    <3>2. ASSUME NEW x
          PROVE  x \in d'.rows[S]
                   <=> \E i \in 1..job.next : x \in d'.run[S].receipts[i].batch.contents
      <4>1. x \in d'.rows[S] <=> x \in d.rows[S] \/ x \in b.contents
        BY <1>4
      <4>2. x \in d.rows[S] <=> \E i \in 1..(job.next - 1) : x \in Receipts(S)[i].batch.contents
        BY <3>1
      <4>3. x \in d.rows[S]
              <=> \E i \in 1..(job.next - 1) : x \in d'.run[S].receipts[i].batch.contents
        BY <1>6, <4>2
      <4>4. \A i : i \in 1..job.next <=> i \in 1..(job.next - 1) \/ i = job.next
        BY <1>6
      <4>5. d'.run[S].receipts[job.next].batch.contents = b.contents
        BY <1>5, <1>6
      <4> QED BY <4>1, <4>3, <4>4, <4>5
    <3> QED BY <1>6, <3>2
  <2>2. ~Ready(d', S)
    BY <1>0, <1>4 DEF Ready
  <2> QED BY <1>2, <1>4, <1>7, <2>1, <2>2, WrittenStaged
<1>10. Used' = Used
  BY <1>4, <1>7 DEF Used
<1> QED BY <1>1, <1>2, <1>4, <1>8, <1>9, <1>10, ExecuteKeeps

(* A batch that had been written before.                                    *)
LEMMA BatchReplayedKeeps ==
  ASSUME IInv, job.then = "append", NEW told \in Told,
         Executing(Commit(d, told)),
         job.source \in Source, Present(d, job.source),
         job.next - 1 < Len(d.run[job.source].receipts),
         job.stamp = stamp =>
           d.run[job.source].receipts[job.next].batch = Batches[job.print][job.next]
  PROVE  IInv'
<1> DEFINE r == [error |-> "ok", reply |-> told]
<1>1. r \in Answers /\ r.error = "ok" /\ r.reply = told
  BY DEF Answers, Errors
<1>2. /\ queue # <<>> /\ Head(queue).command # "other" /\ worker = "up" /\ queue' = Tail(queue)
      /\ d' = d /\ job' = SetReply(job, r)
      /\ UNCHANGED <<fileVars, closed, launcher, active, worker, stopped, exit, jobs, others, deaths>>
      /\ faults' = faults /\ faults' \in Nat /\ d \in Db
  BY DEF Executing, Commit, Answer, IInv, TypeOK
<1> HIDE DEF r
<1>3. Replayed(job, job.next)
  <2>1. SUFFICES ASSUME job.stamp = stamp, There(job)
                 PROVE  /\ job.next <= Len(Batches[job.print])
                        /\ job.next <= Len(Receipts(job.source))
                        /\ \A i \in 1..job.next :
                             Receipts(job.source)[i].batch = Batches[job.print][i]
    BY DEF Replayed
  <2>2. job.next \in Nat \ {0} /\ job.session # None
    BY <1>2, HeadIs DEF Jobs, Positions, Stages, Commands
  <2>3. Fed(job) = job.next - 1
    BY <1>2, HeadIs DEF Fed
  <2>4. \A i \in 1..(job.next - 1) : Receipts(job.source)[i].batch = Batches[job.print][i]
    BY <1>2, <2>1, <2>2, <2>3, HeadIs DEF Replay
  <2>5. job.next <= Len(Batches[job.print])
    BY <1>2, <2>1, HeadIs
  <2>6. Receipts(job.source) \in Ledgers /\ Receipts(job.source) = d.run[job.source].receipts
    BY <1>2 DEF Db, Run, Receipts
  <2>7. Len(Receipts(job.source)) \in Nat
    BY <2>6 DEF Ledgers
  <2>8. \A i \in 1..job.next : i \in 1..(job.next - 1) \/ i = job.next
    BY <2>2
  <2>9. job.next <= Len(Receipts(job.source))
    BY <2>2, <2>6, <2>7
  <2> QED BY <2>1, <2>4, <2>5, <2>6, <2>8, <2>9
<1> QED BY <1>1, <1>2, <1>3, AnsweredKeeps

LEMMA AppendBatchKeeps ==
  ASSUME IInv, job.then = "append",
         Executing(Flagged(AppendBatch(d, Session, job.next - 1, Head(queue).batch)))
  PROVE  IInv'
<1>1. queue # <<>> /\ Head(queue).command # "other"
  BY DEF Executing
<1>2. PICK b \in Batch : b = Head(queue).batch
  BY <1>1, HeadIs
<1>3. job.stamp = stamp => job.next <= Len(Batches[job.print]) /\ b = Batches[job.print][job.next]
  BY <1>1, <1>2, HeadIs
<1>4. job.next \in Nat \ {0} /\ d \in Db /\ job.source \in Source /\ job.signalled \in Flags
  BY <1>1, HeadIs, ActiveIs DEF Jobs, Positions, IInv, TypeOK
<1>5. ASSUME NEW e \in Errors \ {"ok", "Cancelled"}, Executing(Refuse(d, e)) PROVE IInv'
  BY <1>5, RefusedKeeps
<1>6. CASE job.signalled
  <2>1. Executing(Refuse(d, "Cancelled"))
    BY <1>6 DEF Flagged
  <2>2. job.cancelled
    BY <1>1, <1>6, HeadIs DEF Cancelled
  <2> QED BY <2>1, <2>2, RefusedKeeps DEF Errors
<1>7. CASE ~job.signalled
  <2> DEFINE run == d.run[job.source]
             items == run.items + NewItems(d, job.source, b)
             result == AppendBatch(d, Session, job.next - 1, b)
  <2>1. Executing(result)
    BY <1>2, <1>7 DEF Flagged
  <2>2. Session.source = job.source
    BY DEF Session
  <2>3. run.receipts \in Ledgers
    BY <1>4 DEF Db, Run
  <2>4. Len(run.receipts) \in Nat /\ (job.next - 1) + 1 = job.next
    BY <1>4, <2>3 DEF Ledgers
  <2>5. CASE Empty(b)
    <3>1. Executing(Refuse(d, "InvalidRecord"))
      BY <2>1, <2>5 DEF AppendBatch
    <3> QED BY <1>5, <3>1 DEF Errors
  <2>6. CASE ~Empty(b) /\ ActiveSession(d, Session) # "ok"
    <3>1. Executing(Refuse(d, ActiveSession(d, Session)))
      BY <2>1, <2>6 DEF AppendBatch
    <3>2. ActiveSession(d, Session) = "ScopeMismatch"
      BY <1>1, <2>6, ActiveIs
    <3>3. Executing(Refuse(d, "ScopeMismatch"))
      BY <3>1, <3>2
    <3> QED BY <1>5, <3>3 DEF Errors
  <2>7. CASE ~Empty(b) /\ ActiveSession(d, Session) = "ok"
    <3>1. Present(d, job.source) /\ run.phase = "importing"
      BY <1>1, <2>7, ActiveIs DEF RunOf
    <3>2. result = IF job.next - 1 < Len(run.receipts) /\ run.receipts[job.next].batch = b
                   THEN Commit(d, [items |-> run.receipts[job.next].items, next |-> job.next])
                   ELSE IF job.next - 1 # Len(run.receipts) THEN Refuse(d, "StaleCursor")
                   ELSE IF ~WellFormed(b) THEN Refuse(d, "InvalidRecord")
                   ELSE IF b.version = 2 /\ (Conflicts(b.talks, d.talks[job.source])
                                             \/ Conflicts(b.contents, d.rows[job.source]))
                   THEN Refuse(d, "ConflictingObservation")
                   ELSE IF items > MaxItems THEN Refuse(d, "LimitExceeded")
                   ELSE Commit(AppendRows(d, job.source, b),
                               [items |-> AppendRows(d, job.source, b).run[job.source].items,
                                next |-> job.next])
      BY <2>2, <2>4, <2>7 DEF AppendBatch
    <3> HIDE DEF result, items
    <3>3. CASE job.next - 1 < Len(run.receipts) /\ run.receipts[job.next].batch = b
      <4> DEFINE told == [items |-> run.receipts[job.next].items, next |-> job.next]
      <4>1. Executing(Commit(d, told))
        BY <2>1, <3>2, <3>3
      <4>2. told \in Told
        <5>1. job.next \in 1..Len(run.receipts)
          BY <1>4, <2>4, <3>3
        <5>2. run.receipts \in Seq([batch : Batch, items : Nat])
          BY <2>3 DEF Ledgers
        <5>3. run.receipts[job.next] \in [batch : Batch, items : Nat]
          BY <5>1, <5>2, ElementsAre
        <5> QED BY <1>4, <5>3 DEF Told
      <4> HIDE DEF told
      <4> QED BY <1>3, <1>4, <3>1, <3>3, <4>1, <4>2, BatchReplayedKeeps
    <3>4. CASE /\ ~(job.next - 1 < Len(run.receipts) /\ run.receipts[job.next].batch = b)
               /\ \/ job.next - 1 # Len(run.receipts)
                  \/ ~WellFormed(b)
                  \/ b.version = 2 /\ (Conflicts(b.talks, d.talks[job.source])
                                       \/ Conflicts(b.contents, d.rows[job.source]))
                  \/ items > MaxItems
      <4>1. \E e \in {"StaleCursor", "InvalidRecord", "ConflictingObservation", "LimitExceeded"} :
               result = Refuse(d, e)
        BY <3>2, <3>4
      <4>2. PICK e \in {"StaleCursor", "InvalidRecord", "ConflictingObservation", "LimitExceeded"} :
               result = Refuse(d, e)
        BY <4>1
      <4>3. Executing(Refuse(d, e)) /\ e \in Errors \ {"ok", "Cancelled"}
        BY <2>1, <4>2 DEF Errors
      <4> QED BY <1>5, <4>3
    <3>5. CASE /\ ~(job.next - 1 < Len(run.receipts) /\ run.receipts[job.next].batch = b)
               /\ job.next - 1 = Len(run.receipts) /\ WellFormed(b)
               /\ ~(b.version = 2 /\ (Conflicts(b.talks, d.talks[job.source])
                                      \/ Conflicts(b.contents, d.rows[job.source])))
               /\ ~(items > MaxItems)
      <4>1. b.version = 2
        BY DEF Batch
      <4>2. ~Conflicts(b.contents, d.rows[job.source])
        BY <3>5, <4>1
      <4> DEFINE written == AppendRows(d, job.source, b)
                 told == [items |-> written.run[job.source].items, next |-> job.next]
      <4>3. Executing(Commit(written, told))
        BY <2>1, <3>2, <3>5
      <4>4. IsFiniteSet(d.rows[job.source])
        BY <1>4 DEF IInv, Staged
      <4>5. written.run[job.source].items \in Nat
        BY <1>4, <4>2, <4>4, AppendRowsIs
      <4> HIDE DEF written
      <4>6. told \in Told
        BY <1>4, <4>5 DEF Told
      <4> HIDE DEF told
      <4>7. Executing([db |-> written, error |-> "ok", reply |-> told])
        BY <4>3 DEF Commit
      <4>8. Executing([db |-> AppendRows(d, job.source, b), error |-> "ok", reply |-> told])
        BY <4>7 DEF written
      <4> QED BY <1>3, <1>4, <3>1, <3>5, <4>2, <4>6, <4>8, BatchWrittenKeeps
    <3> QED BY <3>3, <3>4, <3>5
  <2> QED BY <2>5, <2>6, <2>7
<1> QED BY <1>4, <1>6, <1>7 DEF Flags

(* There is an identifier that nothing has had.                             *)
LEMMA FreshIs ==
  ASSUME IInv, Unresolved
  PROVE  Fresh \in Source /\ ~Present(d, Fresh) /\ d.task[Fresh] = "none" /\ Fresh \notin Used
<1>1. /\ IsFiniteSet(Used) /\ Cardinality(Used) \in Nat /\ Cardinality(Used) + 1 <= jobs
      /\ jobs <= MaxJobs /\ jobs \in Nat /\ MaxJobs \in Nat
  BY FS_CardinalityType, DiscordImportAssumption DEF IInv, Room, TypeOK
<1>2. \E s \in Source : ~Present(d, s) /\ d.task[s] = "none"
  <2>1. SUFFICES ASSUME \A s \in Source : Present(d, s) \/ d.task[s] # "none" PROVE FALSE
    OBVIOUS
  <2>2. Used = Source
    BY <2>1 DEF Used
  <2>3. Cardinality(Source) >= MaxJobs
    BY <1>1, <2>2, DiscordImportAssumption
  <2> QED BY <1>1, <2>2, <2>3
<1>3. Fresh \in Source /\ ~Present(d, Fresh) /\ d.task[Fresh] = "none"
  BY <1>2 DEF Fresh
<1> QED BY <1>3 DEF Used

(* What the registration of a new archive writes.                           *)
Begun(e, s, a, n) ==
  CreateRun([Account(e) EXCEPT !.source[s] =
               [state |-> "preparing", print |-> a, mapped |-> TRUE]], s, n)
LEMMA RegisteredIs ==
  ASSUME NEW e \in Db, NEW s \in Source, NEW a \in Archive, NEW n \in Nat
  PROVE  LET m == Begun(e, s, a, n)
         IN /\ m \in Db /\ m.run[s] \in Run
            /\ m.run[s].phase = "importing" /\ m.run[s].session = n
            /\ m.run[s].receipts = <<>>
            /\ m.source[s].state = "preparing" /\ m.source[s].print = a
            /\ m.rows = e.rows /\ m.task = e.task
            /\ \A x \in Source \ {s} : m.run[x] = e.run[x] /\ m.source[x] = e.source[x]
<1> DEFINE begun == [NoRun EXCEPT !.phase = "importing", !.session = n]
           row == [state |-> "preparing", print |-> a, mapped |-> TRUE]
           run == [e.run EXCEPT ![s] = begun]
           source == [e.source EXCEPT ![s] = row]
           m == Begun(e, s, a, n)
<1>1. /\ begun \in Run /\ begun.phase = "importing" /\ begun.session = n
      /\ begun.receipts = <<>>
  <2>1. "importing" \in Phases /\ n \in Sessions
    BY DEF Phases, Sessions
  <2> QED BY <2>1, NoRunIs DEF Run
<1>2. row \in Registration /\ row.state = "preparing" /\ row.print = a
  BY DEF Registration
<1>3. e.run \in [Source -> Run] /\ e.source \in [Source -> Registration]
  BY DEF Db
<1>4. m = [[[e EXCEPT !.account = TRUE] EXCEPT !.source[s] = row] EXCEPT !.run[s] = begun]
  BY DEF Begun, CreateRun, Account
<1> HIDE DEF begun, row, m
<1>5. run \in [Source -> Run] /\ run[s] = begun /\ \A x \in Source \ {s} : run[x] = e.run[x]
  BY <1>1, <1>3
<1>6. /\ source \in [Source -> Registration] /\ source[s] = row
      /\ \A x \in Source \ {s} : source[x] = e.source[x]
  BY <1>2, <1>3
<1>7. m = [e EXCEPT !.account = TRUE, !.source = source, !.run = run]
  BY <1>4 DEF Db
<1> HIDE DEF run, source
<1>8. m \in Db /\ m.run = run /\ m.source = source /\ m.rows = e.rows /\ m.task = e.task
  BY <1>5, <1>6, <1>7 DEF Db
<1> QED BY <1>1, <1>2, <1>5, <1>6, <1>8 DEF m, row

LEMMA ResolveNewKeeps ==
  ASSUME IInv, job.then = "resolve", MappedTo(d, job.print) = {},
         Executing(ResolveOrRegister(d, job.print, Fresh, jobs))
  PROVE  IInv'
<1>1. queue # <<>> /\ Head(queue).command # "other" /\ worker = "up" /\ queue' = Tail(queue)
  BY DEF Executing
<1>2. PICK f \in Source : f = Fresh
  BY <1>1, FreshIs, HeadIs
<1>3. ~Present(d, f) /\ f \notin Used
  BY <1>1, <1>2, FreshIs, HeadIs
<1>4. d \in Db /\ jobs \in Nat /\ job.print \in Archive
  BY <1>1, HeadIs DEF IInv, TypeOK, Stages, Early
<1>5. PICK n \in Nat, a \in Archive : n = jobs /\ a = job.print
  BY <1>4
<1> DEFINE m == Begun(d, f, a, n)
           told == [source |-> f, disposition |-> "start", checkpoint |-> m.run[f]]
           r == [error |-> "ok", reply |-> told]
<1>6. /\ m \in Db /\ m.run[f] \in Run
      /\ m.run[f].phase = "importing" /\ m.run[f].session = n
      /\ m.run[f].receipts = <<>>
      /\ m.source[f].state = "preparing" /\ m.source[f].print = a
      /\ m.rows = d.rows /\ m.task = d.task
      /\ \A x \in Source \ {f} : m.run[x] = d.run[x] /\ m.source[x] = d.source[x]
  BY <1>4, RegisteredIs
<1>7. ResolveOrRegister(d, job.print, Fresh, jobs) = Commit(m, told)
  BY <1>2, <1>5 DEF ResolveOrRegister, Begun
<1> HIDE DEF m
<1>8. /\ told \in Resolution /\ told.source = f /\ told.disposition = "start"
      /\ told.checkpoint = m.run[f]
  BY <1>6 DEF Resolution
<1> HIDE DEF told
<1>9. r \in Answers /\ r.error = "ok" /\ r.reply = told /\ r \in Replies /\ r # NoReply
  BY <1>8 DEF Answers, Errors, Told, Replies, NoReply
<1>10. /\ d' = m /\ job' = SetReply(job, r)
       /\ UNCHANGED <<fileVars, closed, launcher, active, worker, stopped, exit, jobs, others, deaths>>
       /\ UNCHANGED <<content, stamp, worker, faults>> /\ faults' \in Nat
  BY <1>7 DEF Executing, Commit, Answer, IInv, TypeOK, fileVars
<1> HIDE DEF r
<1>11. /\ job' \in Jobs /\ job'.reply = r /\ job'.pc = "wait" /\ job'.then = "resolve"
       /\ job'.expected = None /\ job'.source = None /\ job'.session = None
       /\ job'.cancelled = job.cancelled /\ job'.signalling = job.signalling
       /\ job'.signalled = job.signalled /\ job'.stamp = job.stamp /\ job'.print = a
       /\ job'.next = 1 /\ job'.checkpoint = job.checkpoint
  <2>1. /\ job.expected = None /\ job.source = None /\ job.session = None /\ job.next = 1
        /\ job.pc = "wait"
    BY <1>1, HeadIs DEF Stages
  <2> QED BY <1>1, <1>5, <1>9, <1>10, <2>1, HeadIs, SetReplyIs
<1>12. /\ \A c : Asks(job, c)' <=> "resolve" \in c
       /\ \A c : HasOk(job, c)' <=> c = "resolve"
       /\ Has(job)' /\ Live(job)' /\ ~There(job)'
  BY <1>9, <1>11 DEF Asks, HasOk, Has, Live, There
<1>13. /\ \A s \in Source \ {f} : d'.run[s] = d.run[s] /\ d'.source[s] = d.source[s]
                                  /\ d'.rows[s] = d.rows[s]
       /\ d'.rows[f] = {} /\ d'.run[f].receipts = <<>> /\ Present(d', f) /\ ~Ready(d', f)
       /\ d'.source[f].print = a
       /\ \A s \in Source \ {f} : Present(d', s) <=> Present(d, s)
  <2>1. d.rows[f] = {}
    BY <1>3 DEF IInv, Staged
  <2> QED BY <1>6, <1>10, <2>1 DEF Present, Ready
<1>14. JobFacts(job)'
  <2>1. Stages(job)'
    <3>1. job.checkpoint = None \/ job.source \in Source
      BY <1>1, HeadIs DEF Stages
    <3>2. job.source = None
      BY <1>1, HeadIs DEF Stages
    <3>3. job'.checkpoint = None
      BY <1>11, <3>1, <3>2, NoneIsNone
    <3> QED BY <1>9, <1>11, <1>12, <3>3 DEF Stages, Early, Reading, Commands
  <2>2. Replay(job)'
    <3>1. job.stamp <= stamp /\ (job.stamp = stamp => content = job.print)
      BY <1>1, <1>4, HeadIs, NoneIsNone DEF Replay
    <3> QED BY <1>5, <1>10, <1>11, <1>12, <3>1 DEF Replay
  <2>3. Owns(job)'
    <3>1. n # None
      BY NoneIsNone
    <3>2. Promised(job.expected)'
      BY <1>11 DEF Promised
    <3>3. m.run[f].session # None
      BY <1>6, <3>1
    <3> QED BY <1>6, <1>8, <1>9, <1>10, <1>11, <1>12, <3>2, <3>3 DEF Owns
  <2>4. Phased(job)'
    BY <1>12 DEF Phased
  <2>5. Cancelled(job)'
    BY <1>1, <1>11, <1>12, HeadIs DEF Cancelled
  <2>6. Importing(job)'
    <3>1. SUFFICES ASSUME worker = "up", faults = 0, NEW s \in Source,
                          d'.run[s].phase = "importing"
                   PROVE  Doing(job, s)'
      BY <1>10 DEF Importing
    <3>2. CASE s = f
      BY <1>8, <1>9, <1>11, <1>12, <3>2 DEF Doing
    <3>3. CASE s # f
      <4>1. Doing(job, s)
        BY <1>1, <1>13, <3>1, <3>3, HeadIs DEF Importing
      <4>2. job.session = None
        BY <1>1, HeadIs DEF Stages
      <4> QED BY <1>1, <4>1, <4>2, HeadIs DEF Doing
    <3> QED BY <3>2, <3>3
  <2> QED BY <1>11, <2>1, <2>2, <2>3, <2>4, <2>5, <2>6 DEF JobFacts
<1>15. Staged'
  <2>1. SUFFICES ASSUME NEW s \in Source
                 PROVE  /\ ~Present(d', s) => /\ d'.source[s] = NoSource /\ d'.run[s] = NoRun
                                              /\ d'.rows[s] = {}
                        /\ Present(d', s) => d'.source[s].print \in Archive
                        /\ IsFiniteSet(d'.rows[s])
                        /\ d'.rows[s] = Stored(s)'
                        /\ Ready(d', s) => \A i \in 1..Len(Batches[d'.source[s].print]) :
                             /\ i <= Len(d'.run[s].receipts)
                             /\ d'.run[s].receipts[i].batch = Batches[d'.source[s].print][i]
    BY DEF Staged, Present, Begins, Receipts
  <2>2. CASE s = f
    <3>1. Stored(s)' = {}
      <4>1. Len(Receipts(s)') = 0
        BY <1>13, <2>2 DEF Receipts
      <4>2. 1..Len(Receipts(s)') = {}
        BY <4>1
      <4> QED BY <4>2 DEF Stored
    <3>2. IsFiniteSet({})
      BY FS_EmptySet
    <3> QED BY <1>13, <2>2, <3>1, <3>2
  <2>3. CASE s # f
    <3>1. /\ d'.run[s] = d.run[s] /\ d'.source[s] = d.source[s] /\ d'.rows[s] = d.rows[s]
          /\ (Ready(d', s) <=> Ready(d, s))
      BY <1>13, <2>3 DEF Ready
    <3>2. Stored(s)' = Stored(s)
      BY <3>1 DEF Stored, Receipts
    <3>3. Ready(d, s) => \A i \in 1..Len(Batches[d.source[s].print]) :
                           /\ i <= Len(d.run[s].receipts)
                           /\ d.run[s].receipts[i].batch = Batches[d.source[s].print][i]
      BY DEF IInv, Staged, Begins, Receipts
    <3> QED BY <1>13, <2>3, <3>1, <3>2, <3>3 DEF IInv, Staged
  <2> QED BY <2>2, <2>3
<1>16. Used' = Used \cup {f}
  BY <1>6, <1>10, <1>13 DEF Used
<1>17. job.then = "resolve" /\ \E s : s \notin Used /\ Used' = Used \cup {s}
  BY <1>3, <1>16
<1> QED BY <1>1, <1>6, <1>9, <1>10, <1>14, <1>15, <1>17, ExecuteKeeps

-----------------------------------------------------------------------------
(* The commands of others.                                                  *)

LEMMA RemovedIs ==
  ASSUME NEW e \in Db, NEW s \in Source
  PROVE  LET m == RetryCleanup(RemoveSource(e, s), s)
         IN /\ m \in Db
            /\ \A x \in Source :
                 \/ m.source[x] = e.source[x] /\ m.run[x] = e.run[x] /\ m.rows[x] = e.rows[x]
                 \/ /\ m.source[x] = NoSource /\ m.run[x] = NoRun /\ m.rows[x] = {}
                    /\ m.task[x] # "none" /\ Present(e, x)
            /\ \A x \in Source : m.task[x] = "none" <=> (e.task[x] = "none" /\ ~(x = s /\ Present(e, s)))
<1> DEFINE m1 == RemoveSource(e, s)
           m == RetryCleanup(m1, s)
<1>1. ASSUME NEW f \in Db
      PROVE  LET c == RetryCleanup(f, s)
             IN /\ c \in Db /\ c.source = f.source /\ c.run = f.run /\ c.rows = f.rows
                /\ \A x \in Source : c.task[x] = "none" <=> f.task[x] = "none"
  <2> DEFINE task == [f.task EXCEPT ![s] = "completed"]
             c == RetryCleanup(f, s)
  <2>1. CASE f.task[s] = "pending"
    <3>1. f.task \in [Source -> {"none", "pending", "completed"}]
      BY DEF Db
    <3>2. /\ task \in [Source -> {"none", "pending", "completed"}]
          /\ \A x \in Source : task[x] = "none" <=> f.task[x] = "none"
      BY <2>1, <3>1
    <3>3. c = [f EXCEPT !.task = task]
      BY <2>1 DEF RetryCleanup, Db
    <3> HIDE DEF task, c
    <3>4. c \in Db /\ c.source = f.source /\ c.run = f.run /\ c.rows = f.rows /\ c.task = task
      BY <3>2, <3>3 DEF Db
    <3> QED BY <3>2, <3>4 DEF c
  <2>2. CASE f.task[s] # "pending"
    BY <2>2 DEF RetryCleanup
  <2> QED BY <2>1, <2>2
<1>2. CASE e.task[s] # "none" \/ ~Present(e, s)
  <2>1. m1 = e
    BY <1>2 DEF RemoveSource
  <2> HIDE DEF m1
  <2>2. m \in Db /\ m.source = e.source /\ m.run = e.run /\ m.rows = e.rows
        /\ \A x \in Source : m.task[x] = "none" <=> e.task[x] = "none"
    BY <1>1, <2>1
  <2> HIDE DEF m
  <2>3. \A x \in Source : m.task[x] = "none" <=> (e.task[x] = "none" /\ ~(x = s /\ Present(e, s)))
    BY <1>2, <2>2
  <2> QED BY <2>2, <2>3 DEF m, m1
<1>3. CASE e.task[s] = "none" /\ Present(e, s)
  <2> DEFINE task == [e.task EXCEPT ![s] = "pending"]
             source == [e.source EXCEPT ![s] = NoSource]
             run == [e.run EXCEPT ![s] = NoRun]
             rows == [e.rows EXCEPT ![s] = {}]
             talks == [e.talks EXCEPT ![s] = {}]
             gone == [e EXCEPT !.task[s] = "pending", !.source[s] = NoSource, !.run[s] = NoRun,
                               !.rows[s] = {}, !.talks[s] = {}]
             kept == gone.identity \cap UNION {Named(gone, x) : x \in Source}
             account == (\E x \in Source : Present(gone, x)) \/ kept # {}
  <2>1. /\ e.task \in [Source -> {"none", "pending", "completed"}]
        /\ e.source \in [Source -> Registration] /\ e.run \in [Source -> Run]
        /\ e.rows \in [Source -> SUBSET Row] /\ e.talks \in [Source -> SUBSET Talk]
        /\ e.identity \in SUBSET ({"content", "conversation"} \X Nat)
    BY DEF Db
  <2>2. /\ task \in [Source -> {"none", "pending", "completed"}]
        /\ source \in [Source -> Registration] /\ run \in [Source -> Run]
        /\ rows \in [Source -> SUBSET Row] /\ talks \in [Source -> SUBSET Talk]
    BY <2>1, NoSourceIs, NoRunIs
  <2>3. /\ task[s] = "pending" /\ source[s] = NoSource /\ run[s] = NoRun /\ rows[s] = {}
        /\ \A x \in Source \ {s} : /\ task[x] = e.task[x] /\ source[x] = e.source[x]
                                   /\ run[x] = e.run[x] /\ rows[x] = e.rows[x]
    BY <2>1
  <2>4. gone = [e EXCEPT !.task = task, !.source = source, !.run = run, !.rows = rows,
                         !.talks = talks]
    BY DEF Db
  <2>5. m1 = [gone EXCEPT !.identity = kept, !.account = account]
    BY <1>3 DEF RemoveSource
  <2> HIDE DEF task, source, run, rows, talks, gone, m1
  <2>6. gone \in Db /\ gone.task = task /\ gone.source = source /\ gone.run = run /\ gone.rows = rows
    BY <2>2, <2>4 DEF Db
  <2>7. kept \in SUBSET ({"content", "conversation"} \X Nat) /\ account \in BOOLEAN
    BY <2>6 DEF Db
  <2> HIDE DEF kept, account
  <2>8. m1 \in Db /\ m1.task = task /\ m1.source = source /\ m1.run = run /\ m1.rows = rows
    BY <2>5, <2>6, <2>7 DEF Db
  <2>9. /\ m \in Db /\ m.source = source /\ m.run = run /\ m.rows = rows
        /\ \A x \in Source : m.task[x] = "none" <=> task[x] = "none"
    BY <1>1, <2>8
  <2> HIDE DEF m
  <2> QED BY <1>3, <2>3, <2>9 DEF m, m1
<1> QED BY <1>2, <1>3

(* What is said of a job where sources are removed.                         *)
LEMMA ShrunkFacts ==
  ASSUME JobFacts(job), job \in Jobs, UNCHANGED <<job, content, stamp, worker, faults>>,
         \A x \in Source :
           \/ d'.source[x] = d.source[x] /\ d'.run[x] = d.run[x]
           \/ ~Present(d', x) /\ d'.run[x] = NoRun
  PROVE  JobFacts(job)'
<1>1. job.source \in Source \cup {None} /\ job.expected \in Expected \cup {None}
  BY DEF Jobs, Sources, Wanted
<1>2. There(job)' => There(job) /\ d'.run[job.source] = d.run[job.source]
                     /\ d'.source[job.source] = d.source[job.source]
                     /\ RunOf(job)' = RunOf(job)
  BY <1>1 DEF There, Present, RunOf
<1>3. There(job)' => Receipts(job.source)' = Receipts(job.source)
  BY <1>2 DEF Receipts
<1>4. Stages(job)'
  BY DEF JobFacts, Stages, Asks
<1>5. Replay(job)'
  <2>1. There(job)' => (Begins(job.print, job.source) => Begins(job.print, job.source)')
    BY <1>3 DEF Begins
  <2>2. Fed(job)' = Fed(job) /\ (Live(job)' <=> Live(job))
        /\ (Asks(job, {"finish"})' <=> Asks(job, {"finish"}))
    BY DEF Fed, HasOk, Has, Asks, Live
  <2> QED BY <1>2, <1>3, <2>1, <2>2 DEF JobFacts, Replay
<1>6. \A c : HasOk(job, c)' <=> HasOk(job, c)
  BY DEF HasOk, Has
<1>7. Owns(job)'
  <2>1. Promised(job.expected)'
    BY <1>1 DEF JobFacts, Owns, Promised, Present, Expected
  <2>2. HasOk(job, "resolve") =>
          LET answer == job.reply.reply
          IN /\ answer \in Resolution /\ answer.source \in Source
             /\ Present(d', answer.source) =>
                  /\ d'.source[answer.source] = d.source[answer.source]
                  /\ d'.run[answer.source] = d.run[answer.source]
                  /\ Present(d, answer.source)
    BY DEF JobFacts, Owns, Resolution, Present
  <2> QED BY <1>2, <1>6, <2>1, <2>2 DEF JobFacts, Owns
<1>8. Phased(job)'
  <2>1. /\ Feeding(job)' <=> Feeding(job)
        /\ Closing(job)' <=> Closing(job)
        /\ Ended(job)' <=> Ended(job)
        /\ Asks(job, {"final"})' <=> Asks(job, {"final"})
    BY DEF Feeding, Closing, Ended, Has, Asks
  <2> QED BY <1>2, <1>6, <2>1 DEF JobFacts, Phased
<1>9. Cancelled(job)'
  BY DEF JobFacts, Cancelled, Asks, Has
<1>10. Importing(job)'
  <2>1. SUFFICES ASSUME worker = "up", faults = 0, NEW s \in Source, d'.run[s].phase = "importing"
                 PROVE  Doing(job, s)'
    BY DEF Importing
  <2>2. d.run[s].phase = "importing"
    BY <2>1, NoRunIs
  <2>3. Doing(job, s)
    BY <2>1, <2>2 DEF JobFacts, Importing
  <2> QED BY <1>6, <2>3 DEF Doing, Feeding, Closing, Has, Asks
<1> QED BY <1>4, <1>5, <1>7, <1>8, <1>9, <1>10 DEF JobFacts

LEMMA OtherExecutesKeeps ==
  ASSUME IInv, queue # <<>>, Head(queue).command = "other", queue' = Tail(queue),
         d' = IF Head(queue).removes = None THEN d
              ELSE RetryCleanup(RemoveSource(d, Head(queue).removes), Head(queue).removes),
         UNCHANGED <<job, faults, fileVars, closed, launcher, active, worker, stopped, exit, jobs,
                     others, deaths>>
  PROVE  IInv'
<1>1. /\ UNCHANGED <<job, content, stamp, closed, launcher, active, worker, stopped, exit>>
      /\ UNCHANGED <<jobs, others, faults, deaths>>
  BY DEF fileVars
<1>2. /\ queue \in Seq(Entry) /\ Len(queue) \in Nat /\ 1 \in 1..Len(queue)
      /\ Head(queue) = queue[1] /\ Tail(queue) \in Seq(Entry)
      /\ Len(Tail(queue)) = Len(queue) - 1
      /\ \A i \in 1..Len(Tail(queue)) : Tail(queue)[i] = queue[i + 1] /\ i + 1 \in 1..Len(queue)
  BY DEF IInv, TypeOK
<1>3. d \in Db /\ Head(queue).removes \in Source \cup {None}
  <2>1. Head(queue) \in Entry
    BY <1>2, ElementsAre
  <2> QED BY <2>1 DEF IInv, TypeOK, Entry
<1>4. /\ d' \in Db
      /\ \A x \in Source :
           \/ d'.source[x] = d.source[x] /\ d'.run[x] = d.run[x] /\ d'.rows[x] = d.rows[x]
           \/ /\ d'.source[x] = NoSource /\ d'.run[x] = NoRun /\ d'.rows[x] = {}
              /\ d'.task[x] # "none" /\ Present(d, x)
      /\ Used' = Used
  <2>1. CASE Head(queue).removes = None
    BY <1>3, <2>1, StagedStays
  <2>2. CASE Head(queue).removes # None
    <3>1. PICK s \in Source : s = Head(queue).removes
      BY <1>3, <2>2
    <3> DEFINE m == RetryCleanup(RemoveSource(d, s), s)
    <3>2. /\ m \in Db
          /\ \A x \in Source :
               \/ m.source[x] = d.source[x] /\ m.run[x] = d.run[x] /\ m.rows[x] = d.rows[x]
               \/ /\ m.source[x] = NoSource /\ m.run[x] = NoRun /\ m.rows[x] = {}
                  /\ m.task[x] # "none" /\ Present(d, x)
          /\ \A x \in Source :
               m.task[x] = "none" <=> (d.task[x] = "none" /\ ~(x = s /\ Present(d, s)))
      BY <1>3, RemovedIs
    <3>3. d' = m
      BY <2>2, <3>1
    <3> HIDE DEF m
    <3>4. Used' = Used
      <4>1. ASSUME NEW x \in Source
            PROVE  (Present(d', x) \/ d'.task[x] # "none") <=> (Present(d, x) \/ d.task[x] # "none")
        <5>1. CASE d'.source[x] = d.source[x]
          BY <3>2, <3>3, <5>1 DEF Present
        <5>2. CASE d'.task[x] # "none" /\ Present(d, x)
          BY <5>2
        <5> QED BY <3>2, <3>3, <5>1, <5>2
      <4> QED BY <4>1 DEF Used
    <3> QED BY <3>2, <3>3, <3>4
  <2> QED BY <2>1, <2>2
<1>5. TypeOK'
  BY <1>1, <1>2, <1>4 DEF IInv, TypeOK
<1>6. Owner'
  <2>1. \A e \in Expected \cup {None} : Promised(e) => Promised(e)'
    <3>1. SUFFICES ASSUME NEW e \in Expected \cup {None}, Promised(e), e # None, Present(d', e.source)
                   PROVE  d'.source[e.source].print = e.print
      BY DEF Promised, Present
    <3>2. e.source \in Source
      BY <3>1 DEF Expected
    <3>3. d'.source[e.source] = d.source[e.source]
      BY <1>4, <3>1, <3>2, NoSourceIs DEF Present
    <3> QED BY <3>1, <3>3 DEF Promised, Present
  <2>2. launcher.expected \in Expected \cup {None}
    BY DEF IInv, TypeOK
  <2>3. Promised(launcher.expected) => Promised(launcher.expected)'
    <3>1. PICK e \in Expected \cup {None} : e = launcher.expected
      BY <2>2
    <3> QED BY <1>1, <2>1, <3>1 DEF Promised, Present
  <2> QED BY <1>1, <2>3 DEF IInv, Owner, Running
<1>7. Queued'
  <2>1. SUFFICES ASSUME NEW i \in 1..Len(Tail(queue)), Tail(queue)[i].command # "other"
                 PROVE  /\ job.pc = "wait" /\ job.reply = NoReply
                        /\ job.then = Tail(queue)[i].command
                        /\ \A k \in 1..Len(Tail(queue)) : Tail(queue)[k].command # "other" => k = i
                        /\ job.then = "append" =>
                             /\ Tail(queue)[i].batch \in Batch
                             /\ job.stamp = stamp =>
                                  /\ job.next <= Len(Batches[job.print])
                                  /\ Tail(queue)[i].batch = Batches[job.print][job.next]
    BY <1>1 DEF Queued
  <2>2. Tail(queue)[i] = queue[i + 1] /\ i + 1 \in 1..Len(queue)
    BY <1>2
  <2>3. /\ job.pc = "wait" /\ job.reply = NoReply /\ job.then = queue[i + 1].command
        /\ \A k \in 1..Len(queue) : queue[k].command # "other" => k = i + 1
        /\ job.then = "append" =>
             /\ queue[i + 1].batch \in Batch
             /\ job.stamp = stamp => /\ job.next <= Len(Batches[job.print])
                                     /\ queue[i + 1].batch = Batches[job.print][job.next]
    BY <2>1, <2>2 DEF IInv, Queued
  <2>4. \A k \in 1..Len(Tail(queue)) : Tail(queue)[k].command # "other" => k + 1 = i + 1
    BY <1>2, <2>3
  <2>5. \A k \in 1..Len(Tail(queue)) : Tail(queue)[k].command # "other" => k = i
    BY <2>4
  <2> QED BY <2>2, <2>3, <2>5
<1>8. Staged'
  <2>1. SUFFICES ASSUME NEW s \in Source
                 PROVE  /\ ~Present(d', s) => /\ d'.source[s] = NoSource /\ d'.run[s] = NoRun
                                              /\ d'.rows[s] = {}
                        /\ Present(d', s) => d'.source[s].print \in Archive
                        /\ IsFiniteSet(d'.rows[s])
                        /\ d'.rows[s] = Stored(s)'
                        /\ Ready(d', s) => \A i \in 1..Len(Batches[d'.source[s].print]) :
                             /\ i <= Len(d'.run[s].receipts)
                             /\ d'.run[s].receipts[i].batch = Batches[d'.source[s].print][i]
    BY DEF Staged, Present, Begins, Receipts
  <2>2. CASE d'.source[s] = NoSource /\ d'.run[s] = NoRun /\ d'.rows[s] = {}
    <3>1. Stored(s)' = {}
      <4>1. Len(Receipts(s)') = 0
        BY <2>2, NoRunIs DEF Receipts
      <4>2. 1..Len(Receipts(s)') = {}
        BY <4>1
      <4> QED BY <4>2 DEF Stored
    <3>2. IsFiniteSet({})
      BY FS_EmptySet
    <3> QED BY <2>2, <3>1, <3>2, NoSourceIs DEF Present, Ready
  <2>3. CASE d'.source[s] = d.source[s] /\ d'.run[s] = d.run[s] /\ d'.rows[s] = d.rows[s]
    <3>1. (Ready(d', s) <=> Ready(d, s)) /\ (Present(d', s) <=> Present(d, s))
      BY <2>3 DEF Ready, Present
    <3>2. Stored(s)' = Stored(s)
      <4>1. Receipts(s)' = Receipts(s)
        BY <2>3 DEF Receipts
      <4> QED BY <4>1 DEF Stored
    <3>3. Ready(d, s) => \A i \in 1..Len(Batches[d.source[s].print]) :
                           /\ i <= Len(d.run[s].receipts)
                           /\ d.run[s].receipts[i].batch = Batches[d.source[s].print][i]
      BY DEF IInv, Staged, Begins, Receipts
    <3> QED BY <2>3, <3>1, <3>2, <3>3 DEF IInv, Staged
  <2> QED BY <1>4, <2>2, <2>3
<1>9. Room'
  BY <1>1, <1>4 DEF IInv, Room, Unresolved, Asks
<1>10. JobFacts(job)'
  <2>1. \A x \in Source : \/ d'.source[x] = d.source[x] /\ d'.run[x] = d.run[x]
                          \/ ~Present(d', x) /\ d'.run[x] = NoRun
    BY <1>4, NoSourceIs DEF Present
  <2> QED BY <1>1, <2>1, ShrunkFacts DEF IInv, TypeOK
<1> QED BY <1>5, <1>6, <1>7, <1>8, <1>9, <1>10 DEF IInv

LEMMA WorkerExecutesKeeps == ASSUME IInv, WorkerExecutes PROVE IInv'
<1>1. /\ worker = "up" /\ queue # <<>> /\ queue' = Tail(queue)
      /\ UNCHANGED <<fileVars, closed, launcher, active, worker, stopped, exit, jobs, others, deaths>>
  BY DEF WorkerExecutes
<1>2. ASSUME NEW r \in Answers PROVE [job EXCEPT !.reply = r] = SetReply(job, r)
  BY DEF SetReply
<1>3. CASE Head(queue).command # "other" /\ d' = Result(Head(queue)).db
           /\ job' = [job EXCEPT !.reply = Answer(Result(Head(queue)))] /\ UNCHANGED faults
  <2> DEFINE c == Head(queue)
  <2>1. job.then = c.command /\ job.then \in Commands
    BY <1>1, <1>3, HeadIs
  <2>2. Executing(Result(c))
    BY <1>1, <1>3 DEF Executing, SetReply
  <2>3. CASE job.then = "resolve"
    <3>1. Result(c) = ResolveOrRegister(d, job.print, Fresh, jobs)
      BY <2>1, <2>3 DEF Result
    <3> QED BY <2>2, <2>3, <3>1, ResolveKnownKeeps, ResolveNewKeeps
  <2>4. CASE job.then = "retry"
    <3>1. Result(c) = Retried(RetryImport(d, job.source, job.checkpoint, jobs))
      BY <2>1, <2>4 DEF Result
    <3> QED BY <2>2, <2>4, <3>1, RetryImportKeeps
  <2>5. CASE job.then = "append"
    <3>1. Result(c) = Flagged(AppendBatch(d, Session, job.next - 1, Head(queue).batch))
      BY <2>1, <2>5 DEF Result
    <3> QED BY <2>2, <2>5, <3>1, AppendBatchKeeps
  <2>6. CASE job.then = "finish"
    <3>1. Result(c) = Flagged(FinishImport(d, Session))
      BY <2>1, <2>6 DEF Result
    <3>2. CASE job.signalled
      <4>1. Executing(Refuse(d, "Cancelled"))
        BY <2>2, <3>1, <3>2 DEF Flagged
      <4>2. job.cancelled
        BY <1>1, <1>3, <3>2, HeadIs DEF Cancelled
      <4> QED BY <2>6, <4>1, <4>2, RefusedKeeps DEF Errors
    <3>3. CASE ~job.signalled
      <4>1. Executing(FinishImport(d, Session))
        BY <2>2, <3>1, <3>3 DEF Flagged
      <4> QED BY <2>6, <4>1, FinishImportKeeps
    <3> QED BY <3>2, <3>3
  <2>7. CASE job.then = "cancel"
    <3>1. Result(c) = CancelImport(d, Session)
      BY <2>1, <2>7 DEF Result
    <3> QED BY <2>2, <2>7, <3>1, CancelImportKeeps
  <2>8. CASE job.then = "fail"
    <3>1. Result(c) = FailImport(d, Session, job.error)
      BY <2>1, <2>8 DEF Result
    <3> QED BY <2>2, <2>8, <3>1, FailImportKeeps
  <2>9. CASE job.then \in {"fed", "final", "ended"}
    <3>1. Result(c) = ImportStatus(d, job.source, job.print)
      BY <2>1, <2>9 DEF Result
    <3> QED BY <2>2, <2>9, <3>1, StatusKeeps
  <2> QED BY <2>1, <2>3, <2>4, <2>5, <2>6, <2>7, <2>8, <2>9 DEF Commands
<1>4. CASE Head(queue).command # "other" /\ faults' = faults + 1 /\ d' = d
           /\ job' = [job EXCEPT !.reply = Answer(Refuse(d, "StorageFailure"))]
  <2>1. Answer(Refuse(d, "StorageFailure")) = [error |-> "StorageFailure", reply |-> None]
    BY DEF Answer, Refuse
  <2>2. job' = SetReply(job, [error |-> "StorageFailure", reply |-> None])
    BY <1>4, <2>1 DEF SetReply
  <2> QED BY <1>1, <1>4, <2>2, FaultKeeps
<1>5. CASE /\ Head(queue).command = "other"
           /\ d' = IF Head(queue).removes = None THEN d
                   ELSE RetryCleanup(RemoveSource(d, Head(queue).removes), Head(queue).removes)
           /\ UNCHANGED <<job, faults>>
  BY <1>1, <1>5, OtherExecutesKeeps
<1>6. \/ /\ Head(queue).command # "other"
         /\ d' = Result(Head(queue)).db
         /\ job' = [job EXCEPT !.reply = Answer(Result(Head(queue)))] /\ UNCHANGED faults
      \/ /\ Head(queue).command # "other" /\ faults' = faults + 1 /\ d' = d
         /\ job' = [job EXCEPT !.reply = Answer(Refuse(d, "StorageFailure"))]
      \/ /\ Head(queue).command = "other"
         /\ d' = IF Head(queue).removes = None THEN d
                 ELSE RetryCleanup(RemoveSource(d, Head(queue).removes), Head(queue).removes)
         /\ UNCHANGED <<job, faults>>
  BY DEF WorkerExecutes
<1> QED BY <1>3, <1>4, <1>5, <1>6
-----------------------------------------------------------------------------
(* The theorems.                                                            *)

LEMMA StutterKeeps == ASSUME IInv, UNCHANGED vars PROVE IInv'
<1>1. /\ UNCHANGED <<d, content, stamp, closed, launcher, job, active, worker, stopped, queue>>
      /\ UNCHANGED <<exit, jobs, others, faults, deaths>>
  BY DEF vars
<1>2. JobFacts(job)'
  BY <1>1, FactsKept DEF IInv
<1>3. TypeOK'
  BY <1>1 DEF IInv, TypeOK
<1>4. Owner'
  BY <1>1 DEF IInv, Owner, Running, Promised, Present
<1>5. Queued'
  BY <1>1 DEF IInv, Queued
<1>6. Staged' /\ Used' = Used
  BY <1>1, StagedStays
<1>7. Room'
  BY <1>1, <1>6 DEF IInv, Room, Unresolved, Asks
<1> QED BY <1>2, <1>3, <1>4, <1>5, <1>6, <1>7 DEF IInv

LEMMA NextKeeps == ASSUME IInv, [Next]_vars PROVE IInv'
<1>1. CASE UNCHANGED vars
  BY <1>1, StutterKeeps
<1>2. CASE \E kind \in {"start", "adopt", "retry"} : LaunchLock(kind)
  <2>1. PICK kind \in Kinds : LaunchLock(kind)
    BY <1>2 DEF Kinds
  <2> QED BY <2>1, LaunchLockKeeps
<1>3. CASE Launch
  BY <1>3, LaunchInstallKeeps, LaunchActivateKeeps DEF Launch
<1>4. CASE JobStep
  BY <1>4, IdentifyKeeps, HashKeeps, HashedKeeps, OpenArchiveKeeps, OpenedKeeps, BindKeeps,
     BoundKeeps, FeedKeeps, AppendGiveUpKeeps, AppendQueueKeeps, VerifyKeeps, VerifiedKeeps,
     EndKeeps, AskQueueKeeps DEF JobStep
<1>5. CASE JobReply
  BY <1>5, AfterResolveKeeps, AfterRetryKeeps, AfterAppendKeeps, AfterFedKeeps, AfterFinishKeeps,
     AfterFinalKeeps, AfterEndKeeps, AfterEndedKeeps DEF JobReply
<1>6. CASE WorkerStep
  BY <1>6, WorkerOpensKeeps, WorkerExecutesKeeps, WorkerExitsKeeps DEF WorkerStep
<1>7. CASE ExitStep
  <2>1. ASSUME StopArchive PROVE IInv'
    BY <2>1, ExitKeeps DEF StopArchive
  <2>2. ASSUME Down PROVE IInv'
    BY <2>2, ExitKeeps DEF Down, IInv, TypeOK
  <2> QED BY <1>7, <2>1, <2>2, DrainKeeps, DrainedKeeps DEF ExitStep
<1>8. CASE CancelFlag \/ CancelSignal \/ OtherClient \/ ChangeFile \/ Reject \/ Die
  BY <1>8, CancelFlagKeeps, CancelSignalKeeps, OtherClientKeeps, ChangeFileKeeps, RejectKeeps,
     DieKeeps
<1> QED BY <1>1, <1>2, <1>3, <1>4, <1>5, <1>6, <1>7, <1>8 DEF Next, System

(* What the owner, its job, the archive worker and the shutdown keep among  *)
(* them, whatever is cancelled, changed, failed, removed or restarted: every *)
(* variable has its type, the worker is sent one command of the job at a    *)
(* time, the run of the job's source is in the phase of the job's step, and  *)
(* the rows of every source are those of its receipts.                      *)
THEOREM Inductive == Spec => []IInv
<1>1. Init => IInv
  BY InitHolds
<1>2. IInv /\ [Next]_vars => IInv'
  BY NextKeeps
<1> QED BY <1>1, <1>2, PTL DEF Spec

(* A source is ready only when the archive its fingerprint names was stored *)
(* in full and in order, from a file that anybody may have changed, in      *)
(* however many attempts (FinishImport, ingest.rs; ImportSession, import.rs).*)
THEOREM ReadyHolds == Spec => []ReadyHoldsTheSelectedArchive
<1>1. IInv => ReadyHoldsTheSelectedArchive
  BY DEF IInv, Staged, ReadyHoldsTheSelectedArchive
<1> QED BY <1>1, Inductive, PTL

(* The outcome an import reports is the one the database has committed, a   *)
(* cancellation is reported only when somebody cancelled, and no run is left *)
(* importing, unless a transaction failed (import.rs, lifecycle.rs).        *)
THEOREM OutcomeDurable == Spec => []OutcomeIsDurable
<1>1. IInv => OutcomeIsDurable
  <2>1. SUFFICES ASSUME IInv, job.pc = "done", job.outcome # "StorageFailure"
                 PROVE  /\ worker = "up" /\ faults = 0 =>
                             \A s \in Source : d.run[s].phase # "importing"
                        /\ job.outcome = "Cancelled" => job.cancelled
                        /\ job.session # None /\ Present(d, job.source) =>
                             d.run[job.source].phase = CASE job.outcome = "ready" -> "ready"
                                                         [] job.outcome = "Cancelled" -> "cancelled"
                                                         [] OTHER -> "failed"
    BY DEF OutcomeIsDurable
  <2>2. /\ ~Feeding(job) /\ ~Closing(job) /\ \A c : ~HasOk(job, c)
    BY <2>1 DEF Feeding, Closing, HasOk, Has, Reading, Asks
  <2>3. worker = "up" /\ faults = 0 => \A s \in Source : d.run[s].phase # "importing"
    BY <2>1, <2>2 DEF IInv, JobFacts, Importing, Doing
  <2>4. job.outcome = "Cancelled" => job.cancelled
    BY <2>1 DEF IInv, JobFacts, Cancelled
  <2>5. job.session # None => job.source \in Source
    BY <2>1 DEF IInv, JobFacts, Stages
  <2>6. job.session # None /\ Present(d, job.source) =>
          d.run[job.source].phase = CASE job.outcome = "ready" -> "ready"
                                      [] job.outcome = "Cancelled" -> "cancelled"
                                      [] OTHER -> "failed"
    <3>1. job.session # None /\ Present(d, job.source) => There(job)
      BY <2>5, NoneIsNone DEF There
    <3> QED BY <2>1, <3>1 DEF IInv, JobFacts, Phased, RunOf, EndPhase
  <2> QED BY <2>1, <2>3, <2>4, <2>6
<1> QED BY <1>1, Inductive, PTL
=============================================================================
