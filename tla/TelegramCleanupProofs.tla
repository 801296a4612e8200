------------------------ MODULE TelegramCleanupProofs ------------------------
(***************************************************************************)
(* Proofs about TelegramCleanup, for any plan, commands and bounds: native  *)
(* calls are made only by the worker the owner started, in the order of the *)
(* plan, a job stored as Completed has done all of it, and the engine asks  *)
(* its store for no record the validators refuse.                           *)
(***************************************************************************)
EXTENDS TelegramCleanup, FiniteSetTheorems, TLAPS

Native == {"delete", "clear", "others", "self", "group", "sender", "leave"}
Result == {"ok", "soft", "fatal", "rate", "ambiguous"}
WorkerRecord ==
  [pc : WorkerPc, native : Native, allowed : Nat, skipped : Nat,
   result : Result, seen : SUBSET Capability]
ControlRecord ==
  [mapped : BOOLEAN, spawn : Nat, cancelled : BOOLEAN, finished : BOOLEAN]
CallRecord == [at : CallPc, spawn : Nat]

TypeOK ==
  /\ store \in JobRecord /\ state \in JobRecord
  /\ failed \in BOOLEAN
  /\ control \in ControlRecord
  /\ worker \in WorkerRecord
  /\ call \in [Client -> CallRecord]
  /\ chat \subseteq Capability
  /\ acked \subseteq Native
  /\ removed \in Nat
  /\ lost \in BOOLEAN /\ saved \in BOOLEAN /\ gone \in BOOLEAN /\ cancelled \in BOOLEAN

(* Where a worker is not in the phases of the plan.                         *)
Inert == {"off", "start", "claim", "fail", "finish", "unmap"}

(* A record in the store or in memory is one the validators accept; the     *)
(* phase a cleared history counts for was acknowledged, and what is counted *)
(* as deleted was removed.                                                  *)
JobOk(job) ==
  /\ job.status # "Absent" => Accounted(job) /\ Consistent(job)
  /\ op = "ClearHistoryAndLeave" /\ job.next # 0 => "clear" \in acked
  /\ job.deleted <= removed
RecordsOk ==
  /\ JobOk(store) /\ JobOk(state)
  /\ ~failed => store = state

(* Nothing follows the publication of a completed job.                      *)
CompletedOk ==
  /\ CompletedMeansDone
  /\ store.status = "Completed" => worker.pc \in Inert

(* A job that no worker of this process can bring back into its phases.     *)
Over == Terminal(state) \/ failed
Fatal == worker.result \in {"fatal", "ambiguous"}

(* The first worker runs the job; one spawned after it never gets past its  *)
(* claim, since a worker leaves only a job that is over.                    *)
WorkersOk ==
  /\ control.mapped <=> worker.pc # "off"
  /\ control.finished => worker.pc \in {"unmap", "off"}
  /\ worker.pc = "unmap" => control.finished
  /\ control.spawn = 0 => worker.pc = "off" /\ ~Unfinished(state)
  /\ control.spawn # 0 => state.status # "Absent" /\ store.status # "Absent"
  /\ control.spawn # 0 /\ worker.pc \in {"finish", "unmap", "off"} => Over
  /\ control.spawn > 1 => Over /\ worker.pc \in Inert
  /\ worker.pc = "start" => failed \/ ~state.retry
  /\ worker.pc = "post" /\ Fatal => Terminal(state)

(* What a command has established by the time it is at a step.              *)
AtControl == {"cancelCommit", "cancelSignal", "cancelGate", "cancelWait",
              "stopFlag", "stopGate", "stopWait"}
Signalled == {"cancelGate", "cancelWait", "stopGate", "stopWait"}
PastGate == {"cancelWait", "stopWait"}
CommandOk(c) ==
  /\ call[c].spawn <= control.spawn
  /\ call[c].at = "recoverSpawn" => control.spawn # 0
  /\ call[c].at \in AtControl => call[c].spawn # 0
  /\ call[c].at \in Signalled /\ Holds(c) => control.cancelled
  /\ call[c].at \in PastGate /\ Holds(c) => worker.pc # "flight"
CommandsOk == \A c \in Client : CommandOk(c)

(* What the observers have seen, in terms of where the worker is.           *)
SentOk ==
  /\ lost => /\ control.spawn # 0
             /\ control.spawn = 1 =>
                  \/ worker.pc \in {"fail", "finish", "unmap", "off"}
                  \/ worker.pc \in {"settle", "post"} /\ worker.result = "ambiguous"
  /\ cancelled => /\ control.spawn # 0
                  /\ control.spawn = 1 => worker.pc \in {"unmap", "off"}
  /\ "leave" \in acked =>
       \/ saved
       \/ worker.pc \in Inert
       \/ worker.pc = "settle" /\ worker.native = "leave" /\ worker.result = "ok"

(* What the worker has established by the time it is at a step.             *)
InHand == {"gate", "flight", "settle", "wait", "resume"}
BatchInHand ==
  /\ op \in Batched /\ state.next < Len(Sizes)
  /\ worker.allowed + worker.skipped <= Sizes[state.next + 1]
MayLeave == op \in Leaving /\ state.next = LastCursor
CallInHand ==
  \/ worker.native = ChatCall /\ op \notin Batched
  \/ worker.native \in {"leave", "self"} /\ MayLeave
PhaseOk ==
  /\ worker.pc \notin Inert => store.next = state.next
  /\ worker.pc \in {"batch", "reached", "post"} => op \in Batched
  /\ worker.pc = "reached" => worker.native = "delete"
  /\ worker.pc = "chat" => op \notin Batched
  /\ worker.pc \in InHand \cup {"reached"} =>
       IF worker.native = "delete" THEN BatchInHand ELSE CallInHand
  /\ worker.pc \in {"leave", "looked", "left", "relooked"} => MayLeave
  /\ worker.pc \in {"looked", "relooked"} /\ "listed" \notin worker.seen => gone
  /\ worker.pc = "settle" /\ worker.result = "ok" =>
       IF worker.native = "delete" THEN state.deleted + worker.allowed <= removed
       ELSE worker.native \in acked
  /\ worker.pc = "final" =>
       /\ state.next = LastCursor
       /\ op \notin Batched => ChatCall \in acked
       /\ op \in Leaving => gone \/ "self" \in acked

IInv ==
  /\ TypeOK /\ RecordsOk /\ CompletedOk /\ WorkersOk /\ CommandsOk /\ SentOk
  /\ PhaseOk

LEMMA PlanKept ==
  ASSUME op' = op
  PROVE  /\ LastCursor' = LastCursor /\ ChatCall' = ChatCall /\ Total' = Total
         /\ \A n : Passed(n)' = Passed(n)
BY DEF LastCursor, ChatCall, Total, Passed

(* What is behind a cursor grows with it, by a batch at a time.             *)
LEMMA PassedCounts ==
  ASSUME NEW n \in Nat
  PROVE  /\ IsFiniteSet(Passed(n)) /\ Cardinality(Passed(n)) \in Nat
         /\ Total \in Nat /\ Cardinality(Passed(n)) <= Total
         /\ n = 0 \/ op \notin Batched => Cardinality(Passed(n)) = 0
         /\ op \in Batched /\ n < Len(Sizes) =>
              Cardinality(Passed(n + 1)) = Cardinality(Passed(n)) + Sizes[n + 1]
<1>1. DOMAIN Sizes = 1..Len(Sizes) /\ Len(Sizes) \in Nat /\ \A b \in DOMAIN Sizes : Sizes[b] \in Nat
  BY SizesAssumption
<1>2. ASSUME NEW m \in Nat PROVE IsFiniteSet(Passed(m))
  <2> DEFINE range == {b \in DOMAIN Sizes : op \in Batched /\ b <= m}
             pieces == {{b} \X (1..Sizes[b]) : b \in range}
  <2>1. IsFiniteSet(range)
    <3>1. IsFiniteSet(1..Len(Sizes)) /\ range \in SUBSET (1..Len(Sizes))
      BY <1>1, FS_Interval
    <3> QED BY <3>1, FS_Subset
  <2>2. IsFiniteSet(pieces)
    <3> DEFINE f == [b \in range |-> {b} \X (1..Sizes[b])]
    <3>1. f \in Surjection(range, pieces)
      BY DEF Surjection
    <3> HIDE DEF range, pieces, f
    <3> QED BY <2>1, <3>1, FS_Surjection
  <2>3. ASSUME NEW b \in range PROVE IsFiniteSet({b} \X (1..Sizes[b]))
    <3>1. 1 \in Int /\ Sizes[b] \in Int
      BY <1>1
    <3>2. IsFiniteSet(1..Sizes[b])
      BY <3>1, FS_Interval
    <3>3. IsFiniteSet({b})
      BY FS_Singleton
    <3> QED BY <3>2, <3>3, FS_Product
  <2>4. IsFiniteSet(UNION pieces)
    <3>1. \A x \in pieces : IsFiniteSet(x)
      BY <2>3
    <3> HIDE DEF pieces
    <3> QED BY <2>2, <3>1, FS_UNION
  <2> QED BY <2>4 DEF pieces, Passed
<1>3. \A m \in Nat : Cardinality(Passed(m)) \in Nat
  BY <1>2, FS_CardinalityType
<1>4. Passed(n) \subseteq Passed(Len(Sizes))
  BY <1>1 DEF Passed
<1>5. Cardinality(Passed(n)) <= Total
  BY <1>1, <1>2, <1>4, FS_Subset DEF Total
<1>6. n = 0 \/ op \notin Batched => Cardinality(Passed(n)) = 0
  BY <1>1, FS_EmptySet DEF Passed
<1>7. ASSUME op \in Batched, n < Len(Sizes)
      PROVE  Cardinality(Passed(n + 1)) = Cardinality(Passed(n)) + Sizes[n + 1]
  <2> DEFINE batch == {n + 1} \X (1..Sizes[n + 1])
  <2>1. n + 1 \in DOMAIN Sizes /\ Sizes[n + 1] \in Nat
    BY <1>1, <1>7
  <2>2. IsFiniteSet(batch) /\ Cardinality(batch) = Sizes[n + 1]
    <3>1. IsFiniteSet({n + 1}) /\ Cardinality({n + 1}) = 1
      BY FS_Singleton
    <3>2. IsFiniteSet(1..Sizes[n + 1]) /\ Cardinality(1..Sizes[n + 1]) = Sizes[n + 1]
      BY <2>1, FS_Interval
    <3> QED BY <2>1, <3>1, <3>2, FS_Product
  <2>3. Passed(n + 1) = Passed(n) \cup batch
    <3>1. {b \in DOMAIN Sizes : op \in Batched /\ b <= n + 1}
            = {b \in DOMAIN Sizes : op \in Batched /\ b <= n} \cup {n + 1}
      BY <1>1, <1>7, <2>1
    <3> QED BY <3>1 DEF Passed
  <2>4. Passed(n) \cap batch = {}
    BY <1>1 DEF Passed
  <2>5. Cardinality(Passed(n) \cap batch) = 0
    BY <2>4, FS_EmptySet
  <2> HIDE DEF batch
  <2>6. n + 1 \in Nat /\ Cardinality(Passed(n)) \in Nat
    BY <1>3
  <2>7. IsFiniteSet(Passed(n)) /\ IsFiniteSet(batch)
    BY <1>2, <2>2
  <2>8. Cardinality(Passed(n) \cup batch)
          = Cardinality(Passed(n)) + Cardinality(batch) - Cardinality(Passed(n) \cap batch)
    BY <2>7, FS_Union
  <2>9. Cardinality(Passed(n + 1)) = Cardinality(Passed(n)) + Cardinality(batch) - 0
    BY <2>3, <2>5, <2>8
  <2>10. Cardinality(batch) = Sizes[n + 1] /\ Sizes[n + 1] \in Nat
    BY <2>1, <2>2
  <2> QED BY <2>6, <2>9, <2>10
<1>8. Total \in Nat
  BY <1>1, <1>3 DEF Total
<1>9. IsFiniteSet(Passed(n)) /\ Cardinality(Passed(n)) \in Nat
  BY <1>2, <1>3
<1>10. op \in Batched /\ n < Len(Sizes) =>
         Cardinality(Passed(n + 1)) = Cardinality(Passed(n)) + Sizes[n + 1]
  BY <1>7
<1> QED BY <1>5, <1>6, <1>8, <1>9, <1>10

-----------------------------------------------------------------------------
(* Facts about the records a step publishes.                                *)

LEMMA JobFacts ==
  ASSUME NEW job \in JobRecord
  PROVE  /\ Stopped(job) \in JobRecord /\ Terminal(Stopped(job))
         /\ Stopped(job).status # "Completed"
         /\ Stopped(job).next = job.next /\ Stopped(job).deleted = job.deleted
         /\ FinishCancelled(job) \in JobRecord /\ Terminal(FinishCancelled(job))
         /\ FinishCancelled(job).next = job.next
         /\ FinishCancelled(job).deleted = job.deleted
         /\ FinishCancelled(job).status = "Completed" => job.status = "Completed"
         /\ Terminal(job) => job.status # "Absent"
BY DEF JobRecord, Stopped, FinishCancelled, Terminal, TerminalStatus

(* A publication changes both copies, neither, or, when the store fails,    *)
(* perhaps the stored one only.                                             *)
LEMMA PublishForm ==
  ASSUME TypeOK, NEW new \in JobRecord, NEW ok \in BOOLEAN, Publish(new, ok)
  PROVE  /\ state' \in {state, new} /\ store' \in {store, new}
         /\ state' # state \/ store' # store =>
              /\ ~failed /\ store = state /\ Publishable(new)
         /\ failed' = ~ok
         /\ ok => ~failed /\ state' = new /\ store' = new /\ store = state /\ Publishable(new)
         /\ ~ok => state' = state
         /\ ok => saved' = (saved \/ "leave" \in acked)
         /\ ~ok => saved' = saved
BY DEF Publish, TypeOK, Publishable

(* Records stay valid when the plan stays and the observers learn more,     *)
(* and what is published over them is valid by the guard of publication.    *)
LEMMA RecordsPublished ==
  ASSUME TypeOK, RecordsOk, op' = op,
         acked \subseteq acked', removed' \in Nat, removed <= removed',
         NEW new \in JobRecord, state' \in {state, new}, store' \in {store, new},
         state' # state \/ store' # store => Publishable(new),
         ~failed' => store' = state',
         new.deleted <= removed,
         op = "ClearHistoryAndLeave" /\ new.next # 0 => "clear" \in acked
  PROVE  RecordsOk'
<1>1. JobOk(state)'
  <2>2. CASE state' = state
    BY <2>2, PlanKept DEF RecordsOk, JobOk, Accounted, Consistent, Results, TypeOK, JobRecord
  <2>3. CASE state' = new /\ Publishable(new)
    BY <2>3, PlanKept DEF Publishable, JobOk, Accounted, Consistent, Results, TypeOK, JobRecord
  <2> QED BY <2>2, <2>3
<1>2. JobOk(store)'
  <2>2. CASE store' = store
    BY <2>2, PlanKept DEF RecordsOk, JobOk, Accounted, Consistent, Results, TypeOK, JobRecord
  <2>3. CASE store' = new /\ Publishable(new)
    BY <2>3, PlanKept DEF Publishable, JobOk, Accounted, Consistent, Results, TypeOK, JobRecord
  <2> QED BY <2>2, <2>3
<1> QED BY <1>1, <1>2 DEF RecordsOk

(* What was done of a completed job stays done.                             *)
LEMMA CompletedKept ==
  ASSUME TypeOK, CompletedOk, op' = op,
         acked \subseteq acked', removed' \in Nat, removed <= removed', gone => gone',
         store'.status = "Completed" => store' = store /\ lost' = lost,
         store.status = "Completed" => worker'.pc \in Inert
  PROVE  CompletedOk'
BY PlanKept DEF CompletedOk, CompletedMeansDone, TypeOK, JobRecord

-----------------------------------------------------------------------------
(* Steps of the worker, whatever they are for.                              *)

(* A step that publishes nothing, and does not end the worker.              *)
SilentMove ==
  /\ UnPublished /\ WorkerFrame /\ UNCHANGED control
  /\ worker.pc \notin {"off", "finish", "unmap"}
  /\ worker' \in WorkerRecord /\ chat' \subseteq Capability
  /\ acked' \subseteq Native /\ acked \subseteq acked'
  /\ removed' \in Nat /\ removed <= removed'
  /\ lost' \in BOOLEAN /\ gone' \in BOOLEAN
  /\ gone => gone'
  /\ worker.pc \in Inert => worker'.pc \in Inert /\ lost' = lost
  /\ worker'.pc \notin {"off", "start", "post", "unmap"}
  /\ worker'.pc = "flight" => ~Flagged
  /\ worker'.pc = "finish" => Over

LEMMA SilentStep ==
  ASSUME IInv, SilentMove
  PROVE  TypeOK' /\ RecordsOk' /\ CompletedOk' /\ WorkersOk' /\ CommandsOk'
<1>1. TypeOK'
  <2>1. UNCHANGED <<store, state, failed, saved, call, cancelled, control>>
    BY DEF SilentMove, UnPublished, WorkerFrame
  <2>2. /\ worker' \in WorkerRecord /\ chat' \subseteq Capability /\ acked' \subseteq Native
        /\ removed' \in Nat /\ lost' \in BOOLEAN /\ gone' \in BOOLEAN
    BY DEF SilentMove
  <2> QED BY <2>1, <2>2 DEF IInv, TypeOK
<1>2. RecordsOk'
  BY RecordsPublished DEF IInv, TypeOK, RecordsOk, JobOk, SilentMove, UnPublished, WorkerFrame
<1>3. CompletedOk'
  <2>1. store' = store /\ (store.status = "Completed" => worker.pc \in Inert)
    BY DEF IInv, CompletedOk, SilentMove, UnPublished
  <2>2. store.status = "Completed" => worker'.pc \in Inert /\ lost' = lost
    BY <2>1 DEF SilentMove
  <2>3. /\ acked \subseteq acked' /\ removed' \in Nat /\ removed <= removed'
        /\ gone => gone'
    BY DEF SilentMove
  <2>4. op' = op
    BY DEF SilentMove, WorkerFrame
  <2> QED BY <2>1, <2>2, <2>3, <2>4, CompletedKept DEF IInv
<1>4. WorkersOk'
  BY DEF IInv, TypeOK, ControlRecord, WorkersOk, SilentMove, UnPublished, WorkerFrame, Over,
         Fatal, Terminal, Unfinished, Inert
<1>5. CommandsOk'
  BY DEF IInv, CommandsOk, CommandOk, Holds, SilentMove, WorkerFrame, Flagged, PastGate,
         Signalled
<1> QED BY <1>1, <1>2, <1>3, <1>4, <1>5

(* What is left to know of a job to store it as Completed; that its targets *)
(* add up is for the guard of publication.                                  *)
DoneBy(job) ==
  /\ ~lost
  /\ job.next = LastCursor
  /\ op \notin Batched => ChatCall \in acked
  /\ op \in Leaving => gone \/ "self" \in acked
  /\ job.deleted <= removed

LEMMA CompletedNow ==
  ASSUME TypeOK, UNCHANGED <<op, lost, acked, gone, removed>>,
         NEW new \in JobRecord, Publishable(new), DoneBy(new),
         store' = new, worker'.pc \in Inert
  PROVE  CompletedOk'
<1>1. CASE new.status = "Completed"
  <2>1. op \in Batched => new.deleted + new.skipped = Total
    <3> SUFFICES ASSUME op \in Batched
                 PROVE  new.deleted + new.skipped = Total
      OBVIOUS
    <3>1. new.next = Len(Sizes) /\ Len(Sizes) \in Nat
      BY SizesAssumption DEF DoneBy, LastCursor, Batched
    <3>3. Results(new) + new.skipped = Total
      BY <3>1 DEF Publishable, Accounted, Total
    <3>4. new.failed = 0 /\ new.uncertain = 0
      BY <1>1 DEF Publishable, Consistent
    <3> QED BY <3>3, <3>4 DEF Results, JobRecord
  <2> QED BY <2>1, PlanKept DEF DoneBy, CompletedOk, CompletedMeansDone
<1>2. CASE new.status # "Completed"
  BY <1>2 DEF CompletedOk, CompletedMeansDone
<1> QED BY <1>1, <1>2

(* A step that publishes a record, or fails to: then it leaves the phases.  *)
PublishedMove(new, ok) ==
  /\ new \in JobRecord /\ ok \in BOOLEAN /\ Publish(new, ok)
  /\ WorkerFrame /\ UNCHANGED <<control, chat, acked, lost, removed, gone>>
  /\ worker.pc \notin {"off", "start", "finish", "unmap"}
  /\ worker' \in WorkerRecord
  /\ new.status # "Absent" /\ new.deleted <= removed
  /\ op = "ClearHistoryAndLeave" /\ new.next # 0 => "clear" \in acked
  /\ new.status = "Completed" => new = state \/ (worker'.pc \in Inert /\ DoneBy(new))
  /\ ~ok => worker'.pc \in {"fail", "finish"}
  /\ ok => worker'.pc \notin {"off", "start", "unmap", "flight"}
  /\ ok /\ control.spawn > 1 => worker'.pc = "finish"
  /\ ok /\ worker'.pc = "finish" => Terminal(new)
  /\ ok /\ worker'.pc = "post" /\ Fatal' => Terminal(new)
  /\ state.status = "Completed" /\ ok => worker'.pc = "finish"

LEMMA PublishedStep ==
  ASSUME IInv, NEW new, NEW ok, PublishedMove(new, ok)
  PROVE  TypeOK' /\ RecordsOk' /\ CompletedOk' /\ WorkersOk' /\ CommandsOk'
<1> DEFINE Form ==
      /\ state' \in {state, new} /\ store' \in {store, new}
      /\ state' # state \/ store' # store =>
           /\ ~failed /\ store = state /\ Publishable(new)
      /\ failed' = ~ok
      /\ ok => ~failed /\ state' = new /\ store' = new /\ store = state /\ Publishable(new)
      /\ ~ok => state' = state
      /\ ok => saved' = (saved \/ "leave" \in acked)
      /\ ~ok => saved' = saved
<1>0. Form
  BY PublishForm DEF IInv, PublishedMove
<1>1. TypeOK'
  BY <1>0 DEF IInv, TypeOK, PublishedMove, WorkerFrame
<1>2. RecordsOk'
  <2>1. acked \subseteq acked' /\ removed' \in Nat /\ removed <= removed' /\ op' = op
    BY DEF IInv, TypeOK, PublishedMove, WorkerFrame
  <2>2. ~failed' => store' = state'
    BY <1>0 DEF PublishedMove
  <2> QED BY <1>0, <2>1, <2>2, RecordsPublished DEF IInv, PublishedMove
<1>3. CompletedOk'
  <2>1. CASE store'.status = "Completed" => store' = store
    <3>1. store.status = "Completed" => worker'.pc \in Inert
      BY <1>0 DEF IInv, RecordsOk, PublishedMove, Inert, TypeOK
    <3> QED BY <2>1, <3>1, CompletedKept DEF IInv, PublishedMove, WorkerFrame, TypeOK
  <2>2. CASE store'.status = "Completed" /\ store' # store
    <3>1. store' = new /\ Publishable(new) /\ new # state /\ store = state
      BY <1>0, <2>2
    <3>2. worker'.pc \in Inert /\ DoneBy(new)
      BY <2>2, <3>1 DEF PublishedMove
    <3> QED BY <3>1, <3>2, CompletedNow DEF IInv, PublishedMove, WorkerFrame
  <2> QED BY <2>1, <2>2
<1>4. WorkersOk'
  <2>1. Over' \/ ~Over
    BY <1>0 DEF Over, Publishable, Terminal, TerminalStatus, PublishedMove
  <2>2. control.spawn = 0 \/ (state'.status # "Absent" /\ store'.status # "Absent")
    BY <1>0 DEF IInv, WorkersOk, PublishedMove
  <2>3. control.spawn # 0
    BY DEF IInv, WorkersOk, PublishedMove
  <2>4. worker'.pc = "finish" => Over'
    BY <1>0 DEF PublishedMove, Over
  <2>5. worker'.pc = "post" /\ Fatal' => Terminal(state')
    BY <1>0 DEF PublishedMove
  <2> QED BY <1>0, <2>1, <2>2, <2>3, <2>4, <2>5
             DEF IInv, TypeOK, ControlRecord, WorkersOk, PublishedMove, WorkerFrame, Inert,
                 Terminal, Unfinished
<1>5. CommandsOk'
  BY <1>0 DEF IInv, CommandsOk, CommandOk, Holds, PublishedMove, WorkerFrame, PastGate,
         Signalled
<1> QED BY <1>1, <1>2, <1>3, <1>4, <1>5

(* The worker with its locals forgotten.                                    *)
LEMMA FreshWorker ==
  ASSUME NEW pc \in WorkerPc, NEW native \in Native
  PROVE  /\ [NoWorker EXCEPT !.pc = pc] \in WorkerRecord
         /\ [NoWorker EXCEPT !.pc = pc].pc = pc
         /\ [NoWorker EXCEPT !.pc = pc, !.native = native] \in WorkerRecord
         /\ [NoWorker EXCEPT !.pc = pc, !.native = native].pc = pc
         /\ [NoWorker EXCEPT !.pc = pc, !.native = native].native = native
BY DEF NoWorker, WorkerRecord, Native, Result

-----------------------------------------------------------------------------
(* Each step of the worker preserves the invariant.                         *)

(* A phase is run by the first worker, before any cancel has returned, and  *)
(* only the answer of a call may have been lost.                            *)
LEMMA InPhase ==
  ASSUME IInv, worker.pc \notin Inert
  PROVE  /\ control.spawn = 1 /\ ~cancelled
         /\ store.status # "Completed"
         /\ state.status # "Absent" /\ Accounted(state)
         /\ lost => worker.pc \in {"settle", "post"} /\ worker.result = "ambiguous"
         /\ "leave" \in acked =>
              \/ saved
              \/ worker.pc = "settle" /\ worker.native = "leave" /\ worker.result = "ok"
BY DEF IInv, WorkersOk, SentOk, CompletedOk, RecordsOk, JobOk, TypeOK, ControlRecord, Inert

(* A silent step within a phase or out of it, the observers included.       *)
Quietly ==
  UnPublished /\ WorkerFrame /\ UNCHANGED <<control, chat, acked, lost, removed, gone>>

LEMMA PhaseStep ==
  ASSUME IInv, Quietly, worker.pc \notin Inert, worker' \in WorkerRecord,
         worker'.pc \notin {"off", "start", "claim", "unmap", "post"},
         worker'.pc = "flight" => ~Flagged,
         worker'.pc = "finish" => Over,
         worker.pc \in {"settle", "post"} /\ worker.result = "ambiguous" =>
           worker'.pc \in {"fail", "finish"},
         worker.pc = "settle" /\ worker.native = "leave" /\ worker.result = "ok" =>
           worker'.pc \in Inert,
         PhaseOk'
  PROVE  IInv'
<1>1. SilentMove
  BY DEF SilentMove, Quietly, Inert, IInv, TypeOK
<1>2. SentOk'
  <2>1. /\ lost => worker'.pc \in {"fail", "finish"}
        /\ "leave" \in acked => saved \/ worker'.pc \in Inert
    BY InPhase
  <2>2. UNCHANGED <<control, saved, lost, acked, cancelled>>
    BY DEF Quietly, UnPublished, WorkerFrame
  <2>3. control.spawn = 1 /\ ~cancelled
    BY InPhase
  <2> QED BY <2>1, <2>2, <2>3 DEF SentOk
<1> QED BY <1>1, <1>2, SilentStep DEF IInv

LEMMA RunStartKeeps ==
  ASSUME IInv, RunStart
  PROVE  IInv'
<1>1. worker'.pc \in {"fail", "claim"} /\ worker' \in WorkerRecord
  BY DEF RunStart, At, Goto, IInv, TypeOK, WorkerRecord, WorkerPc, WorkersOk, Check
<1>2. SilentMove
  BY <1>1 DEF SilentMove, RunStart, At, Inert, IInv, TypeOK
<1>3. SentOk' /\ PhaseOk'
  BY <1>1 DEF IInv, SentOk, PhaseOk, RunStart, At, UnPublished, WorkerFrame, Inert, InHand
<1> QED BY <1>2, <1>3, SilentStep DEF IInv

LEMMA PreflightKeeps ==
  ASSUME IInv, Preflight
  PROVE  IInv'
<1>0. /\ worker.pc = "batch" /\ op \in Batched /\ worker \in WorkerRecord
      /\ state \in JobRecord
  BY DEF Preflight, At, IInv, TypeOK, PhaseOk
<1>q. Quietly
  BY DEF Preflight, Quietly
<1>1. CASE PastLastBatch
  <2>1. /\ worker'.pc = IF op \in Leaving THEN "leave" ELSE "final"
        /\ worker' \in WorkerRecord
    BY <1>0, <1>1 DEF Preflight, Goto, WorkerRecord, WorkerPc
  <2>4. state.next = LastCursor
    <3>1. state.next <= LastCursor /\ LastCursor = Len(Sizes)
      BY <1>0, InPhase DEF Accounted, LastCursor, Batched, Inert
    <3> QED BY <1>0, <1>1, <3>1, SizesAssumption DEF PastLastBatch, JobRecord
  <2>5. PhaseOk'
    BY <1>0, <1>q, <2>1, <2>4, PlanKept
       DEF IInv, PhaseOk, MayLeave, Inert, InHand, Quietly, UnPublished, WorkerFrame
  <2> QED BY <1>0, <1>q, <2>1, <2>5, PhaseStep DEF Inert
<1>2. CASE ~PastLastBatch
  <2>1. PICK allowed \in 0..Sizes[state.next + 1], skipped \in 0..Sizes[state.next + 1],
             result \in {"ok", "soft", "fatal", "rate"} :
          /\ allowed + skipped <= Sizes[state.next + 1]
          /\ worker' = [worker EXCEPT !.pc = "reached", !.native = "delete",
                                      !.allowed = allowed, !.skipped = skipped,
                                      !.result = result]
    BY <1>2 DEF Preflight
  <2>2. state.next < Len(Sizes) /\ Sizes[state.next + 1] \in Nat
    BY <1>0, <1>2, SizesAssumption DEF PastLastBatch, JobRecord
  <2>3. /\ worker'.pc = "reached" /\ worker'.native = "delete"
        /\ worker'.allowed = allowed /\ worker'.skipped = skipped
        /\ worker' \in WorkerRecord
    <3>1. allowed \in Nat /\ skipped \in Nat /\ result \in Result
      BY <2>2 DEF Result
    <3>2. "reached" \in WorkerPc /\ "delete" \in Native
      BY DEF WorkerPc, Native
    <3> QED BY <1>0, <2>1, <3>1, <3>2 DEF WorkerRecord
  <2>6. PhaseOk'
    BY <1>0, <1>q, <2>1, <2>2, <2>3
       DEF IInv, PhaseOk, BatchInHand, Inert, InHand, Quietly, UnPublished, WorkerFrame
  <2> QED BY <1>0, <1>q, <2>3, <2>6, PhaseStep DEF Inert
<1> QED BY <1>1, <1>2

LEMMA ReachedKeeps ==
  ASSUME IInv, Reached
  PROVE  IInv'
<1>0. worker.pc = "reached" /\ worker \in WorkerRecord /\ state \in JobRecord
  BY DEF IInv, TypeOK, Reached, At
<1>q. Quietly
  BY DEF Reached, Quietly
<1>1. /\ \/ worker'.pc = "gate"
         \/ worker'.pc = "settle" /\ (worker.result = "ok" => worker.allowed = 0)
      /\ worker'.native = worker.native /\ worker'.result = worker.result
      /\ worker'.allowed = worker.allowed /\ worker'.skipped = worker.skipped
      /\ worker' \in WorkerRecord
  BY <1>0 DEF Reached, Goto, WorkerRecord, WorkerPc
<1>4. worker.native = "delete" /\ BatchInHand /\ store.next = state.next
  BY <1>0 DEF IInv, PhaseOk, Inert
<1>5. BatchInHand'
  BY <1>1, <1>4, <1>q DEF BatchInHand, Quietly, UnPublished, WorkerFrame
<1>6. worker'.result = "ok" /\ worker'.pc = "settle" =>
        state'.deleted + worker'.allowed <= removed'
  BY <1>0, <1>1, <1>q DEF IInv, RecordsOk, JobOk, Quietly, UnPublished, TypeOK, JobRecord
<1>7. PhaseOk'
  BY <1>0, <1>1, <1>4, <1>5, <1>6, <1>q DEF PhaseOk, Inert, InHand, Quietly, UnPublished
<1> QED BY <1>0, <1>1, <1>q, <1>7, PhaseStep DEF Inert

LEMMA ResolveKeeps ==
  ASSUME IInv, Resolve
  PROVE  IInv'
<1>0. worker.pc = "chat" /\ worker \in WorkerRecord /\ op \notin Batched
  BY DEF IInv, TypeOK, Resolve, At, PhaseOk
<1>q. Quietly
  BY DEF Resolve, Quietly
<1>1. /\ worker' \in WorkerRecord
      /\ worker'.pc = "fail" \/ (worker'.pc = "gate" /\ worker'.native = ChatCall)
      /\ ChatCall \in Native \ {"delete"}
  <2>1. ChatCall \in Native \ {"delete"}
    BY DEF ChatCall, Native
  <2> QED BY <1>0, <2>1 DEF Resolve, WorkerRecord, WorkerPc
<1>2. PhaseOk'
  BY <1>0, <1>1, <1>q, PlanKept
     DEF IInv, PhaseOk, CallInHand, Inert, InHand, Quietly, UnPublished, WorkerFrame
<1> QED BY <1>0, <1>1, <1>q, <1>2, PhaseStep DEF Inert

LEMMA LookupKeeps ==
  ASSUME IInv, Lookup
  PROVE  IInv'
<1>0. /\ worker.pc \in {"leave", "left"} /\ worker \in WorkerRecord /\ chat \subseteq Capability
      /\ MayLeave
  BY DEF IInv, TypeOK, Lookup, At, PhaseOk
<1>1. /\ UnPublished /\ WorkerFrame
      /\ UNCHANGED <<control, chat, acked, lost, removed>>
      /\ gone' \in BOOLEAN
      /\ gone => gone'
  <2>1. gone \in BOOLEAN
    BY DEF IInv, TypeOK
  <2>2. gone' = (gone \/ "listed" \notin chat) \/ gone' = gone
    BY DEF Lookup
  <2>3. gone' \in BOOLEAN /\ (gone => gone')
    BY <2>1, <2>2
  <2> QED BY <2>3 DEF Lookup
<1>2. /\ worker' \in WorkerRecord
      /\ \/ worker'.pc = "fail"
         \/ worker'.pc = "settle" /\ worker'.native = "leave" /\ worker'.result = "rate"
         \/ /\ worker'.pc \in {"looked", "relooked"}
            /\ "listed" \notin worker'.seen => gone'
  BY <1>0 DEF Lookup, Goto, WorkerRecord, WorkerPc, Native, Result
<1>3. SilentMove
  BY <1>0, <1>1, <1>2 DEF SilentMove, Inert, IInv, TypeOK
<1>4. SentOk'
  BY <1>0, <1>1, <1>2, InPhase DEF SentOk, Inert, UnPublished, WorkerFrame
<1>5. PhaseOk'
  BY <1>0, <1>1, <1>2, PlanKept
     DEF IInv, PhaseOk, CallInHand, MayLeave, Inert, InHand, UnPublished, WorkerFrame
<1> QED BY <1>3, <1>4, <1>5, SilentStep DEF IInv

(* The chat is gone, or the next call takes it away; the cleanup before it  *)
(* is recorded.                                                             *)
LEMMA LeaveOrRemoveKeeps ==
  ASSUME IInv, LeaveOrRemove
  PROVE  IInv'
<1>0. /\ worker.pc \in {"looked", "relooked"} /\ worker \in WorkerRecord
      /\ MayLeave /\ ("listed" \notin worker.seen => gone) /\ state \in JobRecord
      /\ store.next = state.next
  BY DEF IInv, TypeOK, LeaveOrRemove, PhaseOk, Inert
<1>q. Quietly
  BY DEF LeaveOrRemove, Quietly
<1>1. /\ worker' \in WorkerRecord
      /\ \/ worker'.pc = "fail"
         \/ worker'.pc = "final" /\ gone
         \/ worker'.pc = "gate" /\ worker'.native \in {"leave", "self"}
  <2>1. \/ worker' = [NoWorker EXCEPT !.pc = "final"] /\ gone
        \/ worker' = [NoWorker EXCEPT !.pc = "gate", !.native = "leave"]
        \/ worker' = [NoWorker EXCEPT !.pc = "gate", !.native = "self"]
        \/ worker' = [NoWorker EXCEPT !.pc = "fail"]
    BY <1>0 DEF LeaveOrRemove
  <2>2. {"fail", "final", "gate"} \subseteq WorkerPc /\ {"leave", "self"} \subseteq Native
    BY DEF WorkerPc, Native
  <2>3. CASE worker' = [NoWorker EXCEPT !.pc = "final"] /\ gone
    BY <2>2, <2>3, FreshWorker
  <2>4. CASE worker' = [NoWorker EXCEPT !.pc = "fail"]
    BY <2>2, <2>4, FreshWorker
  <2>5. ASSUME NEW native \in {"leave", "self"},
               worker' = [NoWorker EXCEPT !.pc = "gate", !.native = native]
        PROVE  worker' \in WorkerRecord /\ worker'.pc = "gate" /\ worker'.native = native
    BY <2>2, <2>5, FreshWorker
  <2> QED BY <2>1, <2>3, <2>4, <2>5
<1>2. op \notin Batched => ChatCall \in acked
  BY <1>0 DEF IInv, RecordsOk, JobOk, MayLeave, Leaving, Batched, LastCursor, ChatCall
<1>3. ~Flagged /\ op' = op /\ state' = state /\ gone' = gone /\ acked' = acked
  BY <1>q DEF LeaveOrRemove, Quietly, WorkerFrame, UnPublished
<1>4. PhaseOk'
  BY <1>0, <1>1, <1>2, <1>3, <1>q, PlanKept
     DEF PhaseOk, CallInHand, MayLeave, Inert, InHand, Quietly, UnPublished
<1> QED BY <1>0, <1>1, <1>q, <1>4, PhaseStep DEF Inert

LEMMA WaitOverKeeps ==
  ASSUME IInv, WaitOver
  PROVE  IInv'
<1>0. worker.pc = "wait" /\ worker \in WorkerRecord
  BY DEF IInv, TypeOK, WaitOver, At
<1>q. Quietly
  BY DEF WaitOver, Quietly
<1>1. /\ worker' \in WorkerRecord /\ worker'.pc \in {"fail", "resume"}
      /\ worker'.native = worker.native
      /\ worker'.allowed = worker.allowed /\ worker'.skipped = worker.skipped
  BY <1>0 DEF WaitOver, Goto, WorkerRecord, WorkerPc
<1>2. PhaseOk'
  BY <1>0, <1>1, <1>q, PlanKept
     DEF IInv, PhaseOk, CallInHand, BatchInHand, MayLeave, Inert, InHand, Quietly, UnPublished,
         WorkerFrame
<1> QED BY <1>0, <1>1, <1>q, <1>2, PhaseStep DEF Inert

LEMMA AfterBatchKeeps ==
  ASSUME IInv, AfterBatch
  PROVE  IInv'
<1>0. /\ worker.pc = "post" /\ worker \in WorkerRecord /\ op \in Batched
      /\ store.next = state.next
  BY DEF IInv, TypeOK, AfterBatch, At, PhaseOk, Inert
<1>q. Quietly
  BY DEF AfterBatch, Quietly
<1>1. /\ worker' \in WorkerRecord
      /\ worker'.pc = IF Fatal THEN "finish" ELSE "batch"
  BY <1>0 DEF AfterBatch, Goto, Fatal, WorkerRecord, WorkerPc
<1>2. Fatal => Over
  BY <1>0 DEF IInv, WorkersOk, Over
<1>3. PhaseOk'
  BY <1>0, <1>1, <1>q DEF PhaseOk, Inert, InHand, Quietly, UnPublished, WorkerFrame
<1> QED BY <1>0, <1>1, <1>2, <1>q, <1>3, PhaseStep DEF Inert, Fatal

(* A transition by the worker keeps the invariant when what it publishes is *)
(* sound and, once published, what the next step relies on.                 *)
PublishedAs(new, then) ==
  /\ state' = new /\ store' = new /\ op' = op /\ worker'.pc = then
  /\ then \in {"post", "wait"} => worker' = [worker EXCEPT !.pc = then]

LEMMA WorkerPublishes ==
  ASSUME IInv, NEW new \in JobRecord, NEW then \in WorkerPc, NEW else \in {"fail", "finish"},
         WorkerPublish(new, then, else),
         WorkerFrame, UNCHANGED <<control, chat, acked, lost, removed, gone>>,
         worker.pc \notin {"off", "start", "finish", "unmap"},
         then \notin {"off", "start", "unmap", "flight"},
         new.status # "Absent", new.deleted <= removed,
         op = "ClearHistoryAndLeave" /\ new.next # 0 => "clear" \in acked,
         new.status = "Completed" => new = state \/ (then = "finish" /\ DoneBy(new)),
         then = "finish" \/ (then = "post" /\ Fatal) => Terminal(new),
         ~failed /\ (control.spawn > 1 \/ state.status = "Completed") => then = "finish",
         lost => \/ control.spawn # 1
                 \/ then \in {"fail", "finish"}
                 \/ then = "post" /\ worker.result = "ambiguous",
         PublishedAs(new, then) => PhaseOk'
  PROVE  IInv'
<1>1. PICK ok \in BOOLEAN :
        /\ Publish(new, ok)
        /\ worker' = IF ok /\ then \in {"post", "wait"} THEN [worker EXCEPT !.pc = then]
                     ELSE [NoWorker EXCEPT !.pc = IF ok THEN then ELSE else]
  BY DEF WorkerPublish
<1>2. worker \in WorkerRecord /\ worker.pc \in WorkerPc /\ else \in WorkerPc
  BY DEF IInv, TypeOK, WorkerRecord, WorkerPc
<1>3. /\ worker' \in WorkerRecord
      /\ ok => worker'.pc = then
      /\ ~ok => worker'.pc = else
      /\ ok /\ then = "post" => worker'.result = worker.result
  <2>1. CASE ok /\ then \in {"post", "wait"}
    BY <1>1, <1>2, <2>1 DEF WorkerRecord
  <2>2. CASE ~(ok /\ then \in {"post", "wait"})
    <3> DEFINE pc == IF ok THEN then ELSE else
    <3>1. worker' = [NoWorker EXCEPT !.pc = pc] /\ pc \in WorkerPc
      BY <1>1, <1>2, <2>2
    <3> HIDE DEF pc
    <3>2. worker' \in WorkerRecord /\ worker'.pc = pc
      BY <3>1, FreshWorker DEF Native
    <3> QED BY <2>2, <3>2 DEF pc
  <2> QED BY <2>1, <2>2
<1>4. /\ failed' = ~ok
      /\ ok => ~failed /\ state' = new /\ store' = new /\ saved' = (saved \/ "leave" \in acked)
      /\ ~ok => saved' = saved
  BY <1>1, PublishForm DEF IInv
<1>5. PublishedMove(new, ok)
  BY <1>1, <1>3, <1>4 DEF PublishedMove, Fatal, Publish, Inert
<1>6. SentOk'
  <2>1. UNCHANGED <<control, acked, lost, cancelled>>
    BY DEF WorkerFrame
  <2>2. cancelled => control.spawn # 0 /\ control.spawn # 1
    BY DEF IInv, SentOk
  <2>3. lost => control.spawn # 0
    BY DEF IInv, SentOk
  <2>4. "leave" \in acked' => saved' \/ worker'.pc \in Inert
    BY <1>3, <1>4, <2>1 DEF Inert
  <2>5. lost' /\ control'.spawn = 1 =>
          \/ worker'.pc \in {"fail", "finish", "unmap", "off"}
          \/ worker'.pc \in {"settle", "post"} /\ worker'.result = "ambiguous"
    BY <1>3, <2>1
  <2> QED BY <2>1, <2>2, <2>3, <2>4, <2>5 DEF SentOk
<1>7. PhaseOk'
  <2>1. CASE ok
    <3>1. then \in {"post", "wait"} => worker' = [worker EXCEPT !.pc = then]
      BY <1>1, <2>1
    <3> QED BY <1>3, <1>4, <2>1, <3>1 DEF PublishedAs, WorkerFrame
  <2>2. CASE ~ok
    BY <1>3, <2>2 DEF PhaseOk, Inert, InHand
  <2> QED BY <2>1, <2>2
<1> QED BY <1>5, <1>6, <1>7, PublishedStep DEF IInv

LEMMA RunClaimKeeps ==
  ASSUME IInv, RunClaim
  PROVE  IInv'
<1>0. /\ worker.pc = "claim" /\ worker \in WorkerRecord /\ state \in JobRecord
      /\ control.spawn # 0 /\ (control.spawn > 1 => Over)
      /\ WorkerFrame /\ UNCHANGED <<control, chat, acked, lost, removed, gone>>
  BY DEF IInv, TypeOK, RunClaim, At, WorkersOk
<1>1. CASE Terminal(state)
  <2>1. worker'.pc = "fail" /\ worker' \in WorkerRecord /\ UnPublished
    BY <1>0, <1>1 DEF RunClaim, MayClaim, Goto, WorkerRecord, WorkerPc
  <2>2. SilentMove
    BY <1>0, <2>1 DEF SilentMove, Inert, IInv, TypeOK
  <2>3. SentOk' /\ PhaseOk'
    BY <1>0, <2>1 DEF IInv, SentOk, PhaseOk, UnPublished, WorkerFrame, Inert, InHand
  <2> QED BY <2>2, <2>3, SilentStep DEF IInv
<1>2. CASE ~Terminal(state)
  <2> DEFINE new == [state EXCEPT !.status = "Running"]
  <2>1. WorkerPublish(new, FirstPhase, "fail")
    BY <1>2 DEF RunClaim, MayClaim
  <2>2. /\ new \in JobRecord /\ new.status = "Running" /\ new.next = state.next
        /\ new.deleted = state.deleted
    BY <1>0 DEF JobRecord
  <2>3. FirstPhase \in {"leave", "batch", "chat"} /\ FirstPhase \in WorkerPc
    BY DEF FirstPhase, WorkerPc
  <2>4. /\ state.deleted <= removed
        /\ op = "ClearHistoryAndLeave" /\ state.next # 0 => "clear" \in acked
        /\ state.next <= LastCursor
    BY <1>0 DEF IInv, RecordsOk, JobOk, Accounted, WorkersOk
  <2>5. ~failed /\ (control.spawn > 1 \/ state.status = "Completed") => FALSE
    BY <1>0, <1>2 DEF Over, Terminal, TerminalStatus
  <2>6. lost => control.spawn # 1
    BY <1>0 DEF IInv, SentOk
  <2>7. /\ FirstPhase = "leave" => MayLeave
        /\ FirstPhase = "batch" => op \in Batched
        /\ FirstPhase = "chat" => op \notin Batched
    BY <1>0, <2>4 DEF FirstPhase, MayLeave, LastCursor, Leaving, Batched, JobRecord
  <2> HIDE DEF new
  <2>8. PublishedAs(new, FirstPhase) => PhaseOk'
    BY <2>2, <2>3, <2>7, PlanKept DEF PublishedAs, PhaseOk, MayLeave, InHand
  <2>9. FirstPhase \notin {"off", "start", "unmap", "flight", "finish", "post"}
    BY <2>3
  <2> QED BY <1>0, <2>1, <2>2, <2>3, <2>4, <2>5, <2>6, <2>8, <2>9, WorkerPublishes
<1> QED BY <1>1, <1>2

LEMMA SeeCancelledKeeps ==
  ASSUME IInv, SeeCancelled
  PROVE  IInv'
<1>0. /\ worker.pc \in StopPoints /\ state \in JobRecord
      /\ WorkerFrame /\ UNCHANGED <<control, chat, acked, lost, removed, gone>>
      /\ WorkerPublish(FinishCancelled(state), "finish", "fail")
  BY DEF IInv, TypeOK, SeeCancelled
<1> DEFINE new == FinishCancelled(state)
<1>1. /\ new \in JobRecord /\ Terminal(new) /\ new.next = state.next
      /\ new.deleted = state.deleted /\ new.status # "Absent"
      /\ new.status = "Completed" => new = state
  BY <1>0, JobFacts DEF FinishCancelled, Terminal, TerminalStatus, JobRecord
<1>2. new.deleted <= removed /\ (op = "ClearHistoryAndLeave" /\ new.next # 0 => "clear" \in acked)
  BY <1>1 DEF IInv, RecordsOk, JobOk
<1> HIDE DEF new
<1>3. PublishedAs(new, "finish") => PhaseOk'
  BY DEF PublishedAs, PhaseOk, Inert, InHand
<1>4. "finish" \in WorkerPc /\ worker.pc \notin {"off", "start", "finish", "unmap"}
  BY <1>0 DEF WorkerPc, StopPoints
<1> QED BY <1>0, <1>1, <1>2, <1>3, <1>4, WorkerPublishes DEF new

LEMMA WaitForRetryKeeps ==
  ASSUME IInv, WaitForRetry
  PROVE  IInv'
<1>0. /\ worker.pc = "settle" /\ worker.result = "rate" /\ state \in JobRecord
      /\ worker \in WorkerRecord /\ worker.pc \notin Inert
      /\ WorkerFrame /\ UNCHANGED <<control, chat, acked, lost, removed, gone>>
  BY DEF IInv, TypeOK, WaitForRetry, At, Inert
<1> DEFINE new == [state EXCEPT !.status = "Queued", !.retry = TRUE]
<1>1. WorkerPublish(new, "wait", "fail")
  BY DEF WaitForRetry
<1>2. /\ new \in JobRecord /\ new.status = "Queued" /\ new.next = state.next
      /\ new.deleted = state.deleted
  BY <1>0 DEF JobRecord
<1>3. new.deleted <= removed /\ (op = "ClearHistoryAndLeave" /\ new.next # 0 => "clear" \in acked)
  BY <1>2 DEF IInv, RecordsOk, JobOk
<1> HIDE DEF new
<1>4. PublishedAs(new, "wait") => PhaseOk'
  BY <1>0, <1>2, PlanKept
     DEF IInv, PublishedAs, PhaseOk, BatchInHand, CallInHand, MayLeave, InHand, WorkerRecord
<1>5. /\ ~lost /\ "wait" \in WorkerPc
      /\ ~failed /\ (control.spawn > 1 \/ state.status = "Completed") => FALSE
  BY <1>0, InPhase DEF WorkerPc, IInv, RecordsOk
<1> QED BY <1>0, <1>1, <1>2, <1>3, <1>4, <1>5, WorkerPublishes

LEMMA ResumeKeeps ==
  ASSUME IInv, Resume
  PROVE  IInv'
<1>0. /\ worker.pc = "resume" /\ state \in JobRecord
      /\ worker \in WorkerRecord /\ worker.pc \notin Inert
      /\ WorkerFrame /\ UNCHANGED <<control, chat, acked, lost, removed, gone>>
  BY DEF IInv, TypeOK, Resume, At, Inert
<1> DEFINE new == [state EXCEPT !.status = "Running", !.retry = FALSE]
<1>1. WorkerPublish(new, PhaseHead, "fail")
  BY DEF Resume
<1>2. /\ new \in JobRecord /\ new.status = "Running" /\ new.next = state.next
      /\ new.deleted = state.deleted
  BY <1>0 DEF JobRecord
<1>3. new.deleted <= removed /\ (op = "ClearHistoryAndLeave" /\ new.next # 0 => "clear" \in acked)
  BY <1>2 DEF IInv, RecordsOk, JobOk
<1>4. PhaseHead \in {"batch", "leave", "chat"} /\ PhaseHead \in WorkerPc
  BY DEF PhaseHead, WorkerPc
<1>5. /\ PhaseHead = "batch" => op \in Batched
      /\ PhaseHead = "leave" => MayLeave
      /\ PhaseHead = "chat" => op \notin Batched
  BY <1>0 DEF IInv, PhaseOk, PhaseHead, InHand, BatchInHand, CallInHand, MayLeave, Batched,
     Leaving, ChatCall, LastCursor
<1> HIDE DEF new
<1>6. PublishedAs(new, PhaseHead) => PhaseOk'
  BY <1>2, <1>4, <1>5, PlanKept DEF PublishedAs, PhaseOk, MayLeave, InHand
<1>7. /\ ~lost
      /\ ~failed /\ (control.spawn > 1 \/ state.status = "Completed") => FALSE
  BY <1>0, InPhase DEF IInv, RecordsOk
<1> QED BY <1>0, <1>1, <1>2, <1>3, <1>4, <1>6, <1>7, WorkerPublishes

(* A publication of a quarantined engine fails.                             *)
LEMMA FailedPublication ==
  ASSUME IInv, failed, NEW new, NEW then, WorkerPublish(new, then, "fail"),
         WorkerFrame, UNCHANGED <<control, chat, acked, lost, removed, gone>>,
         worker.pc \notin Inert
  PROVE  IInv'
<1>1. UNCHANGED <<state, store, failed, saved>> /\ worker' = [NoWorker EXCEPT !.pc = "fail"]
  BY DEF WorkerPublish, Publish
<1>2. worker' \in WorkerRecord /\ worker'.pc = "fail"
  BY <1>1, FreshWorker DEF WorkerPc, Native
<1>3. Quietly
  BY <1>1 DEF Quietly, UnPublished
<1>4. PhaseOk'
  BY <1>2 DEF PhaseOk, Inert, InHand
<1> QED BY <1>2, <1>3, <1>4, PhaseStep DEF Inert

LEMMA ProgressKeeps ==
  ASSUME IInv, Progress
  PROVE  IInv'
<1>0. /\ worker.pc = "settle" /\ worker.native = "delete" /\ worker.result # "rate"
      /\ state \in JobRecord /\ worker \in WorkerRecord /\ worker.pc \notin Inert
      /\ WorkerPublish(Progressed, "post", "fail")
      /\ WorkerFrame /\ UNCHANGED <<control, chat, acked, lost, removed, gone>>
  BY DEF IInv, TypeOK, Progress, At, Inert
<1>1. BatchInHand
  BY <1>0 DEF IInv, PhaseOk, InHand
<1>2. /\ Progressed \in JobRecord /\ Progressed.next = state.next + 1
      /\ Progressed.deleted = state.deleted + IF worker.result = "ok" THEN worker.allowed ELSE 0
      /\ Progressed.status # "Absent"
      /\ Progressed.status = "Completed" => state.status = "Completed"
      /\ Fatal => Terminal(Progressed)
  <2> DEFINE affected == Sizes[state.next + 1] - worker.skipped
             skipped == state.skipped + worker.skipped
             deleted == state.deleted + IF worker.result = "ok" THEN worker.allowed ELSE 0
             refused == state.failed + IF worker.result \in {"soft", "fatal"} THEN affected ELSE 0
             unknown == state.uncertain + IF worker.result = "ambiguous" THEN affected ELSE 0
             counted == [state EXCEPT
               !.next = Cursor, !.skipped = skipped, !.deleted = deleted,
               !.failed = refused, !.uncertain = unknown, !.retry = FALSE]
  <2>1. {Cursor, skipped, deleted, refused, unknown} \subseteq Nat
    <3>1. affected \in Nat /\ worker.allowed \in Nat /\ worker.skipped \in Nat
      BY <1>0, <1>1, SizesAssumption DEF BatchInHand, WorkerRecord, JobRecord
    <3> HIDE DEF affected
    <3> QED BY <1>0, <3>1 DEF JobRecord, Cursor
  <2>2. Progressed = IF Fatal THEN Stopped(counted) ELSE counted
    BY DEF Progressed, Fatal
  <2>d. deleted = state.deleted + IF worker.result = "ok" THEN worker.allowed ELSE 0
    OBVIOUS
  <2> HIDE DEF affected, skipped, deleted, refused, unknown
  <2>3. /\ counted \in JobRecord /\ counted.next = Cursor /\ counted.deleted = deleted
        /\ counted.status = state.status
    BY <1>0, <2>1 DEF JobRecord
  <2> HIDE DEF counted
  <2>4. state.status # "Absent"
    BY <1>0, InPhase
  <2> QED BY <2>d, <2>2, <2>3, <2>4, JobFacts DEF Cursor
<1>3. /\ Progressed.deleted <= removed
      /\ op # "ClearHistoryAndLeave"
  <2>1. /\ state.deleted <= removed
        /\ worker.result = "ok" => state.deleted + worker.allowed <= removed
    BY <1>0 DEF IInv, RecordsOk, JobOk, PhaseOk
  <2>2. state.deleted \in Nat
    BY <1>0 DEF JobRecord
  <2> QED BY <1>1, <1>2, <2>1, <2>2 DEF BatchInHand, Batched
<1>4. PublishedAs(Progressed, "post") => PhaseOk'
  BY <1>0, <1>1, <1>2 DEF PublishedAs, PhaseOk, BatchInHand, InHand, WorkerRecord
<1>5. "post" \in WorkerPc
  BY DEF WorkerPc
<1>6. /\ lost => worker.result = "ambiguous"
      /\ ~failed => store = state
      /\ control.spawn = 1 /\ store.status # "Completed"
  BY <1>0, InPhase DEF IInv, RecordsOk
<1>7. Progressed.status = "Completed" => Progressed = state \/ failed
  BY <1>2, <1>6
<1>8. CASE failed
  BY <1>0, <1>8, FailedPublication
<1>9. CASE ~failed
  BY <1>0, <1>2, <1>3, <1>4, <1>5, <1>6, <1>7, <1>9, WorkerPublishes
<1> QED BY <1>8, <1>9

LEMMA FinalizeKeeps ==
  ASSUME IInv, Finalize
  PROVE  IInv'
<1>0. /\ worker.pc = "final" /\ state \in JobRecord /\ worker.pc \notin Inert
      /\ WorkerFrame /\ UNCHANGED <<control, chat, acked, lost, removed, gone>>
  BY DEF IInv, TypeOK, Finalize, At, Inert
<1> DEFINE new == IF state.status = "Cancelled" THEN [state EXCEPT !.retry = FALSE]
                  ELSE [state EXCEPT !.status = Outcome, !.retry = FALSE]
<1>1. WorkerPublish(new, "finish", "fail")
  BY DEF Finalize
<1>2. /\ new \in JobRecord /\ Terminal(new) /\ new.status # "Absent"
      /\ new.next = state.next /\ new.deleted = state.deleted
  BY <1>0 DEF JobRecord, Outcome, Terminal, TerminalStatus
<1>3. new.deleted <= removed /\ (op = "ClearHistoryAndLeave" /\ new.next # 0 => "clear" \in acked)
  BY <1>2 DEF IInv, RecordsOk, JobOk
<1> HIDE DEF new
<1>4. ~lost /\ DoneBy(new)
  BY <1>0, <1>2, <1>3, InPhase DEF DoneBy, IInv, PhaseOk
<1>5. PublishedAs(new, "finish") => PhaseOk'
  BY DEF PublishedAs, PhaseOk, Inert, InHand
<1>6. "finish" \in WorkerPc
  BY DEF WorkerPc
<1> QED BY <1>0, <1>1, <1>2, <1>3, <1>4, <1>5, <1>6, WorkerPublishes

LEMMA RunFailedKeeps ==
  ASSUME IInv, RunFailed
  PROVE  IInv'
<1>0. /\ worker.pc = "fail" /\ state \in JobRecord /\ control.spawn # 0
      /\ state.status # "Absent"
      /\ WorkerPublish(Closed(state), "finish", "finish")
      /\ WorkerFrame /\ UNCHANGED <<control, chat, acked, lost, removed, gone>>
  BY DEF IInv, TypeOK, RunFailed, At, WorkersOk
<1> DEFINE new == Closed(state)
<1>1. /\ new \in JobRecord /\ Terminal(new) /\ new.status # "Absent"
      /\ new.next = state.next /\ new.deleted = state.deleted
      /\ new.status = "Completed" => new = state
  BY <1>0, JobFacts DEF Closed, Terminal, TerminalStatus, Unfinished, JobRecord
<1>2. new.deleted <= removed /\ (op = "ClearHistoryAndLeave" /\ new.next # 0 => "clear" \in acked)
  BY <1>1 DEF IInv, RecordsOk, JobOk
<1> HIDE DEF new
<1>3. PublishedAs(new, "finish") => PhaseOk'
  BY DEF PublishedAs, PhaseOk, Inert, InHand
<1>4. "finish" \in WorkerPc
  BY DEF WorkerPc
<1> QED BY <1>0, <1>1, <1>2, <1>3, <1>4, WorkerPublishes DEF new

LEMMA EnterGateKeeps ==
  ASSUME IInv, EnterGate
  PROVE  IInv'
<1>0. /\ worker.pc = "gate" /\ state \in JobRecord /\ worker \in WorkerRecord
      /\ worker.pc \notin Inert
      /\ WorkerFrame /\ UNCHANGED <<control, chat, acked, lost, removed, gone>>
      /\ IF worker.native = "delete" THEN BatchInHand ELSE CallInHand
      /\ store.next = state.next
  BY DEF IInv, TypeOK, EnterGate, At, Inert, PhaseOk, InHand
<1>1. CASE ~GateOpen
  <2> DEFINE new == FinishCancelled(state)
             then == IF worker.native = "delete" THEN "post" ELSE "finish"
  <2>1. WorkerPublish(new, then, "fail")
    BY <1>1 DEF EnterGate
  <2>2. /\ new \in JobRecord /\ Terminal(new) /\ new.next = state.next
        /\ new.deleted = state.deleted /\ new.status # "Absent"
        /\ new.status = "Completed" => new = state
    BY <1>0, JobFacts DEF FinishCancelled, Terminal, TerminalStatus, JobRecord
  <2>3. new.deleted <= removed /\ (op = "ClearHistoryAndLeave" /\ new.next # 0 => "clear" \in acked)
    BY <2>2 DEF IInv, RecordsOk, JobOk
  <2> HIDE DEF new
  <2>4. PublishedAs(new, then) => PhaseOk'
    BY <1>0, <2>2 DEF PublishedAs, PhaseOk, Inert, InHand, BatchInHand, WorkerRecord
  <2>5. then \in {"post", "finish"} /\ then \in WorkerPc
    BY DEF WorkerPc
  <2>6. /\ ~lost
        /\ ~failed /\ (control.spawn > 1 \/ state.status = "Completed") => FALSE
    BY <1>0, InPhase DEF IInv, RecordsOk
  <2> QED BY <1>0, <2>1, <2>2, <2>3, <2>4, <2>5, <2>6, WorkerPublishes
<1>2. CASE GateOpen /\ Check
  <2>1. /\ worker' = [worker EXCEPT !.pc = "flight"] /\ Quietly
    BY <1>0, <1>2 DEF EnterGate, Goto, Quietly
  <2>2. worker' \in WorkerRecord
    BY <1>0, <2>1 DEF WorkerRecord, WorkerPc
  <2>3. PhaseOk'
    BY <1>0, <2>1, PlanKept
       DEF PhaseOk, Inert, InHand, BatchInHand, CallInHand, MayLeave, Quietly, UnPublished,
           WorkerFrame, WorkerRecord
  <2> QED BY <1>0, <1>2, <2>1, <2>2, <2>3, PhaseStep DEF WorkerRecord, GateOpen
<1>3. CASE GateOpen /\ ~Check
  <2>1. /\ worker' = [worker EXCEPT !.pc = "settle",
                                    !.result = IF failed THEN "soft" ELSE "fatal"]
        /\ Quietly
    BY <1>0, <1>3 DEF EnterGate, Quietly
  <2>2. /\ worker' \in WorkerRecord /\ worker'.pc = "settle" /\ worker'.result # "ok"
        /\ worker'.native = worker.native /\ worker'.allowed = worker.allowed
        /\ worker'.skipped = worker.skipped
    BY <1>0, <2>1 DEF WorkerRecord, WorkerPc, Result
  <2>3. PhaseOk'
    BY <1>0, <2>1, <2>2, PlanKept
       DEF PhaseOk, Inert, InHand, BatchInHand, CallInHand, MayLeave, Quietly, UnPublished,
           WorkerFrame
  <2> QED BY <1>0, <2>1, <2>2, <2>3, PhaseStep
<1> QED BY <1>1, <1>2, <1>3

(* What Telegram answers is known, or the worker knows that it is not.      *)
LEMMA AnsweredKeeps ==
  ASSUME IInv, Answered
  PROVE  IInv'
<1>0. /\ worker.pc = "flight" /\ worker \in WorkerRecord /\ worker.pc \notin Inert
      /\ state \in JobRecord /\ removed \in Nat /\ acked \subseteq Native
      /\ chat \subseteq Capability /\ lost \in BOOLEAN /\ gone \in BOOLEAN
      /\ UnPublished /\ WorkerFrame /\ UNCHANGED <<control, gone>>
  BY DEF IInv, TypeOK, Answered, At, Inert
<1>1. PICK answer \in {"ok", "soft", "rate", "lost"}, performed \in BOOLEAN :
        /\ answer = "ok" => performed
        /\ IF performed THEN chat' \in Performed(worker.native) ELSE UNCHANGED chat
        /\ worker' = [worker EXCEPT !.pc = "settle", !.result = Classified(answer)]
        /\ acked' = IF answer = "ok" /\ Check THEN acked \cup {worker.native} ELSE acked
        /\ lost' = (lost \/ answer = "lost" \/ (performed /\ ~Check))
        /\ removed' = IF performed /\ worker.native = "delete"
                      THEN removed + worker.allowed ELSE removed
  BY DEF Answered
<1>2. /\ worker.native \in Native /\ worker.allowed \in Nat
      /\ Classified(answer) \in Result
      /\ Classified(answer) = "ok" => answer = "ok" /\ Check
      /\ answer = "lost" \/ ~Check => Classified(answer) = "ambiguous"
  BY <1>0, <1>1 DEF Classified, Result, WorkerRecord
<1>3. /\ worker' \in WorkerRecord /\ worker'.pc = "settle"
      /\ worker'.result = Classified(answer) /\ worker'.native = worker.native
      /\ worker'.allowed = worker.allowed /\ worker'.skipped = worker.skipped
  BY <1>0, <1>1, <1>2 DEF WorkerRecord, WorkerPc
<1>4. chat' \subseteq Capability
  BY <1>0, <1>1 DEF Performed, Capability
<1>5. /\ acked' \subseteq Native /\ acked \subseteq acked'
      /\ removed' \in Nat /\ removed <= removed' /\ lost' \in BOOLEAN
  BY <1>0, <1>1, <1>2
<1>6. SilentMove
  BY <1>0, <1>3, <1>4, <1>5 DEF SilentMove
<1>7. /\ lost' => worker'.result = "ambiguous"
      /\ "leave" \in acked' => saved \/ (worker'.native = "leave" /\ worker'.result = "ok")
  <2>1. ~lost /\ ("leave" \in acked => saved)
    BY <1>0, InPhase
  <2>2. "leave" \in acked' =>
          "leave" \in acked \/ (worker.native = "leave" /\ answer = "ok" /\ Check)
    BY <1>1
  <2>3. answer = "ok" /\ Check => Classified(answer) = "ok"
    BY DEF Classified
  <2> QED BY <1>1, <1>2, <1>3, <2>1, <2>2, <2>3
<1>8. SentOk'
  BY <1>0, <1>3, <1>7, InPhase DEF SentOk, UnPublished, WorkerFrame
<1>9. PhaseOk'
  <2>1. IF worker.native = "delete" THEN BatchInHand ELSE CallInHand
    BY <1>0 DEF IInv, PhaseOk, InHand
  <2>2. worker'.result = "ok" =>
          IF worker.native = "delete" THEN state.deleted + worker.allowed <= removed'
          ELSE worker.native \in acked'
    <3>1. state.deleted <= removed /\ state.deleted \in Nat
      BY <1>0 DEF IInv, RecordsOk, JobOk, JobRecord
    <3> QED BY <1>0, <1>1, <1>2, <1>3, <3>1
  <2>3. store.next = state.next
    BY <1>0 DEF IInv, PhaseOk
  <2> QED BY <1>0, <1>3, <2>1, <2>2, <2>3, PlanKept
          DEF PhaseOk, BatchInHand, CallInHand, MayLeave, InHand, UnPublished, WorkerFrame
<1> QED BY <1>6, <1>8, <1>9, SilentStep DEF IInv

(* A phase is recorded before the next one begins.                          *)
LEMMA AcknowledgedKeeps ==
  ASSUME IInv, Acknowledged
  PROVE  IInv'
<1>0. /\ worker.pc = "settle" /\ worker.native # "delete" /\ worker.result # "rate"
      /\ worker \in WorkerRecord /\ worker.pc \notin Inert /\ state \in JobRecord
      /\ WorkerFrame /\ UNCHANGED <<control, chat, acked, lost, removed, gone>>
      /\ CallInHand /\ (worker.result = "ok" => worker.native \in acked)
      /\ store.next = state.next
  BY DEF IInv, TypeOK, Acknowledged, At, Inert, PhaseOk, InHand
<1>f. /\ state.deleted <= removed
      /\ op = "ClearHistoryAndLeave" /\ state.next # 0 => "clear" \in acked
      /\ state.next <= LastCursor
  BY <1>0, InPhase DEF IInv, RecordsOk, JobOk, Accounted
<1>p. /\ control.spawn = 1 /\ ~(~failed /\ state.status = "Completed")
      /\ lost => worker.result = "ambiguous"
      /\ state.status # "Absent" /\ store.status # "Completed"
  BY <1>0, InPhase DEF IInv, RecordsOk
<1>1. CASE worker.result # "ok"
  <2>1. worker' = [worker EXCEPT !.pc = "fail"] /\ Quietly
    BY <1>0, <1>1 DEF Acknowledged, Goto, Quietly
  <2>2. worker' \in WorkerRecord /\ worker'.pc = "fail"
    BY <1>0, <2>1 DEF WorkerRecord, WorkerPc
  <2>3. PhaseOk'
    BY <2>2 DEF PhaseOk, Inert, InHand
  <2> QED BY <1>0, <1>1, <2>1, <2>2, <2>3, PhaseStep DEF Inert
<1>2. CASE worker.result = "ok" /\ PhaseRecorded(worker.native)
  <2> DEFINE new == [state EXCEPT !.next = 1]
  <2>1. WorkerPublish(new, "leave", "fail")
    BY <1>2 DEF Acknowledged, Recorded, PhaseRecorded
  <2>2. /\ new \in JobRecord /\ new.next = 1 /\ new.deleted = state.deleted
        /\ new.status = state.status
    BY <1>0 DEF JobRecord
  <2>3. op = "ClearHistoryAndLeave" /\ "clear" \in acked
    BY <1>0, <1>2 DEF PhaseRecorded
  <2> HIDE DEF new
  <2>4. PublishedAs(new, "leave") => PhaseOk'
    BY <2>2, <2>3, PlanKept
       DEF PublishedAs, PhaseOk, MayLeave, InHand, Leaving, LastCursor, Batched
  <2>5. "leave" \in WorkerPc
    BY DEF WorkerPc
  <2>6. CASE ~failed
    BY <1>0, <1>2, <1>f, <1>p, <2>1, <2>2, <2>3, <2>4, <2>5, <2>6, WorkerPublishes
  <2>7. CASE failed
    BY <1>0, <2>1, <2>7, FailedPublication
  <2> QED BY <2>6, <2>7
<1>3. CASE worker.result = "ok" /\ ~PhaseRecorded(worker.native) /\ Recorded(worker.native)
  <2>1. WorkerPublish(state, "left", "fail")
    BY <1>3 DEF Acknowledged
  <2>2. MayLeave
    BY <1>0, <1>3 DEF CallInHand, Recorded, ChatCall
  <2>3. PublishedAs(state, "left") => PhaseOk'
    BY <2>2, PlanKept DEF PublishedAs, PhaseOk, MayLeave, InHand
  <2>4. "left" \in WorkerPc
    BY DEF WorkerPc
  <2> QED BY <1>0, <1>3, <1>f, <1>p, <2>1, <2>3, <2>4, WorkerPublishes
<1>4. CASE worker.result = "ok" /\ ~PhaseRecorded(worker.native) /\ ~Recorded(worker.native)
  <2>1. /\ Quietly
        /\ worker' = [worker EXCEPT !.pc = IF worker.native = "clear" /\ op \in Leaving
                                           THEN "leave" ELSE "final"]
    BY <1>0, <1>4 DEF Acknowledged, Goto, Quietly, Recorded
  <2>2. ~(worker.native = "clear" /\ op \in Leaving)
    BY <1>0, <1>4 DEF PhaseRecorded, Recorded, CallInHand, Leaving, Batched
  <2>3. worker' \in WorkerRecord /\ worker'.pc = "final"
    BY <1>0, <2>1, <2>2 DEF WorkerRecord, WorkerPc
  <2>4. CASE worker.native = ChatCall /\ op \notin Batched
    <3>1. op \notin Leaving
      BY <1>4, <2>4 DEF PhaseRecorded, Leaving, Batched, ChatCall
    <3>2. state.next = LastCursor
      BY <1>0, <1>f, <2>4, <3>1 DEF LastCursor, Leaving, JobRecord
    <3>3. PhaseOk'
      BY <1>0, <1>4, <2>1, <2>3, <2>4, <3>1, <3>2, PlanKept
         DEF PhaseOk, Inert, InHand, Quietly, UnPublished, WorkerFrame
    <3> QED BY <1>0, <1>4, <2>1, <2>3, <3>3, PhaseStep DEF Recorded
  <2>5. CASE worker.native = "self" /\ MayLeave
    <3>1. op \notin Batched => ChatCall \in acked
      BY <1>f, <2>5 DEF MayLeave, Leaving, Batched, LastCursor, ChatCall
    <3>2. PhaseOk'
      BY <1>0, <1>4, <2>1, <2>3, <2>5, <3>1, PlanKept
         DEF PhaseOk, MayLeave, Inert, InHand, Quietly, UnPublished, WorkerFrame
    <3> QED BY <1>0, <1>4, <2>1, <2>3, <3>2, PhaseStep DEF Recorded
  <2> QED BY <1>0, <1>4, <2>4, <2>5 DEF CallInHand, Recorded
<1> QED BY <1>1, <1>2, <1>3, <1>4

LEMMA FinishKeeps ==
  ASSUME IInv, Finish \/ Unmap
  PROVE  IInv'
<1>0. /\ worker.pc \in {"finish", "unmap"} /\ worker \in WorkerRecord
      /\ control \in ControlRecord
      /\ UnPublished /\ WorkerFrame /\ UNCHANGED <<chat, acked, lost, removed, gone>>
  BY DEF IInv, TypeOK, Finish, Unmap, At
<1>1. /\ worker' \in WorkerRecord /\ control' \in ControlRecord
      /\ control'.spawn = control.spawn /\ control'.cancelled = control.cancelled
      /\ \/ worker.pc = "finish" /\ worker'.pc = "unmap" /\ control'.mapped /\ control'.finished
         \/ worker.pc = "unmap" /\ worker'.pc = "off" /\ ~control'.mapped /\ control'.finished
  <2>1. CASE Finish
    BY <1>0, <2>1
       DEF Finish, At, Goto, WorkerRecord, WorkerPc, ControlRecord, IInv, WorkersOk
  <2>2. CASE Unmap
    BY <1>0, <2>2
       DEF Unmap, At, NoWorker, WorkerRecord, WorkerPc, Native, Result, ControlRecord, IInv,
           WorkersOk
  <2> QED BY <2>1, <2>2
<1>2. TypeOK'
  BY <1>0, <1>1 DEF IInv, TypeOK, UnPublished, WorkerFrame
<1>3. RecordsOk'
  BY <1>0, RecordsPublished DEF IInv, TypeOK, RecordsOk, JobOk, UnPublished, WorkerFrame
<1>4. CompletedOk'
  BY <1>0, <1>1, CompletedKept DEF IInv, CompletedOk, TypeOK, UnPublished, WorkerFrame, Inert
<1>5. WorkersOk'
  BY <1>0, <1>1 DEF IInv, WorkersOk, UnPublished, WorkerFrame, Inert, Over, Terminal, Unfinished
<1>6. CommandsOk'
  BY <1>0, <1>1 DEF IInv, CommandsOk, CommandOk, Holds, WorkerFrame, PastGate
<1>7. SentOk' /\ PhaseOk'
  BY <1>0, <1>1 DEF IInv, SentOk, PhaseOk, UnPublished, WorkerFrame, Inert, InHand
<1> QED BY <1>2, <1>3, <1>4, <1>5, <1>6, <1>7 DEF IInv

LEMMA WorkKeeps ==
  ASSUME IInv, Work
  PROVE  IInv'
BY RunStartKeeps, RunClaimKeeps, SeeCancelledKeeps, PreflightKeeps, ReachedKeeps, ResolveKeeps,
   LookupKeeps, LeaveOrRemoveKeeps, EnterGateKeeps, AnsweredKeeps, WaitForRetryKeeps,
   WaitOverKeeps, ResumeKeeps, ProgressKeeps, AfterBatchKeeps, AcknowledgedKeeps, FinalizeKeeps,
   RunFailedKeeps, FinishKeeps
   DEF Work

-----------------------------------------------------------------------------
(* Each step of a command preserves the invariant.                          *)

(* A step of command c leaves every other command as it was.                *)
CallStep(c) ==
  /\ call' \in [Client -> CallRecord]
  /\ \A d \in Client \ {c} : call'[d] = call[d]

LEMMA CallForms ==
  ASSUME TypeOK, NEW c \in Client
  PROVE  /\ Return(c) => CallStep(c) /\ call'[c] = Idle
         /\ \A at \in CallPc : Now(c, at) =>
              CallStep(c) /\ call'[c].at = at /\ call'[c].spawn = call[c].spawn
         /\ \A at \in CallPc, n \in Nat :
              call' = [call EXCEPT ![c] = [at |-> at, spawn |-> n]] =>
                CallStep(c) /\ call'[c].at = at /\ call'[c].spawn = n
BY DEF TypeOK, CallStep, CallRecord, Return, Now, Idle, CallPc

(* Nothing changes but commands and what the invariant does not speak of.   *)
Aside ==
  /\ UnPublished /\ UNCHANGED <<op, worker, acked, lost, removed, gone, cancelled>>
  /\ chat' \subseteq Capability

LEMMA AsideStep ==
  ASSUME IInv, Aside, UNCHANGED control, call' \in [Client -> CallRecord], CommandsOk'
  PROVE  IInv'
<1>1. TypeOK'
  BY DEF IInv, TypeOK, Aside, UnPublished
<1>2. RecordsOk'
  BY RecordsPublished DEF IInv, TypeOK, RecordsOk, JobOk, Aside, UnPublished
<1>3. CompletedOk'
  BY CompletedKept DEF IInv, CompletedOk, TypeOK, Aside, UnPublished
<1>4. WorkersOk'
  BY DEF IInv, WorkersOk, Aside, UnPublished, Over, Fatal, Terminal, Unfinished
<1>5. SentOk'
  BY DEF IInv, SentOk, Aside, UnPublished
<1>6. PhaseOk'
  BY PlanKept DEF IInv, PhaseOk, BatchInHand, CallInHand, MayLeave, Aside, UnPublished
<1> QED BY <1>1, <1>2, <1>3, <1>4, <1>5, <1>6 DEF IInv

(* So it is enough to look at the command that moved.                       *)
LEMMA CommandStep ==
  ASSUME IInv, Aside, UNCHANGED control, NEW c \in Client, CallStep(c), CommandOk(c)'
  PROVE  IInv'
<1>1. ASSUME NEW d \in Client PROVE CommandOk(d)'
  <2>1. CASE d = c
    BY <2>1
  <2>2. CASE d # c
    BY <2>2 DEF IInv, CommandsOk, CommandOk, CallStep, Aside, Holds
  <2> QED BY <2>1, <2>2
<1> QED BY <1>1, AsideStep DEF CommandsOk, CallStep

LEMMA InvokeKeeps ==
  ASSUME IInv, NEW c \in Client, Invoke(c)
  PROVE  IInv'
<1>0. /\ Aside /\ UNCHANGED control
      /\ control.spawn \in Nat /\ (control.mapped => control.spawn # 0)
      /\ \/ Now(c, "prompt") /\ call[c].at = "idle"
         \/ Return(c)
         \/ Now(c, "startCommit") \/ Now(c, "recoverPersist")
         \/ /\ call' = [call EXCEPT ![c] = [at |-> "cancelCommit", spawn |-> control.spawn]]
            /\ control.mapped
         \/ /\ call' = [call EXCEPT ![c] = [at |-> "stopFlag", spawn |-> control.spawn]]
            /\ control.mapped
         \/ call' = [call EXCEPT ![c] = [at |-> "stopClear", spawn |-> control.spawn]]
  BY DEF Invoke, AuthorizeCall, PromptApproved, StartConsume, RecoverCall, CancelCall, StopCall,
         Quiet, Aside, In, IInv, TypeOK, ControlRecord, WorkersOk
<1>1. /\ CallStep(c)
      /\ call'[c].at \notin {"recoverSpawn"} \cup Signalled
      /\ call'[c].spawn \in {0, call[c].spawn, control.spawn}
      /\ call'[c].at \in AtControl => call'[c].spawn = control.spawn /\ control.mapped
  <2>1. TypeOK
    BY DEF IInv
  <2> QED BY <1>0, <2>1, CallForms DEF Idle, CallPc, Signalled, AtControl
<1>2. CommandOk(c)'
  BY <1>0, <1>1 DEF IInv, CommandsOk, CommandOk, PastGate, Signalled, TypeOK, CallRecord
<1> QED BY <1>0, <1>1, <1>2, CommandStep

(* A control, once marked, stays marked; a command that has passed the gate *)
(* found no call in flight.                                                 *)
LEMMA GateKeeps ==
  ASSUME IInv, NEW c \in Client, CancelGate(c) \/ StopGate(c) \/ StopWait(c) \/ StopClear(c)
  PROVE  IInv'
<1>0. /\ Aside /\ UNCHANGED control
      /\ \/ call[c].at = "cancelGate" /\ GateFree(c) /\ Now(c, "cancelWait")
         \/ call[c].at = "stopGate" /\ GateFree(c) /\ Now(c, "stopWait")
         \/ call[c].at = "stopWait" /\ Now(c, "stopClear")
         \/ Return(c)
  BY DEF CancelGate, StopGate, StopWait, StopClear, PassGate, Quiet, Aside, In, IInv, TypeOK
<1>1. TypeOK
  BY DEF IInv
<1>2. CommandOk(c) /\ call[c].spawn \in Nat /\ control.spawn \in Nat
  BY <1>1 DEF IInv, CommandsOk, TypeOK, CallRecord, ControlRecord
<1>3. CallStep(c) /\ CommandOk(c)'
  BY <1>0, <1>1, <1>2, CallForms
     DEF CommandOk, Holds, GateFree, Idle, CallPc, Signalled, PastGate, AtControl, Aside
<1> QED BY <1>0, <1>3, CommandStep

LEMMA SignalKeeps ==
  ASSUME IInv, NEW c \in Client, CancelSignal(c) \/ StopFlag(c)
  PROVE  IInv'
<1>0. /\ UnPublished /\ UNCHANGED <<op, worker, acked, lost, removed, gone, cancelled, chat>>
      /\ control' = [control EXCEPT !.cancelled = @ \/ Holds(c)]
      /\ \/ call[c].at = "cancelSignal" /\ Now(c, "cancelGate")
         \/ call[c].at = "stopFlag" /\ Now(c, "stopGate")
  BY DEF CancelSignal, StopFlag, Signal, Quiet, In
<1>1. control' \in ControlRecord /\ control \in ControlRecord
      /\ control'.spawn = control.spawn /\ control'.mapped = control.mapped
      /\ control'.finished = control.finished
      /\ control'.cancelled = (control.cancelled \/ Holds(c))
  BY <1>0 DEF IInv, TypeOK, ControlRecord
<1>2. TypeOK
  BY DEF IInv
<1>3. /\ CallStep(c) /\ call'[c].spawn = call[c].spawn
      /\ call'[c].at \in {"cancelGate", "stopGate"} /\ call[c].at \in AtControl
  BY <1>0, <1>2, CallForms DEF CallPc, AtControl
<1>4. TypeOK'
  BY <1>0, <1>1, <1>2, <1>3 DEF TypeOK, UnPublished, CallStep
<1>5. RecordsOk'
  BY <1>0, RecordsPublished DEF IInv, TypeOK, RecordsOk, JobOk, UnPublished
<1>6. CompletedOk'
  BY <1>0, CompletedKept DEF IInv, CompletedOk, TypeOK, UnPublished
<1>7. WorkersOk'
  BY <1>0, <1>1 DEF IInv, WorkersOk, UnPublished, Over, Fatal, Terminal, Unfinished
<1>8. SentOk'
  BY <1>0, <1>1 DEF IInv, SentOk, UnPublished
<1>9. PhaseOk'
  BY <1>0, PlanKept DEF IInv, PhaseOk, BatchInHand, CallInHand, MayLeave, UnPublished
<1>10. ASSUME NEW d \in Client PROVE CommandOk(d)'
  <2>1. CASE d = c
    BY <1>1, <1>3, <2>1
       DEF IInv, CommandsOk, CommandOk, Holds, Signalled, PastGate, AtControl
  <2>2. CASE d # c
    BY <1>0, <1>1, <1>3, <2>2 DEF IInv, CommandsOk, CommandOk, Holds, CallStep
  <2> QED BY <2>1, <2>2
<1> QED BY <1>4, <1>5, <1>6, <1>7, <1>8, <1>9, <1>10 DEF IInv, CommandsOk

(* A command publishes what leaves the phase of the worker as it is.        *)
LEMMA CommandPublishes ==
  ASSUME IInv, NEW new \in JobRecord, NEW ok \in BOOLEAN, Publish(new, ok),
         UNCHANGED <<op, worker, control, chat, acked, lost, removed, gone, cancelled>>,
         new.next = state.next, new.deleted = state.deleted,
         new = state \/ new.status = "Cancelled",
         new.retry => state.retry,
         call' \in [Client -> CallRecord], CommandsOk'
  PROVE  IInv'
<1>0. /\ state' \in {state, new} /\ store' \in {store, new}
      /\ state' # state \/ store' # store =>
           /\ ~failed /\ store = state /\ Publishable(new)
      /\ failed' = ~ok
      /\ ok => ~failed /\ state' = new /\ store' = new
      /\ saved => saved'
      /\ saved' \in BOOLEAN /\ state \in JobRecord /\ store \in JobRecord
  <2>1. TypeOK
    BY DEF IInv
  <2> QED BY <2>1, PublishForm DEF TypeOK
<1>1. TypeOK'
  BY <1>0 DEF IInv, TypeOK
<1>2. RecordsOk'
  <2>1. /\ new.deleted <= removed
        /\ op = "ClearHistoryAndLeave" /\ new.next # 0 => "clear" \in acked
    BY DEF IInv, RecordsOk, JobOk
  <2>2. ~failed' => store' = state'
    BY <1>0
  <2> QED BY <1>0, <2>1, <2>2, RecordsPublished DEF IInv, TypeOK
<1>3. CompletedOk'
  <2>1. store'.status = "Completed" => store' = store
    BY <1>0
  <2> QED BY <2>1, CompletedKept DEF IInv, CompletedOk, TypeOK
<1>4. WorkersOk'
  <2>1. /\ Terminal(state) => Terminal(state')
        /\ Unfinished(state') => Unfinished(state)
        /\ state.status # "Absent" => state'.status # "Absent"
        /\ store.status # "Absent" => store'.status # "Absent"
        /\ state'.retry => state.retry
        /\ failed => failed'
    BY <1>0 DEF Terminal, TerminalStatus, Unfinished, Publishable
  <2> QED BY <1>1, <2>1 DEF IInv, WorkersOk, Over, Fatal, TypeOK, JobRecord, Terminal, Unfinished
<1>5. SentOk'
  BY <1>0 DEF IInv, SentOk
<1>6. PhaseOk'
  <2>1. state'.next = state.next /\ state'.deleted = state.deleted
    BY <1>0
  <2>2. store.next = state.next => store'.next = state'.next
    BY <1>0
  <2> QED BY <2>1, <2>2, PlanKept DEF IInv, PhaseOk, BatchInHand, CallInHand, MayLeave
<1> QED BY <1>1, <1>2, <1>3, <1>4, <1>5, <1>6 DEF IInv

LEMMA CancelCommitKeeps ==
  ASSUME IInv, NEW c \in Client, CancelCommit(c)
  PROVE  IInv'
<1>0. /\ call[c].at = "cancelCommit" /\ TypeOK
      /\ UNCHANGED <<op, worker, control, chat, acked, lost, removed, gone, cancelled>>
  BY DEF CancelCommit, Quiet, In, IInv
<1>1. Return(c) \/ Now(c, "cancelSignal")
  BY DEF CancelCommit
<1>2. CallStep(c) /\ (call'[c] = Idle \/ (call'[c].at = "cancelSignal"
                                          /\ call'[c].spawn = call[c].spawn))
  BY <1>0, <1>1, CallForms DEF CallPc
<1>3. ASSUME NEW d \in Client PROVE CommandOk(d)'
  <2>1. CASE d = c
    BY <1>0, <1>2, <2>1
       DEF IInv, CommandsOk, CommandOk, Holds, Signalled, PastGate, AtControl, Idle, TypeOK,
           ControlRecord, CallRecord
  <2>2. CASE d # c
    BY <1>0, <1>2, <2>2 DEF IInv, CommandsOk, CommandOk, Holds, CallStep
  <2> QED BY <2>1, <2>2
<1>4. CASE Terminal(state)
  <2>1. Aside /\ UNCHANGED control
    BY <1>0, <1>4 DEF CancelCommit, Aside, TypeOK
  <2> QED BY <1>2, <1>3, <2>1, AsideStep DEF CommandsOk, CallStep
<1>5. CASE ~Terminal(state)
  <2>1. PICK ok \in BOOLEAN : Publish(FinishCancelled(state), ok)
    BY <1>5 DEF CancelCommit
  <2>2. /\ FinishCancelled(state) \in JobRecord
        /\ FinishCancelled(state).status = "Cancelled"
        /\ FinishCancelled(state).next = state.next
        /\ FinishCancelled(state).deleted = state.deleted
        /\ ~FinishCancelled(state).retry
    BY <1>0, <1>5 DEF FinishCancelled, TypeOK, JobRecord, TerminalStatus
  <2> QED BY <1>0, <1>2, <1>3, <2>1, <2>2, CommandPublishes DEF CommandsOk, CallStep
<1> QED BY <1>4, <1>5

LEMMA RecoverPersistKeeps ==
  ASSUME IInv, NEW c \in Client, RecoverPersist(c)
  PROVE  IInv'
<1>0. /\ TypeOK
      /\ UNCHANGED <<op, worker, control, chat, acked, lost, removed, gone, cancelled>>
  BY DEF RecoverPersist, Quiet, IInv
<1>1. PICK ok \in BOOLEAN :
        /\ Publish(state, ok)
        /\ Return(c) \/ (Now(c, "recoverSpawn") /\ Unfinished(state))
  BY DEF RecoverPersist
<1>2. CallStep(c) /\ (call'[c] = Idle \/ (/\ call'[c].at = "recoverSpawn"
                                          /\ call'[c].spawn = call[c].spawn
                                          /\ control.spawn # 0))
  BY <1>0, <1>1, CallForms DEF CallPc, IInv, WorkersOk
<1>3. ASSUME NEW d \in Client PROVE CommandOk(d)'
  <2>1. CASE d = c
    BY <1>0, <1>2, <2>1
       DEF IInv, CommandsOk, CommandOk, Holds, Signalled, PastGate, AtControl, Idle, TypeOK,
           ControlRecord, CallRecord
  <2>2. CASE d # c
    BY <1>0, <1>2, <2>2 DEF IInv, CommandsOk, CommandOk, Holds, CallStep
  <2> QED BY <2>1, <2>2
<1> QED BY <1>0, <1>1, <1>2, <1>3, CommandPublishes DEF CommandsOk, CallStep, TypeOK

(* A cancel returns when its worker has ended, or another one has started:  *)
(* no worker it knew of sends again.                                        *)
LEMMA CancelWaitKeeps ==
  ASSUME IInv, NEW c \in Client, CancelWait(c)
  PROVE  IInv'
<1>0. /\ call[c].at = "cancelWait" /\ Ended(c) /\ Return(c) /\ cancelled' = TRUE /\ TypeOK
      /\ UnPublished /\ UNCHANGED <<op, worker, control, chat, acked, lost, removed, gone>>
  BY DEF CancelWait, Quiet, In, IInv
<1>1. CallStep(c) /\ call'[c] = Idle
  BY <1>0, CallForms
<1>2. TypeOK'
  BY <1>0, <1>1 DEF TypeOK, UnPublished, CallStep
<1>3. RecordsOk'
  BY <1>0, RecordsPublished DEF IInv, TypeOK, RecordsOk, JobOk, UnPublished
<1>4. CompletedOk'
  BY <1>0, CompletedKept DEF IInv, CompletedOk, TypeOK, UnPublished
<1>5. WorkersOk'
  BY <1>0 DEF IInv, WorkersOk, UnPublished, Over, Fatal, Terminal, Unfinished
<1>6. SentOk'
  <2>1. call[c].spawn # 0 /\ call[c].spawn <= control.spawn
    BY <1>0 DEF IInv, CommandsOk, CommandOk, AtControl
  <2>2. control.spawn # 0 /\ (control.spawn = 1 => worker.pc \in {"unmap", "off"})
    BY <1>0, <2>1 DEF Ended, Holds, IInv, WorkersOk, TypeOK, CallRecord, ControlRecord
  <2> QED BY <1>0, <2>2 DEF IInv, SentOk, UnPublished
<1>7. PhaseOk'
  BY <1>0, PlanKept DEF IInv, PhaseOk, BatchInHand, CallInHand, MayLeave, UnPublished
<1>8. ASSUME NEW d \in Client PROVE CommandOk(d)'
  <2>1. CASE d = c
    BY <1>0, <1>1, <2>1
       DEF CommandOk, Holds, Signalled, PastGate, AtControl, Idle, TypeOK, ControlRecord
  <2>2. CASE d # c
    BY <1>0, <1>1, <2>2 DEF IInv, CommandsOk, CommandOk, Holds, CallStep
  <2> QED BY <2>1, <2>2
<1> QED BY <1>2, <1>3, <1>4, <1>5, <1>6, <1>7, <1>8 DEF IInv, CommandsOk

(* A new worker has a new control: what was said of the old one is void.    *)
LEMMA SpawnForm ==
  ASSUME IInv, Spawn, NEW c \in Client, Return(c)
  PROVE  /\ control' \in ControlRecord /\ control'.spawn = control.spawn + 1
         /\ control'.mapped /\ ~control'.finished
         /\ worker' \in WorkerRecord /\ worker'.pc = "start"
         /\ call' \in [Client -> CallRecord] /\ CommandsOk'
<1>0. TypeOK /\ control.spawn \in Nat
  BY DEF IInv, TypeOK, ControlRecord
<1>1. /\ control' \in ControlRecord /\ control'.spawn = control.spawn + 1
      /\ control'.mapped /\ ~control'.finished
  BY <1>0 DEF Spawn, ControlRecord
<1>2. worker' \in WorkerRecord /\ worker'.pc = "start"
  BY FreshWorker DEF Spawn, WorkerPc, Native
<1>3. CallStep(c) /\ call'[c] = Idle
  BY <1>0, CallForms
<1>4. ASSUME NEW d \in Client PROVE CommandOk(d)'
  <2>1. call'[d].spawn \in Nat /\ call'[d].spawn <= control.spawn
    BY <1>0, <1>3 DEF IInv, CommandsOk, CommandOk, CallStep, Idle, TypeOK, CallRecord
  <2>2. call'[d].at \in AtControl => call'[d].spawn # 0
    BY <1>3 DEF IInv, CommandsOk, CommandOk, CallStep, Idle, AtControl
  <2> QED BY <1>0, <1>1, <1>2, <2>1, <2>2 DEF CommandOk, Holds
<1> QED BY <1>1, <1>2, <1>3, <1>4 DEF CallStep, CommandsOk

LEMMA StartCommitKeeps ==
  ASSUME IInv, NEW c \in Client, StartCommit(c)
  PROVE  IInv'
<1>0. /\ TypeOK /\ Return(c)
      /\ UNCHANGED <<op, chat, acked, lost, removed, gone, cancelled>>
  BY DEF StartCommit, IInv
<1>r. CallStep(c) /\ call'[c] = Idle
  BY <1>0, CallForms
<1>1. CASE ~(Check /\ ~HasJob)
  <2>1. Aside /\ UNCHANGED control
    BY <1>0, <1>1 DEF StartCommit, Aside, TypeOK
  <2>2. CommandOk(c)'
    BY <1>0, <1>r, <2>1
       DEF CommandOk, Idle, Signalled, PastGate, AtControl, TypeOK, ControlRecord
  <2> QED BY <1>r, <2>1, <2>2, CommandStep
<1>2. CASE Check /\ ~HasJob
  <2> DEFINE new == [NoJob EXCEPT !.status = "Queued"]
  <2>1. PICK ok \in BOOLEAN :
          /\ Publish(new, ok)
          /\ IF ok THEN Spawn ELSE UNCHANGED <<control, worker>>
    BY <1>2 DEF StartCommit
  <2>2. /\ new \in JobRecord /\ new.status = "Queued" /\ new.next = 0 /\ new.deleted = 0
        /\ ~new.retry
    BY DEF NoJob, JobRecord
  <2> HIDE DEF new
  <2>3. /\ state' \in {state, new} /\ store' \in {store, new}
        /\ state' # state \/ store' # store =>
             /\ ~failed /\ store = state /\ Publishable(new)
        /\ failed' = ~ok
        /\ ok => state' = new /\ store' = new
        /\ ~ok => state' = state
        /\ saved => saved'
        /\ saved' \in BOOLEAN
    BY <1>0, <2>1, <2>2, PublishForm DEF TypeOK
  <2>4. /\ control.spawn = 0 /\ worker.pc = "off" /\ ~lost /\ ~cancelled
        /\ control \in ControlRecord
    BY <1>0, <1>2 DEF HasJob, IInv, WorkersOk, SentOk, TypeOK, ControlRecord
  <2>5. /\ control' \in ControlRecord /\ worker' \in WorkerRecord
        /\ call' \in [Client -> CallRecord] /\ CommandsOk'
        /\ IF ok THEN control'.spawn = 1 /\ control'.mapped /\ ~control'.finished
                      /\ worker'.pc = "start"
           ELSE UNCHANGED <<control, worker>>
    <3>1. CASE ok
      BY <1>0, <2>1, <2>4, <3>1, SpawnForm
    <3>2. CASE ~ok
      <4>1. ASSUME NEW d \in Client PROVE CommandOk(d)'
        <5>1. CASE d = c
          BY <1>0, <1>r, <2>1, <3>2, <5>1
             DEF CommandOk, Idle, Signalled, PastGate, AtControl, TypeOK, ControlRecord
        <5>2. CASE d # c
          BY <1>r, <2>1, <3>2, <5>2 DEF IInv, CommandsOk, CommandOk, Holds, CallStep
        <5> QED BY <5>1, <5>2
      <4> QED BY <1>0, <1>r, <2>1, <3>2, <4>1 DEF CommandsOk, CallStep, TypeOK
    <3> QED BY <3>1, <3>2
  <2>6. TypeOK'
    BY <1>0, <2>2, <2>3, <2>5 DEF TypeOK
  <2>7. RecordsOk'
    <3>1. removed \in Nat /\ new.deleted <= removed
      BY <1>0, <2>2 DEF TypeOK
    <3>2. ~failed' => store' = state'
      BY <2>3
    <3> QED BY <1>0, <2>2, <2>3, <3>1, <3>2, RecordsPublished DEF IInv, TypeOK
  <2>8. CompletedOk'
    <3>1. store'.status = "Completed" => store' = store
      BY <2>2, <2>3
    <3>2. worker'.pc \in Inert
      BY <2>4, <2>5 DEF Inert
    <3> QED BY <1>0, <3>1, <3>2, CompletedKept DEF IInv, TypeOK
  <2>9. WorkersOk'
    <3>1. CASE ok
      BY <2>2, <2>3, <2>5, <3>1 DEF WorkersOk
    <3>2. CASE ~ok
      BY <2>3, <2>4, <2>5, <3>2 DEF IInv, WorkersOk, Over, Terminal, Unfinished
    <3> QED BY <3>1, <3>2
  <2>10. SentOk'
    BY <1>0, <2>4, <2>5 DEF SentOk, Inert
  <2>11. PhaseOk'
    BY <2>4, <2>5 DEF PhaseOk, Inert, InHand
  <2> QED BY <2>5, <2>6, <2>7, <2>8, <2>9, <2>10, <2>11 DEF IInv
<1> QED BY <1>1, <1>2

(* A second worker is spawned only for a job that is over.                  *)
LEMMA RecoverSpawnKeeps ==
  ASSUME IInv, NEW c \in Client, RecoverSpawn(c)
  PROVE  IInv'
<1>0. /\ TypeOK /\ Return(c) /\ call[c].at = "recoverSpawn" /\ UnPublished
      /\ UNCHANGED <<op, chat, acked, lost, removed, gone, cancelled>>
  BY DEF RecoverSpawn, In, IInv
<1>1. CASE control.mapped
  <2>1. Aside /\ UNCHANGED control
    BY <1>0, <1>1 DEF RecoverSpawn, Aside, TypeOK
  <2>2. CallStep(c) /\ call'[c] = Idle
    BY <1>0, CallForms
  <2>3. CommandOk(c)'
    BY <1>0, <2>1, <2>2
       DEF CommandOk, Idle, Signalled, PastGate, AtControl, TypeOK, ControlRecord
  <2> QED BY <2>1, <2>2, <2>3, CommandStep
<1>2. CASE ~control.mapped
  <2>1. Spawn
    BY <1>2 DEF RecoverSpawn
  <2>2. /\ control' \in ControlRecord /\ control'.spawn = control.spawn + 1
        /\ control'.mapped /\ ~control'.finished
        /\ worker' \in WorkerRecord /\ worker'.pc = "start"
        /\ call' \in [Client -> CallRecord] /\ CommandsOk'
    BY <1>0, <2>1, SpawnForm
  <2>3. control.spawn \in Nat /\ control.spawn # 0 /\ worker.pc = "off" /\ Over
    BY <1>0, <1>2 DEF IInv, CommandsOk, CommandOk, WorkersOk, TypeOK, ControlRecord
  <2>4. failed \/ ~state.retry
    BY <2>3 DEF Over, Terminal, TerminalStatus, IInv, RecordsOk, JobOk, Consistent
  <2>5. TypeOK'
    BY <1>0, <2>2 DEF TypeOK, UnPublished
  <2>6. RecordsOk'
    BY <1>0, RecordsPublished DEF IInv, TypeOK, RecordsOk, JobOk, UnPublished
  <2>7. CompletedOk'
    BY <1>0, <2>2, CompletedKept DEF IInv, TypeOK, UnPublished, Inert
  <2>8. WorkersOk'
    BY <1>0, <2>2, <2>3, <2>4 DEF IInv, WorkersOk, UnPublished, Over, Terminal, Unfinished, Inert
  <2>9. SentOk'
    BY <1>0, <2>2, <2>3 DEF IInv, SentOk, UnPublished, Inert
  <2>10. PhaseOk'
    BY <2>2 DEF PhaseOk, Inert, InHand
  <2> QED BY <2>2, <2>5, <2>6, <2>7, <2>8, <2>9, <2>10 DEF IInv
<1> QED BY <1>1, <1>2

-----------------------------------------------------------------------------
(* The surroundings, and the theorems.                                      *)

LEMMA SurroundingsKeep ==
  ASSUME IInv, SessionLost \/ Elsewhere \/ Die
  PROVE  IInv'
<1>1. Aside /\ UNCHANGED <<control, call>>
  <2>1. chat \subseteq Capability
    BY DEF IInv, TypeOK
  <2> QED BY <2>1 DEF SessionLost, Elsewhere, Die, Trouble, Aside, UnPublished, observers,
                      Capability
<1>2. CommandsOk'
  BY <1>1 DEF IInv, CommandsOk, CommandOk, Holds, Aside
<1> QED BY <1>1, <1>2, AsideStep DEF IInv, TypeOK

(* What a restart finds unfinished it stops; the calls of the dead process  *)
(* may have been performed.                                                 *)
LEMMA OpenKeeps ==
  ASSUME IInv, Open
  PROVE  IInv'
<1>0. /\ TypeOK
      /\ state' = Recovered(store) /\ store' = Recovered(store) /\ failed' = FALSE
      /\ control' = [NoControl EXCEPT !.spawn = control.spawn]
      /\ worker' = NoWorker /\ call' = [c \in Client |-> Idle]
      /\ lost' = (lost \/ worker.pc \in {"flight", "settle"})
      /\ UNCHANGED <<op, chat, acked, removed, saved, gone, cancelled>>
  BY DEF Open, IInv
<1> DEFINE new == Recovered(store)
<1>1. /\ new \in JobRecord /\ ~Unfinished(new)
      /\ new.status = "Absent" <=> store.status = "Absent"
      /\ new.next = store.next /\ new.deleted = store.deleted
      /\ new.status = "Completed" => new = store
  BY <1>0 DEF TypeOK, Recovered, Unfinished, Stopped, JobRecord, TerminalStatus
<1>2. /\ control' \in ControlRecord /\ control'.spawn = control.spawn
      /\ ~control'.mapped /\ ~control'.finished
      /\ control.spawn \in Nat
  BY <1>0 DEF NoControl, ControlRecord, TypeOK
<1>3. worker' \in WorkerRecord /\ worker'.pc = "off"
  BY <1>0 DEF NoWorker, WorkerRecord, WorkerPc, Native, Result
<1>4. TypeOK'
  BY <1>0, <1>1, <1>2, <1>3 DEF TypeOK, CallRecord, Idle, CallPc
<1>5. RecordsOk'
  <2>1. JobOk(store)
    BY DEF IInv, RecordsOk
  <2>2. (new.status # "Absent" => Accounted(new) /\ Consistent(new))
    <3>1. CASE Unfinished(store)
      <4>1. Accounted(store) /\ Consistent(store)
        BY <2>1, <3>1 DEF JobOk, Unfinished
      <4>2. /\ new.status \in {"Partial", "Failed"} /\ ~new.retry
            /\ new.skipped = store.skipped /\ new.failed = store.failed
            /\ new.uncertain = store.uncertain
        BY <1>0, <3>1 DEF Recovered, Stopped, TypeOK, JobRecord
      <4> QED BY <1>1, <4>1, <4>2 DEF Accounted, Consistent, Results, Terminal, TerminalStatus
    <3>2. CASE ~Unfinished(store)
      BY <2>1, <3>2 DEF JobOk, Recovered
    <3> QED BY <3>1, <3>2
  <2> HIDE DEF new
  <2>3. JobOk(store)'
    BY <1>0, <1>1, <2>1, <2>2, PlanKept DEF new, JobOk, Accounted, Consistent, Results
  <2> QED BY <1>0, <2>3 DEF RecordsOk, JobOk, Accounted, Consistent, Results
<1>6. CompletedOk'
  <2>1. store'.status = "Completed" => store' = store /\ lost' = lost
    <3>1. store'.status = "Completed" => store' = store /\ worker.pc \in Inert
      BY <1>0, <1>1 DEF IInv, CompletedOk
    <3>2. worker.pc \in Inert => lost' = lost
      BY <1>0 DEF Inert, TypeOK
    <3> QED BY <3>1, <3>2
  <2> QED BY <1>0, <1>3, <2>1, CompletedKept DEF IInv, TypeOK, Inert
<1>7. WorkersOk'
  <2>1. control.spawn # 0 => new.status # "Absent" /\ Terminal(new)
    BY <1>1 DEF IInv, WorkersOk, Unfinished, Terminal, TerminalStatus, JobRecord
  <2> HIDE DEF new
  <2>2. state' = new /\ store' = new
    BY <1>0 DEF new
  <2>3. Over' \/ control.spawn = 0
    BY <2>1, <2>2 DEF Over, Terminal
  <2>4. ~Unfinished(state')
    BY <1>1, <2>2
  <2> QED BY <1>2, <1>3, <2>1, <2>2, <2>3, <2>4 DEF WorkersOk, Inert, Unfinished
<1>8. CommandsOk'
  BY <1>0, <1>2 DEF CommandsOk, CommandOk, Idle, Signalled, PastGate, AtControl
<1>9. SentOk'
  <2>1. worker.pc \in {"flight", "settle"} => control.spawn # 0
    BY DEF IInv, WorkersOk
  <2> QED BY <1>0, <1>2, <1>3, <2>1 DEF IInv, SentOk, Inert
<1>10. PhaseOk'
  BY <1>3 DEF PhaseOk, Inert, InHand
<1> QED BY <1>4, <1>5, <1>6, <1>7, <1>8, <1>9, <1>10 DEF IInv

LEMMA InitOk == Init => IInv
<1> SUFFICES ASSUME Init
             PROVE  IInv
  OBVIOUS
<1>1. TypeOK
  <2>1. NoJob \in JobRecord /\ NoControl \in ControlRecord
    BY DEF NoJob, JobRecord, NoControl, ControlRecord
  <2>2. NoWorker \in WorkerRecord
    BY DEF NoWorker, WorkerRecord, WorkerPc, Native, Result
  <2>3. chat \subseteq Capability
    BY DEF Init, Demanded, ChatCall, Capability
  <2> QED BY <2>1, <2>2, <2>3 DEF Init, TypeOK, CallRecord, Idle, CallPc, Native
<1>2. RecordsOk /\ CompletedOk
  BY DEF Init, RecordsOk, JobOk, NoJob, CompletedOk, CompletedMeansDone
<1>3. WorkersOk /\ SentOk
  BY DEF Init, WorkersOk, SentOk, NoControl, NoWorker, NoJob, Unfinished
<1>4. CommandsOk
  BY DEF Init, CommandsOk, CommandOk, Idle, NoControl, Signalled, PastGate, AtControl
<1>5. PhaseOk
  BY DEF Init, PhaseOk, NoWorker, Inert, InHand
<1> QED BY <1>1, <1>2, <1>3, <1>4, <1>5 DEF IInv

(* The invariant is inductive.                                              *)
THEOREM Inductive == Spec => []IInv
<1>1. IInv /\ [Next]_vars => IInv'
  <2> SUFFICES ASSUME IInv, [Next]_vars
               PROVE  IInv'
    OBVIOUS
  <2>1. CASE Work
    BY <2>1, WorkKeeps
  <2>2. ASSUME NEW c \in Client, Handle(c) \/ Invoke(c)
        PROVE  IInv'
    BY <2>2, InvokeKeeps, GateKeeps, SignalKeeps, CancelCommitKeeps, RecoverPersistKeeps,
       CancelWaitKeeps, StartCommitKeeps, RecoverSpawnKeeps DEF Handle
  <2>3. CASE SessionLost \/ Elsewhere \/ Die \/ Open
    BY <2>3, SurroundingsKeep, OpenKeeps
  <2>4. CASE UNCHANGED vars
    <3>1. Aside /\ UNCHANGED <<control, call>>
      BY <2>4 DEF vars, Aside, UnPublished, IInv, TypeOK
    <3>2. CommandsOk'
      BY <3>1 DEF IInv, CommandsOk, CommandOk, Holds, Aside
    <3> QED BY <3>1, <3>2, AsideStep DEF IInv, TypeOK
  <2> QED BY <2>1, <2>2, <2>3, <2>4 DEF Next
<1> QED BY <1>1, InitOk, PTL DEF Spec

(* Leaving a chat comes after the cleanup of the plan, and removing it      *)
(* after the leave, each only once the step before it is durable.           *)
THEOREM LeavingIsLast == Spec => []PhasesInOrder
<1>1. IInv => PhasesInOrder
  BY DEF IInv, PhaseOk, SentOk, PhasesInOrder, Sending, Inert, InHand, CallInHand, MayLeave,
     ChatCall
<1> QED BY <1>1, Inductive, PTL

(* A job stored as Completed has done all of its plan, with every outcome   *)
(* known, however its publications failed and its process died.             *)
THEOREM CompletedIsDone == Spec => []CompletedMeansDone
<1>1. IInv => CompletedMeansDone
  BY DEF IInv, CompletedOk
<1> QED BY <1>1, Inductive, PTL

(* Native calls are made only by the worker its owner started, never after  *)
(* an unknown outcome, and not once a cancel or a stop has passed the gate. *)
THEOREM OnlyTheStartedWorkerSends == Spec => []SendsAreAllowed
<1>1. IInv => SendsAreAllowed
  <2> SUFFICES ASSUME IInv, Sending
               PROVE  /\ control.spawn = 1 /\ ~lost /\ ~cancelled
                      /\ \A c \in Client : call[c].at \in {"cancelWait", "stopWait"} => ~Holds(c)
    BY DEF SendsAreAllowed
  <2>1. control.spawn = 1 /\ ~lost /\ ~cancelled
    BY InPhase DEF Sending, Inert
  <2>2. \A c \in Client : call[c].at \in {"cancelWait", "stopWait"} => ~Holds(c)
    BY DEF IInv, CommandsOk, CommandOk, PastGate, Sending
  <2> QED BY <2>1, <2>2
<1> QED BY <1>1, Inductive, PTL

-----------------------------------------------------------------------------
(* What the engine publishes its own store accepts.                         *)

BudgetOk ==
  budget \in [prompts : Int, calls : Int, rates : Int, setbacks : Nat, troubles : Nat]

(* Only a cancel ends a job under a worker that is in its phases, save for  *)
(* a batch that ends the job itself.                                        *)
StatusOk ==
  worker.pc \notin Inert /\ Terminal(state) =>
    state.status = "Cancelled" \/ (worker.pc = "post" /\ Fatal)

(* A batch that is sent, or was, has been preflighted to its last target.   *)
WholeBatch ==
  worker.native = "delete" /\ (\/ worker.pc \in {"gate", "flight"}
                               \/ worker.pc \in {"reached", "settle"} /\ worker.result = "ok") =>
    worker.allowed + worker.skipped = Sizes[state.next + 1]

(* A record is one the validators accept even if no job is there yet.       *)
StateOk == Accounted(state) /\ Consistent(state)
StoreOk == Accounted(store) /\ Consistent(store)
AcceptedInv == IInv /\ BudgetOk /\ StatusOk /\ WholeBatch /\ StateOk /\ StoreOk

(* A fault of the store is one of the troubles; a clock that was set back.  *)
Spends ==
  \/ budget.troubles > 0 /\ budget' = [budget EXCEPT !.troubles = @ - 1]
  \/ budget.setbacks > 0 /\ budget' = [budget EXCEPT !.setbacks = @ - 1]

(* What keeps the counters of the job and is not less final is accepted.    *)
LEMMA SameCountsAccepted ==
  ASSUME AcceptedInv, ~failed, NEW new \in JobRecord, new.status # "Absent",
         new.next = state.next, new.deleted = state.deleted, new.skipped = state.skipped,
         new.failed = state.failed, new.uncertain = state.uncertain,
         Terminal(state) => Terminal(new),
         Terminal(new) => ~new.retry,
         new.status = "Completed" => new.failed = 0 /\ new.uncertain = 0
  PROVE  Publishable(new)
<1>1. /\ store = state /\ StateOk /\ state \in JobRecord
  BY DEF AcceptedInv, IInv, TypeOK, RecordsOk
<1>2. Accounted(new) /\ Consistent(new)
  BY <1>1 DEF StateOk, Accounted, Consistent, Results
<1> QED BY <1>1, <1>2 DEF Publishable, JobRecord

(* Publishing what is there already is accepted.                            *)
LEMMA SameAccepted ==
  ASSUME AcceptedInv, ~failed
  PROVE  Publishable(state)
BY DEF AcceptedInv, StateOk, IInv, TypeOK, RecordsOk, Publishable, JobRecord

(* A finished batch is counted once, whatever came of it.                   *)
LEMMA ProgressAccepted ==
  ASSUME AcceptedInv, ~failed, Progress
  PROVE  Publishable(Progressed)
<1>0. /\ worker.pc = "settle" /\ worker.native = "delete" /\ worker.result # "rate"
      /\ state \in JobRecord /\ worker \in WorkerRecord /\ worker.pc \notin Inert
      /\ store = state /\ StateOk
  BY DEF AcceptedInv, IInv, TypeOK, RecordsOk, Progress, At, Inert
<1>1. /\ BatchInHand
      /\ worker.result = "ok" => worker.allowed + worker.skipped = Sizes[state.next + 1]
  BY <1>0 DEF AcceptedInv, IInv, PhaseOk, InHand, WholeBatch
<1> DEFINE size == Sizes[state.next + 1]
           affected == size - worker.skipped
           skipped == state.skipped + worker.skipped
           deleted == state.deleted + IF worker.result = "ok" THEN worker.allowed ELSE 0
           refused == state.failed + IF worker.result \in {"soft", "fatal"} THEN affected ELSE 0
           unknown == state.uncertain + IF worker.result = "ambiguous" THEN affected ELSE 0
           counted == [state EXCEPT
             !.next = Cursor, !.skipped = skipped, !.deleted = deleted,
             !.failed = refused, !.uncertain = unknown, !.retry = FALSE]
<1>2. /\ size \in Nat /\ worker.allowed \in Nat /\ worker.skipped \in Nat
      /\ worker.allowed + worker.skipped <= size
      /\ {state.next, state.skipped, state.deleted, state.failed, state.uncertain} \subseteq Nat
      /\ worker.result \in {"ok", "soft", "fatal", "ambiguous"}
  BY <1>0, <1>1, SizesAssumption DEF BatchInHand, WorkerRecord, JobRecord, Result
<1>3. Progressed = IF Fatal THEN Stopped(counted) ELSE counted
  BY DEF Progressed, Fatal
<1> HIDE DEF size
<1>4. /\ {skipped, deleted, refused, unknown} \subseteq Nat
      /\ skipped >= state.skipped /\ deleted >= state.deleted
      /\ refused >= state.failed /\ unknown >= state.uncertain
      /\ deleted + refused + unknown + skipped
           = state.deleted + state.failed + state.uncertain + state.skipped + size
  BY <1>1, <1>2 DEF size
<1>5. worker.result # "ambiguous" => unknown = state.uncertain
  BY <1>2
<1>c. Cursor = state.next + 1 /\ state.next + 1 \in Nat
  BY <1>2 DEF Cursor
<1> HIDE DEF affected, skipped, deleted, refused, unknown
<1>6. /\ counted \in JobRecord /\ counted.next = state.next + 1 /\ counted.skipped = skipped
      /\ counted.deleted = deleted /\ counted.failed = refused /\ counted.uncertain = unknown
      /\ counted.status = state.status /\ ~counted.retry
  BY <1>0, <1>4, <1>c DEF JobRecord
<1> HIDE DEF counted
<1>7. /\ Progressed \in JobRecord /\ Progressed.next = state.next + 1
      /\ Progressed.skipped = skipped /\ Progressed.deleted = deleted
      /\ Progressed.failed = refused /\ Progressed.uncertain = unknown
      /\ ~Progressed.retry
      /\ Fatal => Progressed.status \in {"Partial", "Failed"}
      /\ ~Fatal => Progressed.status = state.status
  BY <1>3, <1>6 DEF Stopped, JobRecord, TerminalStatus
<1>8. state.status \notin {"Absent", "Completed"}
  BY <1>0, InPhase DEF AcceptedInv
<1>9. Accounted(Progressed)
  <2>1. state.next + 1 <= LastCursor
    BY <1>1, <1>2 DEF BatchInHand, LastCursor, Batched
  <2>2. Cardinality(Passed(state.next + 1)) = Cardinality(Passed(state.next)) + size
    BY <1>1, <1>2, PassedCounts DEF BatchInHand, size
  <2>3. Results(state) + state.skipped = Cardinality(Passed(state.next))
    BY <1>0 DEF StateOk, Accounted
  <2>4. Cardinality(Passed(state.next)) \in Nat
    BY <1>2, PassedCounts
  <2> QED BY <1>2, <1>4, <1>7, <2>1, <2>2, <2>3, <2>4 DEF Accounted, Results
<1>10. Consistent(Progressed)
  <2>1. Cardinality(Passed(state.next + 1)) <= Total /\ Total \in Nat
    BY <1>c, PassedCounts
  <2>2. Results(Progressed) <= Total
    BY <1>2, <1>4, <1>7, <1>9, <2>1 DEF Accounted, Results
  <2>3. unknown > 0 => Terminal(Progressed)
    BY <1>0, <1>2, <1>5, <1>7 DEF Fatal, StateOk, Consistent, Terminal, TerminalStatus
  <2> QED BY <1>7, <1>8, <2>2, <2>3 DEF Consistent
<1>11. Terminal(state) => Terminal(Progressed)
  BY <1>7 DEF Terminal, TerminalStatus
<1> QED BY <1>0, <1>2, <1>4, <1>7, <1>8, <1>9, <1>10, <1>11 DEF Publishable


(* What a transition of the worker comes to.                                *)
LEMMA Transitions ==
  ASSUME TypeOK, NEW new, NEW then \in WorkerPc, NEW else \in WorkerPc,
         WorkerPublish(new, then, else)
  PROVE  /\ \/ /\ state' = new /\ Publishable(new) /\ worker'.pc = then
               /\ then \in {"post", "wait"} => worker' = [worker EXCEPT !.pc = then]
            \/ state' = state /\ worker'.pc = else
         /\ state' = state \/ (state' = new /\ Publishable(new))
         /\ store' = store \/ (store' = new /\ Publishable(new))
         /\ failed' /\ ~failed => ~Publishable(new) \/ Spends
         /\ budget' = budget \/ Spends
<1>1. PICK ok \in BOOLEAN :
        /\ Publish(new, ok)
        /\ worker' = IF ok /\ then \in {"post", "wait"} THEN [worker EXCEPT !.pc = then]
                     ELSE [NoWorker EXCEPT !.pc = IF ok THEN then ELSE else]
  BY DEF WorkerPublish
<1>2. worker \in WorkerRecord
  BY DEF TypeOK
<1>3. worker'.pc = IF ok THEN then ELSE else
  BY <1>1, <1>2 DEF WorkerRecord, NoWorker
<1>4. /\ state' = IF ok THEN new ELSE state
      /\ ok => Publishable(new)
      /\ store' = store \/ (store' = new /\ Publishable(new))
  BY <1>1 DEF Publish
<1>5. /\ failed' /\ ~failed => ~Publishable(new) \/ Spends
      /\ budget' = budget \/ Spends
  BY <1>1 DEF Publish, Spends
<1> QED BY <1>1, <1>3, <1>4, <1>5

(* The worker publishes nothing that is refused, save for what undoes a     *)
(* cancel.                                                                  *)
WorkersPublication(new) ==
  \/ worker.pc = "claim" /\ ~Terminal(state) /\ new = [state EXCEPT !.status = "Running"]
  \/ worker.pc \in StopPoints \cup {"gate"} /\ new = FinishCancelled(state)
  \/ /\ worker.pc = "settle" /\ worker.result = "rate"
     /\ new = [state EXCEPT !.status = "Queued", !.retry = TRUE]
  \/ worker.pc = "resume" /\ new = [state EXCEPT !.status = "Running", !.retry = FALSE]
  \/ Progress /\ new = Progressed
  \/ /\ worker.pc = "settle" /\ CallInHand /\ PhaseRecorded(worker.native)
     /\ new = [state EXCEPT !.next = 1]
  \/ worker.pc = "settle" /\ new = state
  \/ /\ worker.pc = "final"
     /\ new = IF state.status = "Cancelled" THEN [state EXCEPT !.retry = FALSE]
              ELSE [state EXCEPT !.status = Outcome, !.retry = FALSE]
  \/ worker.pc = "fail" /\ new = Closed(state)

LEMMA WorkerAccepted ==
  ASSUME AcceptedInv, ~failed, NEW new, WorkersPublication(new)
  PROVE  Publishable(new) \/ UndoesCancel
<1>0. /\ state \in JobRecord /\ worker \in WorkerRecord /\ store = state /\ StateOk
      /\ worker.pc \notin {"off", "start"} => control.spawn # 0
      /\ control.spawn # 0 => state.status # "Absent"
      /\ ~Terminal(state) => state.uncertain = 0
      /\ Terminal(state) => ~state.retry
  BY DEF AcceptedInv, IInv, TypeOK, RecordsOk, WorkersOk, StateOk, Consistent, JobRecord
<1>1. CASE worker.pc = "claim" /\ ~Terminal(state) /\ new = [state EXCEPT !.status = "Running"]
  <2>1. /\ new \in JobRecord /\ new.status = "Running" /\ new.next = state.next
        /\ new.deleted = state.deleted /\ new.skipped = state.skipped
        /\ new.failed = state.failed /\ new.uncertain = state.uncertain
    BY <1>0, <1>1 DEF JobRecord
  <2> QED BY <1>0, <1>1, <2>1, SameCountsAccepted DEF Terminal, TerminalStatus
<1>2. CASE worker.pc \in StopPoints \cup {"gate"} /\ new = FinishCancelled(state)
  <2>1. CASE Terminal(state)
    BY <1>2, <2>1, SameAccepted DEF FinishCancelled
  <2>2. CASE ~Terminal(state)
    <3>1. /\ new \in JobRecord /\ new.status = "Cancelled" /\ new.next = state.next
          /\ new.deleted = state.deleted /\ new.skipped = state.skipped
          /\ new.failed = state.failed /\ new.uncertain = state.uncertain /\ ~new.retry
      BY <1>0, <1>2, <2>2 DEF JobRecord, FinishCancelled, TerminalStatus
    <3> QED BY <2>2, <3>1, SameCountsAccepted
  <2> QED BY <2>1, <2>2
<1>3. CASE \/ /\ worker.pc = "settle" /\ worker.result = "rate"
              /\ new = [state EXCEPT !.status = "Queued", !.retry = TRUE]
           \/ worker.pc = "resume" /\ new = [state EXCEPT !.status = "Running", !.retry = FALSE]
  <2>1. CASE Terminal(state)
    BY <1>3, <2>1 DEF AcceptedInv, StatusOk, Inert, UndoesCancel
  <2>2. CASE ~Terminal(state)
    <3>1. /\ new \in JobRecord /\ new.status \in {"Queued", "Running"} /\ new.next = state.next
          /\ new.deleted = state.deleted /\ new.skipped = state.skipped
          /\ new.failed = state.failed /\ new.uncertain = state.uncertain
      BY <1>0, <1>3 DEF JobRecord
    <3> QED BY <2>2, <3>1, SameCountsAccepted DEF Terminal, TerminalStatus
  <2> QED BY <2>1, <2>2
<1>4. CASE Progress /\ new = Progressed
  BY <1>4, ProgressAccepted
<1>5. CASE /\ worker.pc = "settle" /\ CallInHand /\ PhaseRecorded(worker.native)
           /\ new = [state EXCEPT !.next = 1]
  <2>1. op = "ClearHistoryAndLeave" /\ op \notin Batched /\ LastCursor = 1
    BY <1>5 DEF PhaseRecorded, Batched, LastCursor
  <2>2. /\ new \in JobRecord /\ new.next = 1 /\ new.status = state.status /\ new.retry = state.retry
        /\ new.deleted = state.deleted /\ new.skipped = state.skipped
        /\ new.failed = state.failed /\ new.uncertain = state.uncertain
    BY <1>0, <1>5 DEF JobRecord
  <2>3. /\ state.next \in Nat /\ state.next <= 1
        /\ Cardinality(Passed(state.next)) = 0 /\ Cardinality(Passed(1)) = 0
    BY <1>0, <2>1, PassedCounts DEF JobRecord, StateOk, Accounted
  <2>4. Accounted(new) /\ Consistent(new)
    BY <1>0, <2>1, <2>2, <2>3 DEF StateOk, Accounted, Consistent, Results, Terminal
  <2> QED BY <1>0, <2>2, <2>3, <2>4 DEF Publishable, JobRecord, Terminal
<1>6. CASE worker.pc = "settle" /\ new = state
  BY <1>6, SameAccepted
<1>7. CASE /\ worker.pc = "final"
           /\ new = IF state.status = "Cancelled" THEN [state EXCEPT !.retry = FALSE]
                    ELSE [state EXCEPT !.status = Outcome, !.retry = FALSE]
  <2>1. /\ new \in JobRecord /\ new.next = state.next /\ ~new.retry
        /\ new.deleted = state.deleted /\ new.skipped = state.skipped
        /\ new.failed = state.failed /\ new.uncertain = state.uncertain
        /\ new.status = IF state.status = "Cancelled" THEN "Cancelled" ELSE Outcome
    BY <1>0, <1>7 DEF JobRecord, Outcome, TerminalStatus
  <2>2. state.status = "Cancelled" \/ ~Terminal(state)
    BY <1>7 DEF AcceptedInv, StatusOk, Inert
  <2>3. /\ new.status \in TerminalStatus
        /\ new.status = "Completed" => state.failed = 0 /\ state.uncertain = 0
    BY <1>0, <2>1, <2>2 DEF Outcome, TerminalStatus, JobRecord
  <2> QED BY <2>1, <2>3, SameCountsAccepted DEF Terminal, TerminalStatus
<1>8. CASE worker.pc = "fail" /\ new = Closed(state)
  <2>1. CASE Unfinished(state)
    <3>1. /\ new \in JobRecord /\ new.next = state.next /\ ~new.retry
          /\ new.deleted = state.deleted /\ new.skipped = state.skipped
          /\ new.failed = state.failed /\ new.uncertain = state.uncertain
          /\ new.status \in {"Partial", "Failed"}
      BY <1>0, <1>8, <2>1 DEF JobRecord, Closed, Stopped, TerminalStatus
    <3> QED BY <3>1, SameCountsAccepted DEF Terminal, TerminalStatus
  <2>2. CASE ~Unfinished(state)
    BY <1>8, <2>2, SameAccepted DEF Closed
  <2> QED BY <2>1, <2>2
<1> QED BY <1>1, <1>2, <1>3, <1>4, <1>5, <1>6, <1>7, <1>8 DEF WorkersPublication


(* What every step does to the records and the bounds, and what it may not  *)
(* do.                                                                      *)
BudgetStep ==
  \/ budget' = budget \/ Spends
  \/ \E x \in Int : budget' \in {[budget EXCEPT !.prompts = x], [budget EXCEPT !.calls = x],
                                 [budget EXCEPT !.rates = x]}
RecordStep ==
  /\ op' = op
  /\ state' = state \/ Publishable(state')
  /\ store' = store \/ Publishable(store')
Accepts == failed' /\ ~failed => Spends \/ UndoesCancel
Sound == BudgetStep /\ RecordStep /\ Accepts /\ StatusOk' /\ WholeBatch'

Preflighted == {"gate", "flight", "reached", "settle"}
LEMMA PublishedSoundly ==
  ASSUME AcceptedInv, op' = op, NEW new, NEW then \in WorkerPc \ Preflighted,
         NEW else \in {"fail", "finish"}, WorkerPublish(new, then, else),
         WorkersPublication(new),
         /\ state' = new /\ worker'.pc = then
         /\ then \in {"post", "wait"} => worker' = [worker EXCEPT !.pc = then]
         => StatusOk'
  PROVE  Sound
<1>1. then \in WorkerPc /\ else \in WorkerPc /\ TypeOK
  BY DEF WorkerPc, AcceptedInv, IInv
<1>2. /\ \/ /\ state' = new /\ Publishable(new) /\ worker'.pc = then
            /\ then \in {"post", "wait"} => worker' = [worker EXCEPT !.pc = then]
         \/ state' = state /\ worker'.pc = else
      /\ state' = state \/ (state' = new /\ Publishable(new))
      /\ store' = store \/ (store' = new /\ Publishable(new))
      /\ failed' /\ ~failed => ~Publishable(new) \/ Spends
      /\ budget' = budget \/ Spends
  BY <1>1, Transitions
<1>3. StatusOk'
  BY <1>2 DEF StatusOk, Inert
<1>4. WholeBatch'
  BY <1>2 DEF WholeBatch, Preflighted
<1>5. Accepts
  BY <1>2, WorkerAccepted DEF Accepts
<1> QED BY <1>2, <1>3, <1>4, <1>5 DEF Sound, BudgetStep, RecordStep

LEMMA SilentSoundly ==
  ASSUME UnPublished, op' = op, BudgetStep, StatusOk', WholeBatch'
  PROVE  Sound
BY DEF Sound, RecordStep, Accepts, UnPublished

(* A silent step of the worker that is not about a batch.                   *)
LEMMA MovedSoundly ==
  ASSUME AcceptedInv, UnPublished, op' = op, BudgetStep,
         worker'.pc \in Inert \/ (worker.pc \notin Inert /\ (worker.pc = "post" => ~Fatal)),
         worker'.pc \in Preflighted => worker'.native # "delete"
  PROVE  Sound
<1>1. StatusOk'
  BY DEF AcceptedInv, StatusOk, UnPublished, Terminal
<1>2. WholeBatch'
  BY DEF WholeBatch, Preflighted
<1> QED BY <1>1, <1>2, SilentSoundly

LEMMA WorkSoundly ==
  ASSUME AcceptedInv, Work
  PROVE  Sound
<1>0. /\ IInv /\ TypeOK /\ StatusOk /\ WholeBatch /\ BudgetOk
      /\ state \in JobRecord /\ worker \in WorkerRecord /\ op' = op
      /\ {"fail", "finish", "leave", "left", "post", "wait"} \subseteq WorkerPc \ Preflighted
  <2>1. op' = op
    BY DEF Work, RunStart, RunClaim, SeeCancelled, Preflight, Reached, Resolve, Lookup,
       LeaveOrRemove, EnterGate, Answered, WaitForRetry, WaitOver, Resume, Progress, AfterBatch,
       Acknowledged, Finalize, RunFailed, Finish, Unmap, WorkerFrame
  <2> QED BY <2>1 DEF AcceptedInv, IInv, TypeOK, WorkerPc, Preflighted
<1>1. CASE RunStart
  <2>1. worker'.pc \in Inert
    BY <1>0, <1>1 DEF RunStart, At, Goto, WorkerRecord, IInv, WorkersOk, Check, Inert
  <2> QED BY <1>0, <1>1, <2>1, MovedSoundly DEF RunStart, BudgetStep, Inert, Preflighted
<1>2. CASE RunClaim
  <2>1. CASE ~MayClaim
    BY <1>0, <1>2, <2>1, MovedSoundly
       DEF RunClaim, Goto, WorkerRecord, BudgetStep, Inert, Preflighted
  <2>2. CASE MayClaim
    <3> DEFINE new == [state EXCEPT !.status = "Running"]
    <3>1. FirstPhase \in WorkerPc \ Preflighted
      BY DEF FirstPhase, WorkerPc, Preflighted
    <3>2. WorkerPublish(new, FirstPhase, "fail") /\ WorkersPublication(new)
      BY <1>2, <2>2 DEF RunClaim, MayClaim, WorkersPublication, At
    <3>3. new.status = "Running"
      BY <1>0 DEF JobRecord
    <3> HIDE DEF new
    <3>4. state' = new => StatusOk'
      BY <3>3 DEF StatusOk, Terminal, TerminalStatus
    <3> QED BY <1>0, <3>1, <3>2, <3>4, PublishedSoundly
  <2> QED BY <2>1, <2>2
<1>3. CASE SeeCancelled
  <2>1. /\ WorkerPublish(FinishCancelled(state), "finish", "fail")
        /\ WorkersPublication(FinishCancelled(state))
    BY <1>3 DEF SeeCancelled, WorkersPublication
  <2>2. worker'.pc = "finish" => StatusOk'
    BY DEF StatusOk, Inert
  <2> QED BY <1>0, <2>1, <2>2, PublishedSoundly
<1>4. CASE Preflight
  <2>1. UnPublished /\ worker.pc = "batch"
    BY <1>4 DEF Preflight, At
  <2>2. CASE PastLastBatch
    BY <1>0, <1>4, <2>1, <2>2, MovedSoundly
       DEF Preflight, Goto, WorkerRecord, BudgetStep, Inert, Preflighted
  <2>3. CASE ~PastLastBatch
    <3>1. PICK allowed, skipped \in 0..Sizes[state.next + 1],
               result \in {"ok", "soft", "fatal", "rate"} :
            /\ result = "ok" <=> allowed + skipped = Sizes[state.next + 1]
            /\ budget' = [budget EXCEPT !.rates = @ - IF result = "rate" THEN 1 ELSE 0]
            /\ worker' = [worker EXCEPT !.pc = "reached", !.native = "delete",
                                        !.allowed = allowed, !.skipped = skipped,
                                        !.result = result]
      BY <1>4, <2>3 DEF Preflight
    <3>2. /\ worker'.pc = "reached" /\ worker'.allowed = allowed /\ worker'.skipped = skipped
          /\ worker'.result = result
      BY <1>0, <3>1 DEF WorkerRecord
    <3>3. WholeBatch'
      BY <2>1, <3>1, <3>2 DEF WholeBatch, UnPublished
    <3>4. StatusOk'
      BY <1>0, <2>1, <3>2 DEF StatusOk, UnPublished, Inert, Terminal
    <3>5. BudgetStep
      <4> DEFINE rates == budget.rates - IF result = "rate" THEN 1 ELSE 0
      <4>1. rates \in Int /\ budget' = [budget EXCEPT !.rates = rates]
        BY <1>0, <3>1 DEF BudgetOk
      <4> HIDE DEF rates
      <4> QED BY <4>1 DEF BudgetStep
    <3> QED BY <1>0, <2>1, <3>3, <3>4, <3>5, SilentSoundly
  <2> QED BY <2>2, <2>3
<1>5. CASE Reached
  <2>1. /\ UnPublished /\ worker.pc = "reached" /\ budget' = budget
        /\ worker' = [worker EXCEPT !.pc = IF worker.result = "ok" /\ worker.allowed > 0
                                           THEN "gate" ELSE "settle"]
    BY <1>5 DEF Reached, At, Goto
  <2>2. WholeBatch'
    BY <1>0, <2>1 DEF WholeBatch, UnPublished, WorkerRecord
  <2>3. StatusOk'
    BY <1>0, <2>1 DEF StatusOk, UnPublished, Inert, Terminal
  <2> QED BY <1>0, <2>1, <2>2, <2>3, SilentSoundly DEF BudgetStep
<1>6. CASE Resolve
  <2>1. ChatCall # "delete"
    BY DEF ChatCall
  <2> QED BY <1>0, <1>6, <2>1, MovedSoundly
          DEF Resolve, At, WorkerRecord, BudgetStep, Inert, Preflighted
<1>7. CASE Lookup
  <2>1. BudgetStep
    BY <1>0, <1>7 DEF Lookup, BudgetStep, BudgetOk
  <2>2. /\ worker.pc \in {"leave", "left"} /\ UnPublished
        /\ \/ worker'.pc \in {"looked", "relooked", "fail"}
           \/ worker'.pc = "settle" /\ worker'.native = "leave"
    BY <1>0, <1>7 DEF Lookup, Goto, WorkerRecord
  <2> QED BY <1>0, <2>1, <2>2, MovedSoundly DEF Inert, Preflighted
<1>8. CASE LeaveOrRemove
  <2>1. /\ worker.pc \in {"looked", "relooked"} /\ UnPublished /\ budget' = budget
        /\ \/ worker'.pc \in {"final", "fail"}
           \/ worker'.pc = "gate" /\ worker'.native \in {"leave", "self"}
    BY <1>8 DEF LeaveOrRemove, NoWorker
  <2> QED BY <1>0, <2>1, MovedSoundly DEF Inert, Preflighted, BudgetStep
<1>9. CASE EnterGate
  <2>1. worker.pc = "gate"
    BY <1>9 DEF EnterGate, At
  <2>2. CASE ~GateOpen
    <3> DEFINE new == FinishCancelled(state)
               then == IF worker.native = "delete" THEN "post" ELSE "finish"
    <3>1. WorkerPublish(new, then, "fail") /\ WorkersPublication(new) /\ then \in {"post", "finish"}
      BY <1>9, <2>1, <2>2 DEF EnterGate, WorkersPublication
    <3>2. state' = new => StatusOk'
      <4>1. new.status = "Cancelled" \/ new = state
        BY <1>0 DEF FinishCancelled, JobRecord
      <4>2. Terminal(state) => state.status = "Cancelled"
        BY <1>0, <2>1 DEF StatusOk, Inert
      <4> QED BY <4>1, <4>2 DEF StatusOk, Terminal
    <3> HIDE DEF new, then
    <3> QED BY <1>0, <3>1, <3>2, PublishedSoundly
  <2>3. CASE GateOpen
    <3>1. /\ UnPublished /\ budget' = budget
          /\ \/ worker' = [worker EXCEPT !.pc = "flight"]
             \/ worker' = [worker EXCEPT !.pc = "settle",
                                         !.result = IF failed THEN "soft" ELSE "fatal"]
      BY <1>9, <2>3 DEF EnterGate, Goto
    <3>2. /\ worker'.allowed = worker.allowed /\ worker'.skipped = worker.skipped
          /\ worker'.native = worker.native
          /\ worker'.pc = "flight" \/ (worker'.pc = "settle" /\ worker'.result # "ok")
      BY <1>0, <3>1 DEF WorkerRecord
    <3>3. WholeBatch'
      BY <1>0, <2>1, <3>1, <3>2 DEF WholeBatch, UnPublished
    <3>4. StatusOk'
      BY <1>0, <2>1, <3>1 DEF StatusOk, UnPublished, Inert, Terminal
    <3> QED BY <1>0, <3>1, <3>3, <3>4, SilentSoundly DEF BudgetStep
  <2> QED BY <2>2, <2>3
<1>10. CASE Answered
  <2>1. PICK answer \in {"ok", "soft", "rate", "lost"} :
          /\ budget' = [budget EXCEPT !.rates = @ - IF answer = "rate" THEN 1 ELSE 0]
          /\ worker' = [worker EXCEPT !.pc = "settle", !.result = Classified(answer)]
    BY <1>10 DEF Answered
  <2>2. worker.pc = "flight" /\ UnPublished
    BY <1>10 DEF Answered, At
  <2>3. /\ worker'.allowed = worker.allowed /\ worker'.skipped = worker.skipped
        /\ worker'.native = worker.native
    BY <1>0, <2>1 DEF WorkerRecord
  <2>4. WholeBatch'
    BY <1>0, <2>2, <2>3 DEF WholeBatch, UnPublished
  <2>5. StatusOk'
    BY <1>0, <2>2 DEF StatusOk, UnPublished, Inert, Terminal
  <2>6. BudgetStep
    <3>1. budget.rates - (IF answer = "rate" THEN 1 ELSE 0) \in Int
      BY <1>0 DEF BudgetOk
    <3> QED BY <2>1, <3>1 DEF BudgetStep
  <2> QED BY <1>0, <2>2, <2>4, <2>5, <2>6, SilentSoundly
<1>11. CASE WaitForRetry
  <2> DEFINE new == [state EXCEPT !.status = "Queued", !.retry = TRUE]
  <2>1. WorkerPublish(new, "wait", "fail") /\ WorkersPublication(new)
    BY <1>11 DEF WaitForRetry, WorkersPublication, At
  <2>2. new.status = "Queued"
    BY <1>0 DEF JobRecord
  <2> HIDE DEF new
  <2>3. state' = new => StatusOk'
    BY <2>2 DEF StatusOk, Terminal, TerminalStatus
  <2> QED BY <1>0, <2>1, <2>3, PublishedSoundly
<1>12. CASE WaitOver
  BY <1>0, <1>12, MovedSoundly DEF WaitOver, At, Goto, WorkerRecord, BudgetStep, Inert, Preflighted
<1>13. CASE Resume
  <2> DEFINE new == [state EXCEPT !.status = "Running", !.retry = FALSE]
  <2>1. PhaseHead \in WorkerPc \ Preflighted
    BY DEF PhaseHead, WorkerPc, Preflighted
  <2>2. WorkerPublish(new, PhaseHead, "fail") /\ WorkersPublication(new)
    BY <1>13 DEF Resume, WorkersPublication, At
  <2>3. new.status = "Running"
    BY <1>0 DEF JobRecord
  <2> HIDE DEF new
  <2>4. state' = new => StatusOk'
    BY <2>3 DEF StatusOk, Terminal, TerminalStatus
  <2> QED BY <1>0, <2>1, <2>2, <2>4, PublishedSoundly
<1>14. CASE Progress
  <2>1. /\ WorkerPublish(Progressed, "post", "fail") /\ WorkersPublication(Progressed)
        /\ worker.pc = "settle"
    BY <1>14 DEF Progress, WorkersPublication, At
  <2>2. ~Fatal => Progressed.status = state.status
    BY <1>0 DEF Progressed, Fatal, JobRecord
  <2>3. Terminal(state) => state.status = "Cancelled"
    BY <1>0, <2>1 DEF StatusOk, Inert
  <2>4. state' = Progressed /\ worker' = [worker EXCEPT !.pc = "post"] => StatusOk'
    BY <1>0, <2>2, <2>3 DEF StatusOk, Terminal, Fatal, WorkerRecord
  <2> QED BY <1>0, <2>1, <2>4, PublishedSoundly
<1>15. CASE AfterBatch
  <2>1. /\ worker.pc = "post" /\ UnPublished /\ budget' = budget
        /\ worker'.pc = IF Fatal THEN "finish" ELSE "batch"
    BY <1>0, <1>15 DEF AfterBatch, At, Goto, Fatal, WorkerRecord
  <2> QED BY <1>0, <2>1, MovedSoundly DEF BudgetStep, Inert, Preflighted
<1>16. CASE Acknowledged
  <2>1. worker.pc = "settle" /\ worker.native # "delete" /\ CallInHand
    BY <1>0, <1>16 DEF Acknowledged, At, IInv, PhaseOk, InHand
  <2>s. Terminal(state) => state.status = "Cancelled"
    BY <1>0, <2>1 DEF StatusOk, Inert
  <2>2. CASE worker.result = "ok" /\ PhaseRecorded(worker.native)
    <3> DEFINE new == [state EXCEPT !.next = 1]
    <3>1. WorkerPublish(new, "leave", "fail") /\ WorkersPublication(new)
      BY <1>16, <2>1, <2>2 DEF Acknowledged, Recorded, PhaseRecorded, WorkersPublication
    <3>2. new.status = state.status
      BY <1>0 DEF JobRecord
    <3> HIDE DEF new
    <3>3. state' = new => StatusOk'
      BY <2>s, <3>2 DEF StatusOk, Terminal
    <3> QED BY <1>0, <3>1, <3>3, PublishedSoundly
  <2>3. CASE worker.result = "ok" /\ ~PhaseRecorded(worker.native) /\ Recorded(worker.native)
    <3>1. WorkerPublish(state, "left", "fail") /\ WorkersPublication(state)
      BY <1>16, <2>1, <2>3 DEF Acknowledged, WorkersPublication
    <3>2. state' = state => StatusOk'
      BY <2>s DEF StatusOk, Terminal
    <3> QED BY <1>0, <3>1, <3>2, PublishedSoundly
  <2>4. CASE worker.result # "ok" \/ (~PhaseRecorded(worker.native) /\ ~Recorded(worker.native))
    <3>1. /\ UnPublished /\ budget' = budget
          /\ worker'.pc \in {"fail", "left", "leave", "final"}
      BY <1>0, <1>16, <2>4 DEF Acknowledged, Goto, WorkerRecord
    <3> QED BY <1>0, <2>1, <3>1, MovedSoundly DEF BudgetStep, Inert, Preflighted
  <2> QED BY <2>2, <2>3, <2>4
<1>17. CASE Finalize
  <2> DEFINE new == IF state.status = "Cancelled" THEN [state EXCEPT !.retry = FALSE]
                    ELSE [state EXCEPT !.status = Outcome, !.retry = FALSE]
  <2>1. WorkerPublish(new, "finish", "fail") /\ WorkersPublication(new)
    BY <1>17 DEF Finalize, WorkersPublication, At
  <2>2. worker'.pc = "finish" => StatusOk'
    BY DEF StatusOk, Inert
  <2> HIDE DEF new
  <2> QED BY <1>0, <2>1, <2>2, PublishedSoundly
<1>18. CASE RunFailed
  <2>1. WorkerPublish(Closed(state), "finish", "finish") /\ WorkersPublication(Closed(state))
    BY <1>18 DEF RunFailed, WorkersPublication, At
  <2>2. worker'.pc = "finish" => StatusOk'
    BY DEF StatusOk, Inert
  <2> QED BY <1>0, <2>1, <2>2, PublishedSoundly
<1>19. CASE Finish \/ Unmap
  <2>1. UnPublished /\ budget' = budget /\ worker'.pc \in {"unmap", "off"}
    BY <1>0, <1>19 DEF Finish, Unmap, Goto, NoWorker, WorkerRecord
  <2> QED BY <1>0, <2>1, MovedSoundly DEF BudgetStep, Inert, Preflighted
<1> QED BY <1>1, <1>2, <1>3, <1>4, <1>5, <1>6, <1>7, <1>8, <1>9, <1>10, <1>11, <1>12, <1>13,
           <1>14, <1>15, <1>16, <1>17, <1>18, <1>19 DEF Work


(* A command publishes what is there, an end of the job, or the first job.  *)
LEMMA CommandSoundly ==
  ASSUME AcceptedInv, NEW c \in Client, Handle(c) \/ Invoke(c)
  PROVE  Sound
<1>0. /\ IInv /\ TypeOK /\ StatusOk /\ WholeBatch /\ BudgetOk
      /\ state \in JobRecord /\ worker \in WorkerRecord
  BY DEF AcceptedInv, IInv, TypeOK
<1>1. CASE UnPublished /\ op' = op /\ BudgetStep /\ worker' = worker
  <2>1. StatusOk' /\ WholeBatch'
    BY <1>0, <1>1 DEF StatusOk, WholeBatch, UnPublished, Fatal, Terminal
  <2> QED BY <1>1, <2>1, SilentSoundly
<1>2. CASE Invoke(c)
  <2>1. UnPublished /\ op' = op /\ worker' = worker
    BY <1>2 DEF Invoke, AuthorizeCall, PromptApproved, StartConsume, RecoverCall, CancelCall,
                StopCall, Quiet
  <2>2. BudgetStep
    BY <1>0, <1>2 DEF Invoke, AuthorizeCall, PromptApproved, StartConsume, RecoverCall,
                      CancelCall, StopCall, UseCall, BudgetStep, BudgetOk
  <2> QED BY <1>1, <2>1, <2>2
<1>3. CASE CancelSignal(c) \/ CancelGate(c) \/ CancelWait(c) \/ StopFlag(c) \/ StopGate(c)
           \/ StopWait(c) \/ StopClear(c)
  <2>1. UnPublished /\ op' = op /\ worker' = worker /\ BudgetStep
    BY <1>3 DEF CancelSignal, CancelGate, CancelWait, StopFlag, StopGate, StopWait, StopClear,
                Signal, PassGate, Quiet, BudgetStep
  <2> QED BY <1>1, <2>1
<1>4. ASSUME NEW new \in JobRecord, NEW ok \in BOOLEAN, Publish(new, ok), op' = op,
             ~failed => Publishable(new),
             state' = new /\ ok => StatusOk' /\ WholeBatch',
             ~ok => worker' = worker
      PROVE  Sound
  <2>1. /\ state' = IF ok THEN new ELSE state
        /\ state' = state \/ (state' = new /\ Publishable(new))
        /\ store' = store \/ (store' = new /\ Publishable(new))
        /\ budget' = budget \/ Spends
        /\ failed' /\ ~failed => ~Publishable(new) \/ Spends
    BY <1>4 DEF Publish, Spends
  <2>2. StatusOk' /\ WholeBatch'
    <3>1. CASE ok
      BY <1>4, <2>1, <3>1
    <3>2. CASE ~ok
      BY <1>0, <1>4, <2>1, <3>2 DEF StatusOk, WholeBatch, Fatal, Terminal
    <3> QED BY <3>1, <3>2
  <2> QED BY <1>4, <2>1, <2>2 DEF Sound, BudgetStep, RecordStep, Accepts
<1>5. CASE RecoverPersist(c)
  <2>1. PICK ok \in BOOLEAN : Publish(state, ok)
    BY <1>5 DEF RecoverPersist
  <2>2. op' = op /\ worker' = worker
    BY <1>5 DEF RecoverPersist, Quiet
  <2>3. state' = state => StatusOk' /\ WholeBatch'
    BY <1>0, <2>2 DEF StatusOk, WholeBatch, Fatal, Terminal
  <2> QED BY <1>0, <1>4, <2>1, <2>2, <2>3, SameAccepted
<1>6. CASE CancelCommit(c)
  <2>1. op' = op /\ worker' = worker
    BY <1>6 DEF CancelCommit, Quiet
  <2>2. CASE Terminal(state)
    BY <1>1, <1>6, <2>1, <2>2 DEF CancelCommit, BudgetStep
  <2>3. CASE ~Terminal(state)
    <3> DEFINE new == FinishCancelled(state)
    <3>1. PICK ok \in BOOLEAN : Publish(new, ok)
      BY <1>6, <2>3 DEF CancelCommit
    <3>2. /\ new \in JobRecord /\ new.status = "Cancelled" /\ new.next = state.next
          /\ new.deleted = state.deleted /\ new.skipped = state.skipped
          /\ new.failed = state.failed /\ new.uncertain = state.uncertain /\ ~new.retry
      BY <1>0, <2>3 DEF JobRecord, FinishCancelled, TerminalStatus
    <3> HIDE DEF new
    <3>3. ~failed => Publishable(new)
      BY <2>3, <3>2, SameCountsAccepted
    <3>4. state' = new => StatusOk' /\ WholeBatch'
      BY <1>0, <2>1, <3>2 DEF StatusOk, WholeBatch
    <3> QED BY <1>4, <2>1, <3>1, <3>2, <3>3, <3>4
  <2> QED BY <2>2, <2>3
<1>7. CASE StartCommit(c)
  <2>0. op' = op
    BY <1>7 DEF StartCommit
  <2>1. CASE ~(Check /\ ~HasJob)
    BY <1>1, <1>7, <2>0, <2>1 DEF StartCommit, BudgetStep
  <2>2. CASE Check /\ ~HasJob
    <3> DEFINE new == [NoJob EXCEPT !.status = "Queued"]
    <3>1. PICK ok \in BOOLEAN :
            /\ Publish(new, ok)
            /\ IF ok THEN Spawn ELSE UNCHANGED <<control, worker>>
      BY <1>7, <2>2 DEF StartCommit
    <3>2. /\ new \in JobRecord /\ new.status = "Queued" /\ new.next = 0 /\ new.deleted = 0
          /\ new.skipped = 0 /\ new.failed = 0 /\ new.uncertain = 0
      BY DEF NoJob, JobRecord
    <3> HIDE DEF new
    <3>3. ~failed => Publishable(new)
      <4>1. LastCursor \in Nat
        BY SizesAssumption DEF LastCursor
      <4>2. Cardinality(Passed(0)) = 0 /\ Total \in Nat
        BY PassedCounts
      <4>3. Accounted(new) /\ Consistent(new)
        BY <3>2, <4>1, <4>2 DEF Accounted, Consistent, Results, Terminal, TerminalStatus
      <4> QED BY <1>0, <2>2, <4>3 DEF Publishable, HasJob, IInv, RecordsOk
    <3>4. ok => StatusOk' /\ WholeBatch'
      <4>1. ok => worker'.pc = "start"
        BY <3>1 DEF Spawn, NoWorker
      <4> QED BY <4>1 DEF StatusOk, WholeBatch, Inert
    <3> QED BY <1>4, <2>0, <3>1, <3>2, <3>3, <3>4
  <2> QED BY <2>1, <2>2
<1>8. CASE RecoverSpawn(c)
  <2>1. UnPublished /\ op' = op /\ budget' = budget
    BY <1>8 DEF RecoverSpawn
  <2>2. worker' = worker \/ worker'.pc = "start"
    BY <1>8 DEF RecoverSpawn, Spawn, NoWorker
  <2>3. CASE worker' = worker
    BY <1>1, <2>1, <2>3 DEF BudgetStep
  <2>4. CASE worker'.pc = "start"
    BY <2>1, <2>4, SilentSoundly DEF BudgetStep, StatusOk, WholeBatch, Inert
  <2> QED BY <2>2, <2>3, <2>4
<1> QED BY <1>2, <1>3, <1>5, <1>6, <1>7, <1>8 DEF Handle

LEMMA AcceptedStep ==
  ASSUME AcceptedInv, Sound, IInv'
  PROVE  AcceptedInv'
<1>1. BudgetOk'
  BY DEF AcceptedInv, BudgetOk, Sound, BudgetStep, Spends
<1>2. StateOk' /\ StoreOk'
  BY PlanKept DEF AcceptedInv, Sound, RecordStep, Publishable, StateOk, StoreOk, Accounted,
                  Consistent, Results
<1> QED BY <1>1, <1>2 DEF AcceptedInv, Sound

LEMMA OpenAccepted ==
  ASSUME AcceptedInv, Open, IInv'
  PROVE  AcceptedInv'
<1>1. /\ op' = op /\ budget' = budget /\ worker'.pc = "off" /\ store \in JobRecord
      /\ state' = Recovered(store) /\ store' = Recovered(store) /\ StoreOk
  BY DEF Open, NoWorker, AcceptedInv, IInv, TypeOK
<1>2. StatusOk' /\ WholeBatch' /\ BudgetOk'
  BY <1>1 DEF StatusOk, WholeBatch, Inert, AcceptedInv, BudgetOk
<1> DEFINE new == Recovered(store)
<1>3. Accounted(new) /\ Consistent(new)
  <2>1. CASE Unfinished(store)
    <3>1. /\ new.status \in {"Partial", "Failed"} /\ ~new.retry /\ new.next = store.next
          /\ new.deleted = store.deleted /\ new.skipped = store.skipped
          /\ new.failed = store.failed /\ new.uncertain = store.uncertain
      BY <1>1, <2>1 DEF Recovered, Stopped, JobRecord
    <3> QED BY <1>1, <3>1 DEF StoreOk, Accounted, Consistent, Results, Terminal, TerminalStatus
  <2>2. CASE ~Unfinished(store)
    BY <1>1, <2>2 DEF StoreOk, Recovered
  <2> QED BY <2>1, <2>2
<1> HIDE DEF new
<1>4. StateOk' /\ StoreOk'
  <2>1. state' = new /\ store' = new
    BY <1>1 DEF new
  <2> QED BY <1>1, <1>3, <2>1, PlanKept DEF StateOk, StoreOk, Accounted, Consistent, Results
<1> QED BY <1>2, <1>4 DEF AcceptedInv

LEMMA NextSoundly ==
  ASSUME AcceptedInv, [Next]_vars, ~Open
  PROVE  Sound
<1>1. CASE Work
  BY <1>1, WorkSoundly
<1>2. CASE \E c \in Client : Handle(c) \/ Invoke(c)
  BY <1>2, CommandSoundly
<1>3. CASE SessionLost \/ Elsewhere \/ Die \/ UNCHANGED vars
  <2>1. UnPublished /\ op' = op /\ worker' = worker
    BY <1>3 DEF SessionLost, Elsewhere, Die, Trouble, observers, vars, UnPublished
  <2>2. BudgetStep
    BY <1>3 DEF SessionLost, Elsewhere, Die, Trouble, vars, BudgetStep, Spends
  <2>3. StatusOk' /\ WholeBatch'
    BY <2>1 DEF AcceptedInv, StatusOk, WholeBatch, UnPublished, Fatal, Terminal
  <2> QED BY <2>1, <2>2, <2>3, SilentSoundly
<1> QED BY <1>1, <1>2, <1>3 DEF Next

(* With it, that the records are sound is inductive.                        *)
THEOREM AcceptedInductive == Spec => []AcceptedInv
<1>1. Init => AcceptedInv
  <2> SUFFICES ASSUME Init
               PROVE  AcceptedInv
    OBVIOUS
  <2>1. IInv
    BY InitOk
  <2>2. BudgetOk
    BY BoundsAssumption DEF Init, BudgetOk
  <2>3. StatusOk /\ WholeBatch
    BY DEF Init, NoWorker, StatusOk, WholeBatch, Inert
  <2>4. Accounted(NoJob) /\ Consistent(NoJob)
    <3>1. LastCursor \in Nat
      BY SizesAssumption DEF LastCursor
    <3>2. Cardinality(Passed(0)) = 0 /\ Total \in Nat
      BY PassedCounts
    <3> QED BY <3>1, <3>2 DEF NoJob, Accounted, Consistent, Results, Terminal, TerminalStatus
  <2> QED BY <2>1, <2>2, <2>3, <2>4 DEF Init, AcceptedInv, StateOk, StoreOk
<1>2. AcceptedInv /\ IInv' /\ [Next]_vars => AcceptedInv'
  BY NextSoundly, AcceptedStep, OpenAccepted
<1> QED BY <1>1, <1>2, Inductive, PTL DEF Spec

(* The engine writes no record its own store refuses, whatever the plan and *)
(* its batches: a publication fails for a fault of the store, for a clock   *)
(* that was set back, or where the wait for a rate limit meets a            *)
(* cancellation.                                                            *)
THEOREM RecordsAreAccepted == Spec => OwnRecordsAreAccepted
<1>1. AcceptedInv /\ [Next]_vars =>
        (failed' /\ ~failed => \/ budget'.troubles < budget.troubles
                               \/ budget'.setbacks < budget.setbacks
                               \/ UndoesCancel)
  <2> SUFFICES ASSUME AcceptedInv, [Next]_vars, failed', ~failed
               PROVE  \/ budget'.troubles < budget.troubles
                      \/ budget'.setbacks < budget.setbacks
                      \/ UndoesCancel
    OBVIOUS
  <2>1. ~Open
    BY DEF Open
  <2>2. Spends \/ UndoesCancel
    BY <2>1, NextSoundly DEF Sound, Accepts
  <2>3. Spends => budget'.troubles < budget.troubles \/ budget'.setbacks < budget.setbacks
    BY DEF Spends, AcceptedInv, BudgetOk
  <2> QED BY <2>2, <2>3
<1> QED BY <1>1, AcceptedInductive, PTL DEF Spec, OwnRecordsAreAccepted

=============================================================================
