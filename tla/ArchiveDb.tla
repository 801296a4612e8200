----------------------------- MODULE ArchiveDb -----------------------------
(***************************************************************************)
(* The archive database (src/src-tauri/src/persistence/archive): the       *)
(* content of the encrypted SQLite file and what each operation of         *)
(* ArchiveStore makes of it.  An operation is one immediate transaction    *)
(* over the sole connection, so it is an operator that takes the content   *)
(* d and returns [db, error, reply]: the content after the commit and its    *)
(* reply, or d itself and the error that rolled the transaction back.      *)
(*                                                                         *)
(* One provider and one account.  A content row carries the conversation   *)
(* it is in and the content it replies to; authors and thread parents are  *)
(* observed and referenced the same way and are left out.  A digest is the *)
(* batch it was computed from.  Bytes, observation times, the full text    *)
(* index and the rows' encoding are left out.                              *)
(***************************************************************************)
EXTENDS Naturals, Sequences, FiniteSets, FiniteSetsExt, SequencesExt

CONSTANTS
    Source,        \* source identifiers
    Archive,         \* archive fingerprints
    Item,          \* content identifiers, numbers in the order of their UUIDs
    Context,       \* conversation identifiers, numbers likewise
    None,          \* no reply, no session, no failure code, no cursor
    MaxItems       \* ImportLimits::items

ASSUME ArchiveDbAssumption ==
    /\ Item \subseteq Nat /\ Context \subseteq Nat
    /\ None \notin Source \cup Archive \cup Item \cup Context
    /\ None \notin {"incomplete_source", "storage_failure"}
    /\ MaxItems \in Nat

\* A batch: its content rows, its conversation rows, the warnings its parser
\* counted, and the digest version of the call that appends it.  A batch that
\* names one identifier with two records is refused, and so is an empty one.
Row == [id : Item, context : Context, reply : Item \cup {None}, text : {1, 2}]
Talk == [id : Context, text : {1, 2}]
Ids(set) == {x.id : x \in set}
Empty(batch) == batch.contents = {} /\ batch.talks = {} /\ (batch.version = 1 \/ batch.warnings = 0)
WellFormed(batch) ==
    /\ Cardinality(Ids(batch.contents)) = Cardinality(batch.contents)
    /\ Cardinality(Ids(batch.talks)) = Cardinality(batch.talks)

\* What the columns hold.
Phases == {"none", "importing", "ready", "failed", "cancelled", "interrupted"}
BatchForm == [contents : SUBSET Row, talks : SUBSET Talk, warnings : Nat, version : 1..2]
Codes == {None, "incomplete_source", "storage_failure"}
RunForm == [phase : Phases, session : Nat \cup {None},
            code : Codes, rev : Nat, items : Nat,
            receipts : Seq([batch : BatchForm, items : Nat]), warned : Nat, missing : Nat]
States == {"absent", "preparing", "ready", "failed", "unavailable"}
SourceForm == [state : States, print : Archive \cup {None}, mapped : BOOLEAN]
DbForm == [account : BOOLEAN, source : [Source -> SourceForm], run : [Source -> RunForm],
           rows : [Source -> SUBSET Row], talks : [Source -> SUBSET Talk],
           identity : SUBSET ({"content", "conversation"} \X (Item \cup Context)),
           task : [Source -> {"none", "pending", "completed"}]]
\* The primary keys.
Keyed(set) == IsFiniteSet(set) /\ \A x, y \in set : x.id = y.id => x = y

NoSource == [state |-> "absent", print |-> None, mapped |-> FALSE]
NoRun == [phase |-> "none", session |-> None, code |-> None, rev |-> 0,
          items |-> 0, receipts |-> <<>>, warned |-> 0, missing |-> 0]
\* What schema::initialize creates.
EmptyDb == [account |-> FALSE,
            source |-> [s \in Source |-> NoSource],
            run |-> [s \in Source |-> NoRun],
            rows |-> [s \in Source |-> {}],
            talks |-> [s \in Source |-> {}],
            identity |-> {},
            task |-> [s \in Source |-> "none"]]

Refuse(d, error) == [db |-> d, error |-> error, reply |-> None]
Commit(d, reply) == [db |-> d, error |-> "ok", reply |-> reply]

Present(d, s) == d.source[s].state # "absent"

\* The resources a source's rows name: each must have an identity if observed,
\* and the identity of each is kept while a row names it.
Observed(d, s) == {<<"content", i>> : i \in Ids(d.rows[s])}
                  \cup {<<"conversation", c>> : c \in Ids(d.talks[s])}
Named(d, s) == Observed(d, s)
               \cup {<<"conversation", r.context>> : r \in d.rows[s]}
               \cup {<<"content", r.reply>> : r \in {x \in d.rows[s] : x.reply # None}}

StateOf(phase) == CASE phase = "importing" -> "preparing"
                    [] phase = "ready" -> "ready"
                    [] phase = "failed" -> "failed"
                    [] OTHER -> "unavailable"

\* save_run and set_source_phase: every change of phase goes through both, and
\* save_run alone raises the revision.
SaveRun(d, s, run) == [d EXCEPT !.run[s] = [run EXCEPT !.rev = @ + 1]]
Move(d, s, run) == [SaveRun(d, s, run) EXCEPT !.source[s].state = StateOf(run.phase)]
-----------------------------------------------------------------------------
\* Registration and the import session

Account(d) == [d EXCEPT !.account = TRUE]

CreateRun(d, s, session) ==
    [d EXCEPT !.run[s] = [NoRun EXCEPT !.phase = "importing", !.session = session]]

MappedTo(d, print) == {s \in Source : d.source[s].mapped /\ d.source[s].print = print}

\* The archive is looked up by its fingerprint; a new one gets a source, its
\* mapping, a run and a session in the same transaction.  fresh is the UUID
\* just made.
ResolveOrRegister(d, print, fresh, session) ==
    IF MappedTo(d, print) # {}
    THEN LET s == CHOOSE x \in MappedTo(d, print) : TRUE
             phase == d.run[s].phase
         IN Commit(d, [source |-> s,
                       disposition |-> CASE phase = "ready" -> "ready"
                                         [] phase = "importing" -> "busy"
                                         [] OTHER -> "retry",
                       checkpoint |-> d.run[s]])
    ELSE LET new == [Account(d) EXCEPT !.source[fresh] =
                        [state |-> "preparing", print |-> print, mapped |-> TRUE]]
             begun == CreateRun(new, fresh, session)
         IN Commit(begun, [source |-> fresh, disposition |-> "start",
                           checkpoint |-> begun.run[fresh]])

RegisterSource(d, s, print) ==
    IF d.task[s] # "none" THEN Refuse(d, "InvalidRecord")
    ELSE IF Present(d, s)
    THEN IF d.source[s].print = print THEN Commit(d, None) ELSE Refuse(d, "InvalidRecord")
    ELSE Commit([Account(d) EXCEPT !.source[s] =
                    [state |-> "preparing", print |-> print, mapped |-> FALSE]], None)

BeginImport(d, s, session) ==
    IF ~Present(d, s) THEN Refuse(d, "ScopeMismatch")
    ELSE IF d.source[s].state # "preparing" \/ d.run[s] # NoRun THEN Refuse(d, "StaleCursor")
    ELSE Commit(CreateRun(d, s, session), None)

\* Mutant: any session of the source will do while its import runs.
ActiveSession_AnyHolder(d, k) ==
    IF ~Present(d, k.source) THEN "ScopeMismatch"
    ELSE IF d.run[k.source].phase # "importing" THEN "StaleCursor" ELSE "ok"

\* What a session must still be to write: "ok" or the error.
ActiveSession(d, k) ==
    IF ~Present(d, k.source) THEN "ScopeMismatch"
    ELSE IF d.source[k.source].print # k.print \/ d.run[k.source] = NoRun THEN "StaleCursor"
    ELSE IF d.run[k.source].session # k.id THEN "StaleCursor"
    ELSE IF d.run[k.source].phase = "cancelled" THEN "Cancelled"
    ELSE IF d.run[k.source].phase # "importing" THEN "StaleCursor" ELSE "ok"
\* Same record identifier, different record.
Conflicts(new, old) == \E x \in new, y \in old : x.id = y.id /\ x # y
Upsert(old, new) == {y \in old : y.id \notin Ids(new)} \cup new

\* Only rows not yet there count as items.
NewItems(d, s, batch) == Cardinality(Ids(batch.contents) \ Ids(d.rows[s]))

Receipt(batch, items) == [batch |-> batch, items |-> items]

\* The rows, their identities, the receipt, the warnings and the progress of a
\* batch commit together.
AppendRows(d, s, batch) ==
    LET run == d.run[s]
        items == run.items + NewItems(d, s, batch)
        written == [d EXCEPT !.rows[s] = Upsert(@, batch.contents),
                             !.talks[s] = Upsert(@, batch.talks),
                             !.identity = @ \cup {<<"content", i>> : i \in Ids(batch.contents)}
                                            \cup {<<"conversation", c>> : c \in Ids(batch.talks)}]
    IN SaveRun(written, s, [run EXCEPT !.items = items,
                                       !.receipts = Append(@, Receipt(batch, items)),
                                       !.warned = @ + batch.warnings])

\* append_batch and append_batch_v2.  A repeated sequence number gets its
\* receipt back if it carries the same batch; only the next one is written.
AppendBatch(d, k, sequence, batch) ==
    LET run == d.run[k.source]
        next == Len(run.receipts)
    IN IF Empty(batch) THEN Refuse(d, "InvalidRecord")
       ELSE IF ActiveSession(d, k) # "ok" THEN Refuse(d, ActiveSession(d, k))
       ELSE IF sequence < next /\ run.receipts[sequence + 1].batch = batch
       THEN Commit(d, [items |-> run.receipts[sequence + 1].items, next |-> sequence + 1])
       ELSE IF sequence # next THEN Refuse(d, "StaleCursor")
       ELSE IF ~WellFormed(batch) THEN Refuse(d, "InvalidRecord")
       ELSE IF batch.version = 2 /\ (Conflicts(batch.talks, d.talks[k.source])
                                     \/ Conflicts(batch.contents, d.rows[k.source]))
       THEN Refuse(d, "ConflictingObservation")
       ELSE IF run.items + NewItems(d, k.source, batch) > MaxItems
       THEN Refuse(d, "LimitExceeded")
       ELSE LET after == AppendRows(d, k.source, batch)
            IN Commit(after, [items |-> after.run[k.source].items, next |-> sequence + 1])

\* missing_mandatory_observations, and the references collect_warnings counts.
Incomplete(d, s) == \E r \in d.rows[s] : r.context \notin Ids(d.talks[s])
MissingReplies(d, s) ==
    Cardinality({r \in d.rows[s] : r.reply # None /\ r.reply \notin Ids(d.rows[s])})

\* An incomplete source is committed as failed, and reported as an error.
FinishImport(d, k) ==
    IF ActiveSession(d, k) # "ok" THEN Refuse(d, ActiveSession(d, k))
    ELSE LET missing == Incomplete(d, k.source)
             run == [d.run[k.source] EXCEPT !.phase = IF missing THEN "failed" ELSE "ready",
                                            !.code = IF missing THEN "incomplete_source" ELSE None,
                                            !.missing = MissingReplies(d, k.source)]
         IN [db |-> Move(d, k.source, run), reply |-> None,
             error |-> IF missing THEN "IncompleteSource" ELSE "ok"]

CancelImport(d, k) ==
    IF ActiveSession(d, k) # "ok" THEN Refuse(d, ActiveSession(d, k))
    ELSE Commit(Move(d, k.source, [d.run[k.source] EXCEPT !.phase = "cancelled"]), None)

FailImport(d, k, code) ==
    IF ActiveSession(d, k) # "ok" THEN Refuse(d, ActiveSession(d, k))
    ELSE Commit(Move(d, k.source, [d.run[k.source] EXCEPT !.phase = "failed", !.code = code]), None)

\* validate_checkpoint_integrity and validate_warning_ledger
Warnings(receipts) ==
    LET total[i \in 0..Len(receipts)] ==
            IF i = 0 THEN 0 ELSE total[i - 1] + receipts[i].batch.warnings
    IN total[Len(receipts)]
Sums(run) == Warnings(run.receipts) = run.warned
Integrity(d, s) ==
    LET run == d.run[s]
        items == [i \in 0..Len(run.receipts) |-> IF i = 0 THEN 0 ELSE run.receipts[i].items]
    IN /\ Cardinality(d.rows[s]) = run.items
       /\ \A i \in 1..Len(run.receipts) : items[i - 1] <= items[i]
       /\ items[Len(run.receipts)] = run.items
       /\ Sums(run)

\* A checkpoint read earlier is the authority to retry: nothing of the run may
\* have changed since.
RetryImport(d, s, checkpoint, session) ==
    IF ~Present(d, s) \/ d.run[s] = NoRun THEN Refuse(d, "StaleCursor")
    ELSE IF d.run[s] # checkpoint \/ checkpoint.phase \notin {"interrupted", "cancelled", "failed"}
    THEN Refuse(d, "StaleCursor")
    ELSE IF ~Integrity(d, s) THEN Refuse(d, "InvalidStore")
    ELSE Commit(Move(d, s, [d.run[s] EXCEPT !.session = session, !.phase = "importing",
                                            !.code = None]), None)

\* import_status: the checkpoint, or None when the source has no run.
ImportStatus(d, s, print) ==
    IF ~Present(d, s) THEN Refuse(d, "ScopeMismatch")
    ELSE IF d.source[s].print # print THEN Refuse(d, "StaleCursor")
    ELSE Commit(d, IF d.run[s] = NoRun THEN None ELSE d.run[s])

\* Mutant: the run is interrupted, its source stays as it was.
InterruptRuns_RunOnly(d) ==
    [d EXCEPT !.run = [s \in Source |->
        IF d.run[s].phase = "importing" THEN [d.run[s] EXCEPT !.phase = "interrupted", !.rev = @ + 1]
        ELSE d.run[s]]]
\* The first write of an accepted store: no import survives its process.
InterruptRuns(d) ==
    LET live == {s \in Source : d.run[s].phase = "importing"}
    IN [d EXCEPT !.run = [s \in Source |->
                    IF s \in live THEN [d.run[s] EXCEPT !.phase = "interrupted", !.rev = @ + 1]
                    ELSE d.run[s]],
                 !.source = [s \in Source |->
                    IF s \in live THEN [d.source[s] EXCEPT !.state = "unavailable"]
                    ELSE d.source[s]]]
-----------------------------------------------------------------------------
\* Removal

\* The tombstone, the cascades, the identities nothing names any more and the
\* account nothing belongs to any more, in one transaction.
RemoveSource(d, s) ==
    IF d.task[s] # "none" \/ ~Present(d, s) THEN d
    ELSE LET gone == [d EXCEPT !.task[s] = "pending", !.source[s] = NoSource, !.run[s] = NoRun,
                               !.rows[s] = {}, !.talks[s] = {}]
             kept == gone.identity \cap UNION {Named(gone, x) : x \in Source}
         IN [gone EXCEPT !.identity = kept,
                         !.account = (\E x \in Source : Present(gone, x)) \/ kept # {}]
\* Compaction succeeded: the tombstone is completed.
RetryCleanup(d, s) == IF d.task[s] = "pending" THEN [d EXCEPT !.task[s] = "completed"] ELSE d
-----------------------------------------------------------------------------
\* Queries

Ready(d, s) == d.source[s].state = "ready" /\ d.run[s].phase = "ready"


\* Two contents may carry the same timestamp; the identifier breaks the tie.
Time(i) == (i + 1) \div 2
\* Mutant: the identifier does not break the tie.
Before_TimeOnly(i, j) == Time(i) < Time(j)
Before(i, j) == \/ Time(i) < Time(j)
                \/ Time(i) = Time(j) /\ i < j

\* A query names a source and a kind of record, and for contents the
\* conversations it is limited to.
Matching(d, q) ==
    IF q.kind = "conversation" THEN Ids(d.talks[q.source])
    ELSE Ids({r \in d.rows[q.source] : r.context \in q.within})
Earlier(q, i, j) == IF q.kind = "conversation" THEN i < j ELSE Before(i, j)

Newest(q, set) ==
    CHOOSE s \in [1..Cardinality(set) -> set] :
        /\ \A i, j \in DOMAIN s : i < j => ~Earlier(q, s[i], s[j])
        /\ ToSet(s) = set

\* One page: at most limit records after the cursor, newest first, and a
\* cursor bound to the query and to the run's generation if there are more.
Generation(d, s) == [source |-> s, rev |-> d.run[s].rev]
Page(d, q, cursor, limit) ==
    IF ~Ready(d, q.source)
    THEN Refuse(d, IF cursor = None THEN "IncompleteSource" ELSE "StaleCursor")
    ELSE IF cursor # None /\ (cursor.query # q \/ cursor.generation # Generation(d, q.source))
    THEN Refuse(d, "StaleCursor")
    ELSE LET rest == {i \in Matching(d, q) : cursor = None \/ Earlier(q, i, cursor.last)}
             newest == Newest(q, rest)
             taken == SubSeq(newest, 1, IF Len(newest) < limit THEN Len(newest) ELSE limit)
         IN Commit(d, [items |-> taken,
                       cursor |-> IF Len(newest) <= limit THEN None
                                  ELSE [query |-> q, generation |-> Generation(d, q.source),
                                        last |-> taken[limit]]])
-----------------------------------------------------------------------------
\* Validation, run on every open: foreign keys, registrations, runs and import
\* identities.
ForeignKeys(d) ==
    /\ d.identity # {} => d.account
    /\ \A s \in Source :
          /\ Observed(d, s) \subseteq d.identity
          /\ ~Present(d, s) => d.run[s] = NoRun /\ d.rows[s] = {} /\ d.talks[s] = {}
Registered(d) == \A s \in Source : Present(d, s) => d.account
RunLoads(d, s) ==
    /\ d.run[s].phase = "failed" <=> d.run[s].code # None
    /\ d.run[s].items <= MaxItems
RunsHold(d) ==
    \A s \in Source : d.run[s] # NoRun =>
        RunLoads(d, s) /\ Integrity(d, s) /\ d.source[s].state = StateOf(d.run[s].phase)
ImportIdentities(d) == \A s \in Source : d.source[s].mapped => d.run[s] # NoRun
Validates(d) == ForeignKeys(d) /\ Registered(d) /\ RunsHold(d) /\ ImportIdentities(d)
=============================================================================
