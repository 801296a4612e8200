---------------------------- MODULE ArchiveStore ----------------------------
(***************************************************************************)
(* ArchiveStore over its file: opening (creation, preflight, upgrade of a  *)
(* version 1 file through a candidate), the operations its worker executes *)
(* one at a time, and death at any point.  The import sessions it issues   *)
(* are capabilities held by callers; a caller may keep using one after     *)
(* anything has happened to its import, and may raise its cancellation     *)
(* flag at any time, without the worker.                                   *)
(*                                                                         *)
(* A transaction either commits durably or leaves the content unchanged;   *)
(* a death inside one may leave a rollback journal, which the next open    *)
(* recovers.  A second process is kept out by the lock file.               *)
(***************************************************************************)
EXTENDS ArchiveDb

CONSTANTS
    Legacy,        \* the contents a version 1 file may have
    Batch,         \* the batches callers append
    Query,         \* the queries a reader pages through
    PageSize,      \* the limit of a page
    MaxSessions,   \* sessions issued in a behaviour
    MaxBatches     \* batches committed to one run

\* What a page is continued from.
Cursor == [query : Query, generation : [source : Source, rev : Nat], last : Item \cup Context]

ASSUME ArchiveStoreAssumption ==
    /\ None \notin Cursor
    /\ PageSize \in Nat \ {0} /\ MaxSessions \in Nat /\ MaxBatches \in Nat
    /\ \A b \in Batch : b \in BatchForm /\ IsFiniteSet(b.contents) /\ IsFiniteSet(b.talks)
    /\ \A q \in Query : q.source \in Source
    /\ \A d \in Legacy :
         /\ d \in DbForm
         /\ \A s \in Source :
               /\ Keyed(d.rows[s]) /\ Keyed(d.talks[s])
               /\ d.run[s] = NoRun => d.rows[s] = {}
               /\ Present(d, s) => d.task[s] = "none"

VARIABLES
    active,        \* the database file: "absent", "empty", "v1" or "v2"
    db,            \* its content
    journal,       \* a rollback journal lies beside it
    candidate,     \* the .migration file: "none", "partial" or "done"
    pc,            \* the process's store: "closed", a step of open, "open" or "failed"
    made,          \* sessions issued so far
    issued,        \* the sessions callers of this process hold
    flagged,       \* the sessions whose cancellation flag is raised
    revoked,       \* observer: sessions cancelled, ended or lost with their process
    writer,        \* observer: the session of the append just executed
    held,          \* a checkpoint some caller has read: [source, run], or None
    pager          \* a reader's query, what it has seen and its cursor, or None

file == <<active, db, journal, candidate>>
vars == <<active, db, journal, candidate, pc, made, issued, flagged, revoked, writer, held, pager>>

\* A version 1 file has no mappings and no failure codes; populate_v2 copies it
\* and gives each failed run the code it could have failed with.
Upgraded(d) == [d EXCEPT !.run = [s \in Source |->
    IF d.run[s].phase = "failed" THEN [d.run[s] EXCEPT !.code = "incomplete_source"] ELSE d.run[s]]]

\* The result of a query read to its end is looked at once.
Reading == IF pager = None \/ pager.cursor = None THEN None ELSE pager

Init ==
    /\ \/ active = "absent" /\ db = EmptyDb /\ journal = FALSE
       \/ active = "v1" /\ db \in Legacy /\ journal \in BOOLEAN
    /\ candidate = "none" /\ pc = "closed"
    /\ made = 0 /\ issued = {} /\ flagged = {} /\ revoked = {}
    /\ writer = None /\ held = None /\ pager = None
-----------------------------------------------------------------------------
\* Opening

Callers == <<made, issued, flagged, revoked, held, pager>>
Opening(step) == pc = step /\ writer' = None /\ UNCHANGED Callers

\* An interrupted upgrade is never taken for a missing store.
OpenAbsent ==
    /\ Opening("closed") /\ active = "absent"
    /\ IF candidate # "none" THEN pc' = "failed" /\ active' = active
       ELSE pc' = "created" /\ active' = "empty"
    /\ UNCHANGED <<db, journal, candidate>>

\* An empty file is refused, and so is one the preflight does not validate; the
\* original is not written before it has passed.
OpenExisting ==
    /\ Opening("closed") /\ active \in {"empty", "v2"}
    /\ pc' = IF active = "v2" /\ Validates(db) THEN "validated" ELSE "failed"
    /\ UNCHANGED file

\* A version 1 file must be clean and without an earlier candidate.
OpenLegacy ==
    /\ Opening("closed") /\ active = "v1"
    /\ IF journal \/ candidate # "none" \/ ~Validates(Upgraded(db))
       THEN pc' = "failed" /\ candidate' = candidate
       ELSE pc' = "migrating" /\ candidate' = "partial"
    /\ UNCHANGED <<active, db, journal>>

Initialize ==
    /\ Opening("created")
    /\ active' = "v2" /\ db' = EmptyDb /\ pc' = "validated"
    /\ UNCHANGED <<journal, candidate>>

\* The candidate is populated, reopened, validated and synced.
CandidateDone ==
    /\ Opening("migrating") /\ candidate = "partial"
    /\ candidate' = "done"
    /\ UNCHANGED <<active, db, journal, pc>>

\* The rename is the commit point: what fails after it leaves the new file.
Replace ==
    /\ Opening("migrating") /\ candidate = "done"
    /\ active' = "v2" /\ db' = Upgraded(db) /\ candidate' = "none"
    /\ pc' \in {"validated", "failed"}
    /\ UNCHANGED journal

OpenFinish ==
    /\ Opening("validated")
    /\ db' = InterruptRuns(db) /\ journal' = FALSE /\ pc' = "open"
    /\ UNCHANGED <<active, candidate>>

\* A key that cannot be read, an input or output error.
OpenFails ==
    /\ pc \in {"closed", "created", "migrating", "validated"} /\ Opening(pc)
    /\ pc' = "failed"
    /\ UNCHANGED file

\* The process ends, in order or not; a failed open is final for its process.
Die ==
    /\ pc # "closed" /\ pager' = Reading
    /\ pc' = "closed" /\ journal' \in {journal, journal \/ pc = "open"}
    /\ revoked' = revoked \cup {k.id : k \in issued}
    /\ issued' = {} /\ flagged' = {} /\ held' = None /\ writer' = None
    /\ UNCHANGED <<active, db, candidate, made>>
-----------------------------------------------------------------------------
\* The worker's commands

\* A command: its transaction's outcome, and who wrote. 
Serve(result, who) ==
    /\ pc = "open"
    /\ db' = result.db /\ writer' = who
    /\ UNCHANGED <<active, journal, candidate, pc>>
Execute(result, who) == Serve(result, who) /\ pager' = Reading

Issue(s, print) ==
    /\ made < MaxSessions /\ made' = made + 1
    /\ issued' = issued \cup {[id |-> made + 1, source |-> s, print |-> print]}
    /\ UNCHANGED <<flagged, revoked>>
Quiet == UNCHANGED <<made, issued, flagged, revoked, held>>

Unused(s) == ~Present(db, s) /\ db.task[s] = "none"
Resolve(print) ==
    \E fresh \in Source :
        LET result == ResolveOrRegister(db, print, fresh, made + 1)
            s == result.reply.source
        IN /\ MappedTo(db, print) = {} => Unused(fresh)
           /\ Execute(result, None)
           /\ held' = IF result.reply.disposition = "retry"
                      THEN [source |-> s, run |-> result.reply.checkpoint] ELSE held
           /\ IF result.reply.disposition = "start" THEN Issue(s, print)
              ELSE UNCHANGED <<made, issued, flagged, revoked>>

Register(s, print) == Execute(RegisterSource(db, s, print), None) /\ Quiet

Begin(s) ==
    LET result == BeginImport(db, s, made + 1)
    IN /\ Execute(result, None) /\ held' = held
       /\ IF result.error = "ok" THEN Issue(s, db.source[s].print)
          ELSE UNCHANGED <<made, issued, flagged, revoked>>

\* Only the checkpoint of an import that may be retried is worth keeping.
Status(s) ==
    /\ db.run[s].phase \in {"interrupted", "cancelled", "failed"}
    /\ Execute(ImportStatus(db, s, db.source[s].print), None)
    /\ held' = [source |-> s, run |-> db.run[s]]
    /\ UNCHANGED <<made, issued, flagged, revoked>>

Retry ==
    /\ held # None
    /\ LET result == RetryImport(db, held.source, held.run, made + 1)
       IN /\ Execute(result, None) /\ held' = held
          /\ IF result.error = "ok" THEN Issue(held.source, db.source[held.source].print)
             ELSE UNCHANGED <<made, issued, flagged, revoked>>

\* The flag is read when the command starts and again before its commit.
Flagged(k) == k.id \in flagged
AppendCall(k, sequence, batch) ==
    /\ sequence < MaxBatches /\ ~Flagged(k)
    /\ Execute(AppendBatch(db, k, sequence, batch), k.id)
    /\ Quiet

\* The session is over, for its caller, once a call that ends it has returned.
Ends(k, result) ==
    /\ Execute(result, None)
    /\ revoked' = IF result.error \in {"ok", "IncompleteSource"} THEN revoked \cup {k.id} ELSE revoked
    /\ UNCHANGED <<made, issued, flagged, held>>
Finish(k) == ~Flagged(k) /\ Ends(k, FinishImport(db, k))
Cancel(k) == Ends(k, CancelImport(db, k))
Fail(k) == Ends(k, FailImport(db, k, "storage_failure"))

\* ImportCancellation::cancel: an atomic store, in the caller's thread.  (Of a
\* session already ended it changes nothing.)
Raise(k) ==
    /\ pc = "open" /\ k.id \notin revoked
    /\ flagged' = flagged \cup {k.id} /\ revoked' = revoked \cup {k.id}
    /\ writer' = None /\ pager' = Reading
    /\ UNCHANGED <<file, pc, made, issued, held>>

\* The removal commits, then compaction is tried; it may fail.
RemoveCall(s) ==
    /\ Present(db, s)
    /\ \E compacted \in BOOLEAN :
          LET removed == RemoveSource(db, s)
          IN Execute([db |-> IF compacted THEN RetryCleanup(removed, s) ELSE removed], None)
    /\ Quiet
Cleanup(s) ==
    /\ db.task[s] = "pending"
    /\ Execute([db |-> RetryCleanup(db, s)], None)
    /\ Quiet
-----------------------------------------------------------------------------
\* A reader

ReadFirst(q) ==
    LET page == Page(db, q, None, PageSize).reply
    IN /\ Reading = None /\ page # None
       /\ Serve([db |-> db], None)
       /\ pager' = [query |-> q, cursor |-> page.cursor, seen |-> page.items,
                    whole |-> Matching(db, q)]
       /\ UNCHANGED <<made, issued, flagged, revoked, held>>

\* The cursor may come back with another query, after a restart, or after the
\* source has gone.
ReadNext(q) ==
    /\ pager # None /\ pager.cursor # None
    /\ LET page == Page(db, q, pager.cursor, PageSize).reply
       IN pager' = IF page = None THEN None
                   ELSE [pager EXCEPT !.cursor = page.cursor, !.seen = @ \o page.items]
    /\ Serve([db |-> db], None)
    /\ UNCHANGED <<made, issued, flagged, revoked, held>>
-----------------------------------------------------------------------------
Commands ==
    \/ \E print \in Archive : Resolve(print)
    \/ \E s \in Source, print \in Archive : Register(s, print)
    \/ \E s \in Source : Begin(s) \/ Status(s) \/ RemoveCall(s) \/ Cleanup(s)
    \/ Retry
    \/ \E k \in issued, n \in 0..MaxBatches, b \in Batch : AppendCall(k, n, b)
    \/ \E k \in issued : Finish(k) \/ Cancel(k) \/ Fail(k) \/ Raise(k)
    \/ \E q \in Query : ReadFirst(q) \/ ReadNext(q)

Next == OpenAbsent \/ OpenExisting \/ OpenLegacy \/ Initialize \/ CandidateDone \/ Replace
        \/ OpenFinish \/ OpenFails \/ Die \/ Commands

Spec == Init /\ [][Next]_vars
-----------------------------------------------------------------------------
\* Every content the store commits is one its own validation accepts at the
\* next open: no sequence of imports, failures, retries, removals, upgrades and
\* deaths makes a store that can never be opened again.
\* (A file left empty by a death during its creation, and a version 1 file with
\* a journal or a leftover candidate, are refused by design.)
StoreReopens == active = "v2" => Validates(db)

\* The rows of a source change only by its removal, or by an append of the
\* session that holds its run, which then adds one receipt; never by a session
\* that was cancelled, ended, superseded or lost with its process, and never by
\* an upgrade or an open.
RowsAreTheSessions ==
    [][\A s \in Source : db'.rows[s] # db.rows[s] =>
          \/ db'.task[s] # "none" /\ db'.rows[s] = {}
          \/ \E k \in issued \ {x \in issued : x.id \in revoked} :
                /\ k.source = s /\ k.id = writer'
                /\ Len(db'.run[s].receipts) = Len(db.run[s].receipts) + 1]_vars

\* A query read page by page to its end has returned every matching record of
\* one published generation exactly once, newest first.
PagingIsExact ==
    pager # None /\ pager.cursor = None =>
        /\ ToSet(pager.seen) = pager.whole
        /\ \A i \in 1..(Len(pager.seen) - 1) : Earlier(pager.query, pager.seen[i + 1], pager.seen[i])
=============================================================================
