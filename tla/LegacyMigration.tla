--------------------------- MODULE LegacyMigration ---------------------------
(***************************************************************************)
(* What becomes of the store of an earlier version                         *)
(* (persistence/migration.rs): its plans are dropped, and each of its jobs *)
(* turns into an entry of a history that nothing executes; and the         *)
(* validation that every loaded store passes (persistence/model.rs), here  *)
(* of a store that holds nothing but such a history.  The files, their     *)
(* backup and a crash between them are those of FoundationStore.  An       *)
(* operator named X_Y is X with a mistake.                                 *)
(***************************************************************************)
EXTENDS Integers, Sequences, FiniteSets, SequencesExt

CONSTANTS
    LegacyPlans,   \* lists of [id, operation]; 0 is the nil identifier
    LegacyJobs     \* lists of [id, plan, operation, status, deleted, uncertain, codes, created, updated];
                   \* a code is [name, prefixed], prefixed with "telegram_" or not

\* The stores a job list is read from: lists, whose jobs have one of the six statuses.
ASSUME LegacyMigrationAssumption ==
    \A jobs \in LegacyJobs :
      /\ DOMAIN jobs = 1..Len(jobs) /\ Len(jobs) \in Nat
      /\ \A n \in DOMAIN jobs :
           /\ jobs[n].status \in {"queued", "running", "completed", "partial", "failed", "cancelled"}
           /\ jobs[n].deleted \in Nat /\ jobs[n].created \in Int /\ jobs[n].updated \in Int
           /\ DOMAIN jobs[n].codes = 1..Len(jobs[n].codes) /\ Len(jobs[n].codes) \in Nat

VARIABLES
    earlier,        \* the store as it was: its plans and jobs
    migrated       \* none, refused, or the history it became

migrationVars == <<earlier, migrated>>

NothingMigrated == [result |-> "none", history |-> <<>>]
Refused == [result |-> "refused", history |-> <<>>]

MigrationInit == /\ \E plans \in LegacyPlans, jobs \in LegacyJobs : earlier = [plans |-> plans, jobs |-> jobs]
                 /\ migrated = NothingMigrated
MigrationIdle == earlier = [plans |-> <<>>, jobs |-> <<>>] /\ migrated = [NothingMigrated EXCEPT !.result = "idle"]
-----------------------------------------------------------------------------
Unfinished == {"queued", "running"}
Review == "migration_requires_new_review"

Distinct(list) == IsInjective([n \in DOMAIN list |-> list[n].id])
SoundPlans(plans) == Distinct(plans) /\ \A n \in DOMAIN plans : plans[n].id # 0
SoundJobs(plans, jobs) ==
    /\ Distinct(jobs)
    /\ \A n \in DOMAIN jobs :
         /\ jobs[n].id # 0 /\ jobs[n].plan # 0 /\ jobs[n].updated >= jobs[n].created
         /\ \E p \in ToSet(plans) : p.id = jobs[n].plan /\ p.operation = jobs[n].operation

\* What had not ended has failed, or is partial once something was deleted.
TerminalStatus_Failed(job) == IF job.status \in Unfinished THEN "failed" ELSE job.status
TerminalStatus(job) ==
    IF job.status \in Unfinished THEN IF job.deleted > 0 THEN "partial" ELSE "failed"
    ELSE job.status

\* safe_legacy_code: a code this version does not know is dropped, with or without the
\* prefix; the others stay in their order.
KnownCodes ==
    {"authentication_required", "permission_changed", "not_found", "already_removed", "rate_limited",
     "cost_limit_reached", "transient", "permanent", "ambiguous_outcome", "unsupported_schema",
     "invalid_archive", "scope_mismatch", "stale_context", "identity_unavailable", Review,
     "restart_requires_new_review"}
Safe(codes) == {n \in DOMAIN codes : codes[n].name \in KnownCodes}
SafeCodes(codes) ==
    LET places == CHOOSE s \in [1..Cardinality(Safe(codes)) -> Safe(codes)] :
                      /\ ToSet(s) = Safe(codes)
                      /\ \A k, l \in DOMAIN s : k < l => s[k] < s[l]
    IN [k \in 1..Cardinality(Safe(codes)) |-> codes[places[k]].name]

Diagnostics(job) ==
    LET known == SafeCodes(job.codes)
    IN IF job.status \in Unfinished /\ Review \notin ToSet(known) THEN Append(known, Review) ELSE known

\* The count of uncertain outcomes has no place in the history.
HistoryOf(job) ==
    [id |-> job.id, plan |-> job.plan, operation |-> job.operation, status |-> TerminalStatus(job),
     deleted |-> job.deleted, diagnostics |-> Diagnostics(job), created |-> job.created,
     updated |-> job.updated, executable |-> FALSE]

\* FoundationState::validate, of the history.
ValidHistory(history) ==
    /\ Distinct(history)
    /\ \A n \in DOMAIN history :
         /\ ~history[n].executable /\ history[n].id # 0 /\ history[n].plan # 0
         /\ history[n].updated >= history[n].created
         /\ Review \in ToSet(history[n].diagnostics) => history[n].status \in {"failed", "partial"}

Migrate(plans, jobs) ==
    LET history == [n \in DOMAIN jobs |-> HistoryOf(jobs[n])]
    IN IF SoundPlans(plans) /\ SoundJobs(plans, jobs) /\ ValidHistory(history)
       THEN [result |-> "migrated", history |-> history]
       ELSE Refused

MigrationNext == /\ migrated = NothingMigrated
                 /\ migrated' = Migrate(earlier.plans, earlier.jobs)
                 /\ UNCHANGED earlier

MigrationSpec == MigrationInit /\ [][MigrationNext]_migrationVars
-----------------------------------------------------------------------------
\* Every job of an earlier version is found in the history once, with what it deleted; one
\* that had not ended says that it needs a new review, and is partial exactly if it deleted
\* something.  A store is refused only for plans or jobs that contradict each other, or for a
\* job that ended well and yet asks for a new review; so what an earlier version can have
\* written is never lost on the way.
MigrationKeepsHistory ==
    /\ migrated.result = "migrated" =>
         /\ Len(migrated.history) = Len(earlier.jobs)
         /\ \A job \in ToSet(earlier.jobs) : Cardinality(
               {n \in DOMAIN migrated.history :
                  LET entry == migrated.history[n]
                  IN /\ entry.id = job.id /\ entry.deleted = job.deleted /\ ~entry.executable
                     /\ entry.status \in {"completed", "partial", "failed", "cancelled"}
                     /\ job.status \in Unfinished =>
                          /\ Review \in ToSet(entry.diagnostics)
                          /\ (entry.status = "partial") = (job.deleted > 0)
                     /\ job.status \notin Unfinished =>
                          entry.status = job.status /\ Len(entry.diagnostics) <= Len(job.codes)}) = 1
    /\ migrated.result = "refused" =>
         \/ \E n, k \in DOMAIN earlier.plans : n # k /\ earlier.plans[n].id = earlier.plans[k].id
         \/ \E n, k \in DOMAIN earlier.jobs : n # k /\ earlier.jobs[n].id = earlier.jobs[k].id
         \/ \E p \in ToSet(earlier.plans) : p.id = 0
         \/ \E job \in ToSet(earlier.jobs) :
               \/ job.id = 0 \/ job.updated < job.created
               \/ \A p \in ToSet(earlier.plans) : <<p.id, p.operation>> # <<job.plan, job.operation>>
               \/ job.status \in {"completed", "cancelled"} /\ \E n \in DOMAIN job.codes : job.codes[n].name = Review
=============================================================================
