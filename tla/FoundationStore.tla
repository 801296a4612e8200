--------------------------- MODULE FoundationStore ---------------------------
(***************************************************************************)
(* The encrypted job store of persistence/foundation_store.rs: opening a    *)
(* profile under its lock, migrating a legacy store behind an exact backup, *)
(* and transactions that write a candidate, verify it, rename it over the   *)
(* active file and sync the directory.                                      *)
(*                                                                          *)
(* A state is the set of changes made to it, Imported for the records of a  *)
(* legacy store among them, and a file is absent, partly written, the       *)
(* legacy ciphertext or such a state.                                       *)
(* The directory has the entries the processes see, and for each entry what *)
(* a loss of power may leave of it; a file that was synced keeps its        *)
(* content, an entry is certain only after the directory was synced, which  *)
(* does not sync the content of a file.  The calls on one store exclude     *)
(* each other (its state is behind a mutex), so a process has one in        *)
(* progress at most.  The file system is external.                          *)
(*                                                                          *)
(* An operator named X_Y, with X the definition that follows it, is X with  *)
(* a mistake: the mutants that show each property is able to fail.          *)
(***************************************************************************)
EXTENDS Integers, FiniteSets

CONSTANTS
  Process,     \* processes that open the profile
  Change,      \* what transactions do to the state, each once
  None,        \* no process, no change
  Imported,    \* the records a legacy store holds
  MaxFaults,   \* bound: failures of the file system
  MaxDeaths    \* bound: deaths of a process and losses of power

ASSUME StoreAssumption ==
  /\ None \notin Process \cup Change /\ Imported \notin Change
  /\ MaxFaults \in Nat /\ MaxDeaths \in Nat

VARIABLES
  dir,        \* the directory as processes see it
  disk,       \* what a loss of power may leave of each entry
  lock,       \* the process that holds the profile lock
  proc,       \* each process: program counter, RuntimeState and locals
  faults,     \* failures left
  deaths,     \* deaths left
  acked,      \* observer: changes reported as saved
  refused,    \* observer: changes reported as not saved
  adopted     \* observer: an opening went on with a backup that was not synced

vars == <<dir, disk, lock, proc, faults, deaths, acked, refused, adopted>>

Name == {"active", "candidate", "backup"}
Content == SUBSET (Change \cup {Imported})
Absent  == [kind |-> "absent", has |-> {}]
Partial == [kind |-> "partial", has |-> {}]
Legacy  == [kind |-> "legacy", has |-> {Imported}]
V3(s)   == [kind |-> "v3", has |-> s]

Down == [pc |-> "down", committed |-> {}, reload |-> FALSE, change |-> None, next |-> {}]
At(p, pc) == proc[p].pc = pc
Goto(p, pc) == proc' = [proc EXCEPT ![p].pc = pc]

-----------------------------------------------------------------------------
(* The file system.                                                         *)

(* A new entry, or new content that is not synced.                          *)
Put(n, f) ==
  /\ dir'  = [dir EXCEPT ![n] = f]
  /\ disk' = [disk EXCEPT ![n] = @ \cup {f}]

(* sync_all of a file that was being written: it is whole or not there.     *)
Fill(n, f) ==
  /\ dir'  = [dir EXCEPT ![n] = f]
  /\ disk' = [disk EXCEPT ![n] = (@ \ {Partial}) \cup {f}]

Rename(from, to) ==
  /\ dir'  = [dir EXCEPT ![to] = dir[from], ![from] = Absent]
  /\ disk' = [disk EXCEPT ![to] = @ \cup {dir[from]}, ![from] = @ \cup {Absent}]

(* sync_directory makes the entries certain; the content of a file that was *)
(* written and not synced it leaves as uncertain as it was.                 *)
SyncDirectory ==
  /\ dir' = dir
  /\ disk' = [n \in Name |-> {dir[n]} \cup (disk[n] \cap {Partial})]

Quietly == UNCHANGED <<dir, disk>>
Frame == UNCHANGED <<deaths, acked, refused, adopted>>

-----------------------------------------------------------------------------
(* Opening a profile.                                                       *)

LockFree == lock = None

(* open_registered: the lock before anything else; ProfileInUse otherwise.  *)
Open(p) ==
  /\ At(p, "down") /\ LockFree
  /\ lock' = p
  /\ Goto(p, "read")
  /\ UNCHANGED faults /\ Quietly /\ Frame

Close(p) ==
  /\ proc' = [proc EXCEPT ![p] = Down]
  /\ lock' = IF lock = p THEN None ELSE lock

(* initialize_state: v3 is taken as it is, legacy is migrated, a profile    *)
(* without an active file is new unless a backup or candidate is around.    *)
ReadActive(p) ==
  /\ At(p, "read")
  /\ LET active == dir["active"] IN
     \/ /\ active.kind = "v3"
        /\ proc' = [proc EXCEPT ![p].pc = "open", ![p].committed = active.has]
        /\ UNCHANGED lock
     \/ /\ active.kind = "legacy"
        /\ proc' = [proc EXCEPT ![p].pc = "backup", ![p].next = active.has]
        /\ UNCHANGED lock
     \/ /\ active.kind = "absent"
        /\ IF dir["backup"] # Absent \/ dir["candidate"] # Absent
           THEN Close(p)
           ELSE Goto(p, "write") /\ UNCHANGED lock
  /\ UNCHANGED <<faults, deaths, acked, refused, adopted>> /\ Quietly

(* preserve_backup: create it, or find it identical.                        *)
BeginBackup(p) ==
  /\ At(p, "backup")
  /\ CASE dir["backup"] = Absent ->
            Put("backup", Partial) /\ Goto(p, "copy") /\ UNCHANGED lock
       [] dir["backup"] = Legacy ->
            Goto(p, "evidence") /\ Quietly /\ UNCHANGED lock
       [] OTHER ->
            Close(p) /\ Quietly
  /\ adopted' = (adopted \/ (dir["backup"] = Legacy /\ Partial \in disk["backup"]))
  /\ UNCHANGED <<faults, deaths, acked, refused>>

(* write_all, then sync_all: in between the backup is complete for whoever  *)
(* reads it and not yet safe from a loss of power.                          *)
CopyBackup(p) ==
  /\ At(p, "copy")
  /\ Put("backup", Legacy)
  /\ Goto(p, "flush")
  /\ UNCHANGED <<lock, faults>> /\ Frame

FlushBackup(p) ==
  /\ At(p, "flush")
  /\ Fill("backup", Legacy)
  /\ Goto(p, "evidence")
  /\ UNCHANGED <<lock, faults>> /\ Frame

Evidence == SyncDirectory

SyncBackup(p) ==
  /\ At(p, "evidence")
  /\ Evidence
  /\ Goto(p, "write")
  /\ UNCHANGED <<lock, faults>> /\ Frame

-----------------------------------------------------------------------------
(* durable_save, of an opening or of a transaction.                         *)

(* transaction: reload when a save may have replaced the file unnoticed,    *)
(* then change a copy of the committed state.                               *)
Base_Stale(p) == proc[p].committed
Base(p) == IF proc[p].reload THEN dir["active"].has ELSE proc[p].committed

Transaction(p, t) ==
  /\ At(p, "open") /\ t \notin acked \cup refused
  /\ \A q \in Process : proc[q].change # t
  /\ t \notin dir["active"].has
  /\ proc' = [proc EXCEPT ![p] =
       [@ EXCEPT !.pc = "write", !.committed = Base(p), !.reload = FALSE,
                 !.change = t, !.next = Base(p) \cup {t}]]
  /\ UNCHANGED <<lock, faults>> /\ Quietly /\ Frame

(* A reload that cannot read the file fails its call and stays due.         *)
Snapshot(p) ==
  /\ At(p, "open") /\ proc[p].reload
  /\ proc' = [proc EXCEPT ![p].committed = Base(p), ![p].reload = FALSE]
  /\ UNCHANGED <<lock, faults>> /\ Quietly /\ Frame

(* write_private truncates, writes and syncs.                               *)
WriteCandidate(p) ==
  /\ At(p, "write")
  /\ Put("candidate", Partial)
  /\ Goto(p, "fsync")
  /\ UNCHANGED <<lock, faults>> /\ Frame

SyncCandidate(p) ==
  /\ At(p, "fsync")
  /\ Fill("candidate", V3(proc[p].next))
  /\ Goto(p, "verify")
  /\ UNCHANGED <<lock, faults>> /\ Frame

VerifyCandidate(p) ==
  /\ At(p, "verify") /\ dir["candidate"] = V3(proc[p].next)
  /\ Goto(p, "replace")
  /\ UNCHANGED <<lock, faults>> /\ Quietly /\ Frame

Replace(p) ==
  /\ At(p, "replace")
  /\ Rename("candidate", "active")
  /\ Goto(p, "sync")
  /\ UNCHANGED <<lock, faults>> /\ Frame

Done(p) == [proc[p] EXCEPT !.pc = "open", !.change = None, !.next = {}]

DirectorySynced_Skipped == Quietly
DirectorySynced == SyncDirectory

Saved(p) ==
  /\ At(p, "sync")
  /\ DirectorySynced
  /\ proc' = [proc EXCEPT ![p] = [Done(p) EXCEPT !.committed = proc[p].next]]
  /\ acked' = acked \cup ({proc[p].change} \ {None})
  /\ UNCHANGED <<lock, faults, deaths, refused, adopted>>

(* A failed step: an opening gives up; a transaction reports the failure    *)
(* and, when the file was replaced already, has the next call reload it.    *)
Fails(p) ==
  /\ faults > 0 \/ (At(p, "verify") /\ dir["candidate"] # V3(proc[p].next))
  /\ faults' = IF faults > 0 THEN faults - 1 ELSE 0

NotReplaced(p) ==
  /\ proc[p].pc \in {"write", "fsync", "verify", "replace"} /\ Fails(p)
  /\ IF proc[p].change = None
     THEN Close(p) /\ UNCHANGED refused
     ELSE /\ proc' = [proc EXCEPT ![p] = Done(p)]
          /\ refused' = refused \cup {proc[p].change}
          /\ UNCHANGED lock
  /\ UNCHANGED <<deaths, acked, adopted>> /\ Quietly

ReplacedUnsynced == TRUE

NotSynced(p) ==
  /\ At(p, "sync") /\ Fails(p)
  /\ IF proc[p].change = None
     THEN Close(p)
     ELSE /\ proc' = [proc EXCEPT ![p] = [Done(p) EXCEPT !.reload = ReplacedUnsynced]]
          /\ UNCHANGED lock
  /\ UNCHANGED <<deaths, acked, refused, adopted>> /\ Quietly

OpenFails(p) ==
  /\ proc[p].pc \in {"read", "backup", "copy", "flush", "evidence"} /\ Fails(p)
  /\ Close(p)
  /\ UNCHANGED <<deaths, acked, refused, adopted>> /\ Quietly

-----------------------------------------------------------------------------
(* The last handle of a store is dropped; a process dies; power is lost.    *)

Drop(p) ==
  /\ At(p, "open")
  /\ Close(p)
  /\ UNCHANGED faults /\ Quietly /\ Frame

Die(p) ==
  /\ deaths > 0 /\ ~At(p, "down")
  /\ deaths' = deaths - 1
  /\ Close(p)
  /\ UNCHANGED <<faults, acked, refused, adopted>> /\ Quietly

PowerLoss ==
  /\ deaths > 0
  /\ deaths' = deaths - 1
  /\ dir' \in {d \in [Name -> UNION {disk[n] : n \in Name}] :
                 \A n \in Name : d[n] \in disk[n]}
  /\ disk' = [n \in Name |-> {dir'[n]}]
  /\ proc' = [p \in Process |-> Down]
  /\ lock' = None
  /\ UNCHANGED <<faults, acked, refused, adopted>>

Init ==
  /\ \E origin \in {Absent, Legacy} :
       /\ dir = [n \in Name |-> IF n = "active" THEN origin ELSE Absent]
       /\ acked = origin.has
  /\ disk = [n \in Name |-> {dir[n]}]
  /\ lock = None
  /\ proc = [p \in Process |-> Down]
  /\ faults = MaxFaults /\ deaths = MaxDeaths
  /\ refused = {} /\ adopted = FALSE

Step(p) ==
  \/ Open(p) \/ ReadActive(p) \/ BeginBackup(p)
  \/ CopyBackup(p) \/ FlushBackup(p) \/ SyncBackup(p)
  \/ \E t \in Change : Transaction(p, t)
  \/ Snapshot(p)
  \/ WriteCandidate(p) \/ SyncCandidate(p) \/ VerifyCandidate(p) \/ Replace(p)
  \/ Saved(p) \/ NotReplaced(p) \/ NotSynced(p) \/ OpenFails(p)
  \/ Drop(p) \/ Die(p)

Next == (\E p \in Process : Step(p)) \/ PowerLoss

Spec == Init /\ [][Next]_vars

-----------------------------------------------------------------------------
(* Properties.                                                              *)

(* A change reported as saved, and what a legacy store held, survives any   *)
(* loss of power, also in the middle of a migration; a change reported as   *)
(* not saved is in no file that could become the active one; a migrated     *)
(* store never stands without the backup of the legacy store it came from,  *)
(* and the backup is exact unless the opening that migrated went on with    *)
(* one that an earlier opening wrote and did not sync (it compares the      *)
(* content it reads, and a later loss of power may still cut the file       *)
(* short); and two processes never work on the files at once, so an open    *)
(* store that owes no reload publishes on top of what is really there.      *)
SavedIsDurable ==
  /\ \A f \in disk["active"] : acked \subseteq f.has /\ f.has \cap refused = {}
  /\ (\E f \in disk["active"] : f.kind = "v3" /\ Imported \in f.has)
       => /\ disk["backup"] \subseteq {Legacy, Partial}
          /\ Partial \in disk["backup"] => adopted
  /\ \A p \in Process : /\ ~At(p, "down") => lock = p
                        /\ At(p, "open") /\ ~proc[p].reload => dir["active"] = V3(proc[p].committed)

(* The store implements the register its callers assume.                    *)
Jobs == INSTANCE DurableJobs WITH
          value <- dir["active"].has \ {Imported}, acked <- acked \ {Imported}
IsDurableJobs == Jobs!Spec

=============================================================================
