------------------------- MODULE FoundationStoreProofs -------------------------
(***************************************************************************)
(* Proofs about FoundationStore, for any processes, changes and bounds on   *)
(* the faults: what was reported as saved survives every death and loss of  *)
(* power, and the store implements the register of DurableJobs.             *)
(***************************************************************************)
EXTENDS FoundationStore, TLAPS

File == {Absent, Partial, Legacy} \cup {V3(s) : s \in Content}
Writing == {"write", "fsync", "verify", "replace"}
Migrating == {"backup", "copy", "flush", "evidence"}
Pc == {"down", "read", "sync", "open"} \cup Migrating \cup Writing
Runtime == [pc : Pc, committed : Content, reload : BOOLEAN, change : Change \cup {None},
            next : Content]

TypeOK ==
  /\ dir \in [Name -> File]
  /\ disk \in [Name -> SUBSET File]
  /\ proc \in [Process -> Runtime]
  /\ lock \in Process \cup {None}
  /\ acked \subseteq Change \cup {Imported} /\ refused \subseteq Change
  /\ adopted \in BOOLEAN

(* What the processes see is among what a loss of power may leave; the      *)
(* active entry is never partly written, and what it may fall back to has   *)
(* no more than it has now, everything saved and nothing refused.           *)
EntriesOK ==
  /\ \A n \in Name : dir[n] \in disk[n]
  /\ Partial \notin disk["active"]
  /\ \A f \in disk["active"] : f.has \subseteq dir["active"].has
(* A backup is there, and cut short only if it was adopted unsynced.        *)
Whole(backups, adoption) == Partial \in backups => adoption
Backed(backups, adoption) == backups \subseteq {Legacy, Partial} /\ Whole(backups, adoption)
Fallbacks(files, saved, notSaved) ==
  \A f \in files : saved \subseteq f.has /\ f.has \cap notSaved = {}
MigratedBehind(files, backups, adoption) ==
  (\E f \in files : f.kind = "v3" /\ Imported \in f.has) => Backed(backups, adoption)

(* The migration of a legacy store: nothing replaced yet, then a backup.    *)
MigrationOK(r, d, backups, adoption) ==
  /\ r.pc \in {"read"} \cup Migrating => r.change = None
  /\ r.pc = "read" => r.next = {}
  /\ r.pc \in Migrating => d["active"] = Legacy /\ r.next = {Imported}
  /\ r.pc = "evidence" => d["backup"] = Legacy /\ Whole(backups, adoption)

(* A save under way adds its change to what the active file has, and a      *)
(* transaction that has not replaced the file can go back to its copy.      *)
SaveOK(r, d, backups, adoption, notSaved) ==
  /\ r.pc \in Writing =>
       /\ r.next = d["active"].has \cup ({r.change} \ {None})
       /\ Imported \in r.next => Backed(backups, adoption)
       /\ r.change # None => /\ r.change \notin d["active"].has \cup notSaved
                             /\ d["active"] = V3(r.committed) /\ ~r.reload
  /\ r.pc = "replace" => d["candidate"] = V3(r.next)
  /\ r.pc = "sync" => /\ d["active"] = V3(r.next)
                      /\ r.change \in r.next \cup {None}

(* An open store publishes on top of the active file, or owes a reload.     *)
OpenOK(r, d) ==
  r.pc = "open" => /\ d["active"].kind = "v3"
                   /\ ~r.reload => d["active"] = V3(r.committed)

ProcOK(r, d, backups, adoption, notSaved) ==
  MigrationOK(r, d, backups, adoption) /\ SaveOK(r, d, backups, adoption, notSaved) /\ OpenOK(r, d)

(* A process that is not down holds the lock; the others have nothing left. *)
LockOK == \A p \in Process : IF At(p, "down") THEN proc[p] = Down ELSE lock = p

IInv ==
  /\ TypeOK /\ EntriesOK /\ LockOK
  /\ Fallbacks(disk["active"], acked, refused)
  /\ MigratedBehind(disk["active"], disk["backup"], adopted)
  /\ \A p \in Process : ProcOK(proc[p], dir, disk["backup"], adopted, refused)

-----------------------------------------------------------------------------
(* What a file is, and what the operations of the file system keep.         *)

LEMMA FileFacts ==
  /\ Absent \in File /\ Partial \in File /\ Legacy \in File
  /\ Absent # Partial /\ Legacy # Partial /\ Legacy # Absent
  /\ Absent.has = {} /\ Legacy.has = {Imported}
  /\ Absent.kind = "absent" /\ Legacy.kind = "legacy" /\ Partial.kind = "partial"
  /\ \A s \in Content : /\ V3(s) \in File /\ V3(s).kind = "v3" /\ V3(s).has = s
                         /\ V3(s) # Absent /\ V3(s) # Partial /\ V3(s) # Legacy
  /\ \A f \in File : /\ f.has \in Content
                     /\ f.kind = "v3" => f = V3(f.has)
                     /\ f.kind = "legacy" => f = Legacy
                     /\ f.kind = "absent" => f = Absent
<1>1. /\ Absent # Partial /\ Legacy # Partial /\ Legacy # Absent
      /\ Absent.has = {} /\ Legacy.has = {Imported}
      /\ Absent.kind = "absent" /\ Legacy.kind = "legacy" /\ Partial.kind = "partial"
      /\ Partial.has = {}
  BY DEF Absent, Partial, Legacy
<1>2. \A s \in Content : V3(s).kind = "v3" /\ V3(s).has = s
  BY DEF V3
<1>3. {} \in Content /\ {Imported} \in Content
  BY DEF Content
<1> HIDE DEF Absent, Partial, Legacy, V3, Content
<1>4. \A s \in Content : V3(s) \in File /\ V3(s) # Absent /\ V3(s) # Partial /\ V3(s) # Legacy
  BY <1>1, <1>2 DEF File
<1>5. \A f \in File : /\ f.has \in Content
                      /\ f.kind = "v3" => f = V3(f.has)
                      /\ f.kind = "legacy" => f = Legacy
                      /\ f.kind = "absent" => f = Absent
  BY <1>1, <1>2, <1>3 DEF File
<1> QED BY <1>1, <1>2, <1>4, <1>5 DEF File

(* The part of the invariant that is about the files.                       *)
FilesOK ==
  /\ dir \in [Name -> File] /\ disk \in [Name -> SUBSET File]
  /\ acked \subseteq Change \cup {Imported} /\ refused \subseteq Change
  /\ adopted \in BOOLEAN
  /\ EntriesOK
  /\ Fallbacks(disk["active"], acked, refused)
  /\ MigratedBehind(disk["active"], disk["backup"], adopted)

LEMMA InvParts == IInv <=> /\ FilesOK /\ LockOK
                           /\ proc \in [Process -> Runtime] /\ lock \in Process \cup {None}
                           /\ \A p \in Process : ProcOK(proc[p], dir, disk["backup"], adopted, refused)
BY DEF IInv, FilesOK, TypeOK

LEMMA QuietFiles ==
  ASSUME FilesOK, UNCHANGED <<dir, disk, acked, refused>>, adopted' \in {adopted, TRUE}
  PROVE  FilesOK'
<1>1. MigratedBehind(disk["active"], disk["backup"], adopted)'
  BY DEF FilesOK, MigratedBehind, Backed, Whole
<1> QED BY <1>1 DEF FilesOK, EntriesOK

(* Writing and syncing an entry that is not the active one; a backup that   *)
(* is certain is not written again.                                         *)
LEMMA WriteFiles ==
  ASSUME FilesOK, NEW n \in {"candidate", "backup"}, NEW f \in File,
         Put(n, f) \/ Fill(n, f), UNCHANGED <<acked, refused, adopted>>,
         n = "backup" => f = Legacy \/ dir["backup"] = Absent
  PROVE  /\ FilesOK'
         /\ dir'[n] = f
         /\ \A m \in Name \ {n} : dir'[m] = dir[m] /\ disk'[m] = disk[m]
<1>1. n \in Name /\ "active" \in Name /\ "backup" \in Name
  BY DEF Name
<1>2. PICK left \in {disk[n], disk[n] \ {Partial}} :
         /\ dir' = [dir EXCEPT ![n] = f]
         /\ disk' = [disk EXCEPT ![n] = left \cup {f}]
         /\ left = disk[n] \/ Fill(n, f)
  BY DEF Put, Fill
<1>3. left \cup {f} \in SUBSET File
  BY <1>1, <1>2 DEF FilesOK
<1>4. /\ dir' \in [Name -> File] /\ disk' \in [Name -> SUBSET File]
      /\ dir'[n] = f /\ disk'[n] = left \cup {f}
      /\ \A m \in Name \ {n} : dir'[m] = dir[m] /\ disk'[m] = disk[m]
  BY <1>1, <1>2, <1>3 DEF FilesOK
<1>5. EntriesOK'
  BY <1>1, <1>4 DEF FilesOK, EntriesOK
<1>6. Fallbacks(disk["active"], acked, refused)'
  BY <1>1, <1>4 DEF FilesOK, Fallbacks
<1>7. MigratedBehind(disk["active"], disk["backup"], adopted)'
  <2>1. disk'["active"] = disk["active"]
    BY <1>1, <1>4
  <2>2. CASE n = "candidate"
    BY <1>1, <1>4, <2>1, <2>2 DEF FilesOK, MigratedBehind
  <2>3. CASE n = "backup"
    <3>1. Backed(disk["backup"], adopted) => dir["backup"] # Absent
      BY <1>1, FileFacts DEF FilesOK, EntriesOK, Backed
    <3>2. Backed(disk["backup"], adopted) => Backed(disk["backup"], adopted)'
      BY <1>1, <1>2, <1>4, <2>3, <3>1, FileFacts DEF Backed, Whole
    <3> QED BY <2>1, <3>2 DEF FilesOK, MigratedBehind
  <2> QED BY <2>2, <2>3
<1> QED BY <1>4, <1>5, <1>6, <1>7 DEF FilesOK

(* A sync of the directory makes every entry certain.                       *)
LEMMA SyncFiles ==
  ASSUME FilesOK, SyncDirectory, acked' \subseteq dir["active"].has,
         acked' \subseteq Change \cup {Imported}, UNCHANGED <<refused, adopted>>
  PROVE  /\ FilesOK' /\ dir' = dir
         /\ \A n \in Name : disk'[n] = {dir[n]} \cup (disk[n] \cap {Partial})
<1>1. "active" \in Name /\ "backup" \in Name
  BY DEF Name
<1>2. /\ dir' = dir
      /\ \A n \in Name : /\ disk'[n] = {dir[n]} \cup (disk[n] \cap {Partial})
                        /\ dir[n] \in disk[n] /\ disk'[n] \subseteq disk[n]
      /\ disk'["active"] = {dir["active"]}
  BY <1>1 DEF SyncDirectory, FilesOK, EntriesOK
<1>3. disk' \in [Name -> SUBSET File]
  BY DEF SyncDirectory, FilesOK
<1>4. EntriesOK'
  BY <1>1, <1>2 DEF FilesOK, EntriesOK
<1>5. Fallbacks(disk["active"], acked, refused)'
  BY <1>1, <1>2 DEF FilesOK, Fallbacks
<1>6. MigratedBehind(disk["active"], disk["backup"], adopted)'
  BY <1>1, <1>2 DEF FilesOK, MigratedBehind, Backed, Whole
<1> QED BY <1>2, <1>3, <1>4, <1>5, <1>6 DEF FilesOK, SyncDirectory

(* The candidate becomes the active file: it must have what is saved, none  *)
(* of what was refused, and a backup when it comes of a legacy store.       *)
LEMMA RenameFiles ==
  ASSUME FilesOK, Rename("candidate", "active"), UNCHANGED <<acked, refused, adopted>>,
         NEW s \in Content, dir["candidate"] = V3(s),
         dir["active"].has \subseteq s, s \cap refused = {},
         Imported \in s => Backed(disk["backup"], adopted)
  PROVE  FilesOK' /\ dir'["active"] = V3(s) /\ UNCHANGED disk["backup"]
<1>1. "active" \in Name /\ "candidate" \in Name /\ "backup" \in Name
  BY DEF Name
<1>2. /\ dir' \in [Name -> File] /\ dir'["active"] = V3(s)
      /\ dir'["candidate"] = Absent /\ dir'["backup"] = dir["backup"]
  BY <1>1, FileFacts DEF Rename, FilesOK
<1>3. /\ disk' \in [Name -> SUBSET File]
      /\ disk'["active"] = disk["active"] \cup {V3(s)}
      /\ disk'["candidate"] = disk["candidate"] \cup {Absent}
      /\ disk'["backup"] = disk["backup"]
  BY <1>1, FileFacts DEF Rename, FilesOK
<1>4. EntriesOK'
  <2>1. \A f \in disk'["active"] : f.has \subseteq s
    BY <1>3, FileFacts DEF FilesOK, EntriesOK
  <2> QED BY <1>2, <1>3, <2>1, FileFacts DEF FilesOK, EntriesOK, Name
<1>5. Fallbacks(disk["active"], acked, refused)'
  <2>1. acked \subseteq s
    BY <1>1 DEF FilesOK, EntriesOK, Fallbacks
  <2> QED BY <1>3, <2>1, FileFacts DEF FilesOK, Fallbacks
<1>6. MigratedBehind(disk["active"], disk["backup"], adopted)'
  BY <1>3, FileFacts DEF FilesOK, MigratedBehind
<1> QED BY <1>2, <1>3, <1>4, <1>5, <1>6 DEF FilesOK

-----------------------------------------------------------------------------
(* One process at a time works on the files.                                *)

LEMMA DownRuntime ==
  /\ Down \in Runtime /\ Down.pc = "down"
  /\ \A r, d, backups, adoption, notSaved : r.pc = "down" => ProcOK(r, d, backups, adoption, notSaved)
<1>1. Down \in Runtime /\ Down.pc = "down"
  BY DEF Down, Runtime, Pc, Content
<1>2. \A r, d, backups, adoption, notSaved : r.pc = "down" => ProcOK(r, d, backups, adoption, notSaved)
  BY DEF ProcOK, MigrationOK, SaveOK, OpenOK, Migrating, Writing
<1> QED BY <1>1, <1>2

(* A step of p leaves the other processes down.                             *)
LEMMA ProcessMoves ==
  ASSUME IInv, NEW p \in Process, lock \in {p, None}, NEW r \in Runtime,
         proc' = [proc EXCEPT ![p] = r],
         lock' \in {p, None}, IF r.pc = "down" THEN r = Down ELSE lock' = p,
         FilesOK', ProcOK(r, dir', disk'["backup"], adopted', refused')
  PROVE  IInv'
<1>0. None \notin Process
  BY StoreAssumption
<1>1. \A q \in Process \ {p} : proc[q].pc = "down"
  BY <1>0 DEF IInv, LockOK, At
<1>2. proc' \in [Process -> Runtime] /\ proc'[p] = r /\ \A q \in Process \ {p} : proc'[q] = proc[q]
  BY DEF IInv, TypeOK
<1>3. LockOK'
  BY <1>1, <1>2 DEF IInv, LockOK, At
<1>4. \A q \in Process : ProcOK(proc'[q], dir', disk'["backup"], adopted', refused')
  BY <1>1, <1>2, DownRuntime
<1> QED BY <1>2, <1>3, <1>4 DEF IInv, FilesOK, TypeOK

(* A process that closes is down; the files stay as they are.               *)
LEMMA Closes ==
  ASSUME IInv, NEW p \in Process, lock = p, Close(p), FilesOK'
  PROVE  IInv'
<1>1. proc' = [proc EXCEPT ![p] = Down] /\ lock' = None
  BY DEF Close
<1> QED BY <1>1, DownRuntime, ProcessMoves

(* Moving on to another program counter.                                    *)
LEMMA GotoForm ==
  ASSUME TypeOK, NEW p \in Process, NEW pc \in Pc, Goto(p, pc)
  PROVE  \E r \in Runtime :
           /\ proc' = [proc EXCEPT ![p] = r]
           /\ r.pc = pc /\ r.change = proc[p].change /\ r.next = proc[p].next
           /\ r.reload = proc[p].reload /\ r.committed = proc[p].committed
<1> DEFINE r == [proc[p] EXCEPT !.pc = pc]
<1>1. proc[p] \in Runtime
  BY DEF TypeOK
<1>2. /\ r \in Runtime
      /\ r.pc = pc /\ r.change = proc[p].change /\ r.next = proc[p].next
      /\ r.reload = proc[p].reload /\ r.committed = proc[p].committed
  BY <1>1 DEF Runtime
<1>3. proc' = [proc EXCEPT ![p] = r]
  BY DEF Goto
<1> QED BY <1>2, <1>3

(* The records of a process and what the invariant says of it.              *)
LEMMA Known ==
  ASSUME IInv, NEW p \in Process
  PROVE  /\ proc[p] \in Runtime
         /\ ProcOK(proc[p], dir, disk["backup"], adopted, refused)
         /\ proc[p].pc # "down" => lock = p
         /\ proc[p].pc = "down" => proc[p] = Down
         /\ FilesOK /\ dir["active"] \in disk["active"]
         /\ dir["active"].has \in Content
         /\ dir["active"].kind = "v3" => dir["active"] = V3(dir["active"].has)
         /\ dir["active"].kind = "legacy" => dir["active"] = Legacy
         /\ dir["active"].kind = "absent" => dir["active"] = Absent
<1>1. dir["active"] \in File /\ FilesOK
  BY InvParts DEF FilesOK, Name
<1>2. dir["active"] \in disk["active"]
  BY <1>1 DEF FilesOK, EntriesOK, Name
<1>3. /\ proc[p] \in Runtime /\ ProcOK(proc[p], dir, disk["backup"], adopted, refused)
      /\ proc[p].pc # "down" => lock = p
      /\ proc[p].pc = "down" => proc[p] = Down
  BY DEF IInv, TypeOK, LockOK, At
<1>4. /\ dir["active"].has \in Content
      /\ dir["active"].kind = "v3" => dir["active"] = V3(dir["active"].has)
      /\ dir["active"].kind = "legacy" => dir["active"] = Legacy
      /\ dir["active"].kind = "absent" => dir["active"] = Absent
  <2>1. \A f \in File : /\ f.has \in Content
                        /\ f.kind = "v3" => f = V3(f.has)
                        /\ f.kind = "legacy" => f = Legacy
                        /\ f.kind = "absent" => f = Absent
    BY FileFacts
  <2> QED BY <1>1, <2>1
<1> QED BY <1>1, <1>2, <1>3, <1>4

-----------------------------------------------------------------------------
(* Opening.                                                                 *)

LEMMA OpenStep ==
  ASSUME IInv, NEW p \in Process, Open(p)
  PROVE  IInv'
<1>1. PICK r \in Runtime : /\ proc' = [proc EXCEPT ![p] = r] /\ r.pc = "read"
                           /\ r.change = proc[p].change /\ r.next = proc[p].next
  BY GotoForm DEF IInv, Open, Pc
<1>2. /\ proc[p] = Down /\ lock = None /\ lock' = p
      /\ UNCHANGED <<dir, disk, acked, refused, adopted>>
  BY Known DEF Open, At, LockFree, Quietly, Frame
<1>3. FilesOK'
  BY <1>2, QuietFiles, Known
<1>4. ProcOK(r, dir', disk'["backup"], adopted', refused')
  BY <1>1, <1>2 DEF Down, ProcOK, MigrationOK, SaveOK, OpenOK, Migrating, Writing
<1> QED BY <1>1, <1>2, <1>3, <1>4, ProcessMoves

LEMMA ReadActiveStep ==
  ASSUME IInv, NEW p \in Process, ReadActive(p)
  PROVE  IInv'
<1> DEFINE active == dir["active"]
<1>1. /\ proc[p] \in Runtime /\ proc[p].pc = "read" /\ proc[p].change = None
      /\ proc[p].next = {} /\ lock = p
      /\ UNCHANGED <<dir, disk, acked, refused, adopted>> /\ FilesOK /\ active.has \in Content
  BY Known DEF ReadActive, At, Quietly, ProcOK, MigrationOK
<1>2. FilesOK'
  BY <1>1, QuietFiles
<1>3. CASE Close(p)
  BY <1>1, <1>2, <1>3, Closes
<1>4. CASE /\ active.kind = "v3" /\ UNCHANGED lock
           /\ proc' = [proc EXCEPT ![p].pc = "open", ![p].committed = active.has]
  <2> DEFINE r == [proc[p] EXCEPT !.pc = "open", !.committed = active.has]
  <2>1. r \in Runtime /\ r.pc = "open" /\ r.committed = active.has
    BY <1>1 DEF Runtime, Pc
  <2>2. proc' = [proc EXCEPT ![p] = r]
    BY <1>4
  <2>3. active = V3(active.has)
    BY <1>4, Known
  <2> HIDE DEF r
  <2>4. ProcOK(r, dir', disk'["backup"], adopted', refused')
    BY <1>1, <1>4, <2>1, <2>3 DEF ProcOK, MigrationOK, SaveOK, OpenOK, Migrating, Writing
  <2> QED BY <1>1, <1>2, <1>4, <2>1, <2>2, <2>4, ProcessMoves
<1>5. CASE /\ active.kind = "legacy" /\ UNCHANGED lock
           /\ proc' = [proc EXCEPT ![p].pc = "backup", ![p].next = active.has]
  <2> DEFINE r == [proc[p] EXCEPT !.pc = "backup", !.next = active.has]
  <2>1. r \in Runtime /\ r.pc = "backup" /\ r.next = active.has /\ r.change = None
    BY <1>1 DEF Runtime, Pc, Migrating
  <2>2. proc' = [proc EXCEPT ![p] = r]
    BY <1>5
  <2>3. active = Legacy /\ Legacy.has = {Imported}
    BY <1>5, Known, FileFacts
  <2> HIDE DEF r
  <2>4. ProcOK(r, dir', disk'["backup"], adopted', refused')
    BY <1>1, <2>1, <2>3 DEF ProcOK, MigrationOK, SaveOK, OpenOK, Migrating, Writing
  <2> QED BY <1>1, <1>2, <1>5, <2>1, <2>2, <2>4, ProcessMoves
<1>6. CASE active.kind = "absent" /\ Goto(p, "write") /\ UNCHANGED lock
  <2>1. PICK r \in Runtime : /\ proc' = [proc EXCEPT ![p] = r] /\ r.pc = "write"
                             /\ r.change = None /\ r.next = {}
    BY <1>1, <1>6, GotoForm DEF IInv, Pc, Writing
  <2>2. active.has = {}
    BY <1>6, Known, FileFacts
  <2>3. ProcOK(r, dir', disk'["backup"], adopted', refused')
    BY <1>1, <2>1, <2>2 DEF ProcOK, MigrationOK, SaveOK, OpenOK, Migrating, Writing
  <2> QED BY <1>1, <1>2, <1>6, <2>1, <2>3, ProcessMoves
<1> QED BY <1>3, <1>4, <1>5, <1>6 DEF ReadActive

(* The legacy store stays the active file while its backup is made.         *)
LEMMA BackupSteps ==
  ASSUME IInv, NEW p \in Process, BeginBackup(p) \/ CopyBackup(p) \/ FlushBackup(p)
  PROVE  IInv'
<1>1. /\ proc[p] \in Runtime /\ proc[p].pc \in {"backup", "copy", "flush"} /\ proc[p].change = None
      /\ proc[p].next = {Imported} /\ dir["active"] = Legacy /\ lock = p /\ FilesOK
      /\ UNCHANGED <<acked, refused>>
  BY Known DEF BeginBackup, CopyBackup, FlushBackup, At, Frame, ProcOK, MigrationOK, Migrating
<1>2. adopted' \in {adopted, TRUE}
  BY <1>1 DEF BeginBackup, CopyBackup, FlushBackup, Frame, FilesOK
<1>3. ASSUME NEW pc \in {"copy", "flush", "evidence"}, Goto(p, pc), UNCHANGED lock, FilesOK',
             dir'["active"] = Legacy,
             pc = "evidence" => dir'["backup"] = Legacy /\ Whole(disk["backup"], adopted)'
      PROVE  IInv'
  <2>1. PICK r \in Runtime : /\ proc' = [proc EXCEPT ![p] = r] /\ r.pc = pc
                             /\ r.change = None /\ r.next = {Imported}
    BY <1>1, <1>3, GotoForm DEF IInv, Pc, Migrating
  <2>2. ProcOK(r, dir', disk'["backup"], adopted', refused')
    BY <1>3, <2>1 DEF ProcOK, MigrationOK, SaveOK, OpenOK, Migrating, Writing
  <2> QED BY <1>1, <1>3, <2>1, <2>2, ProcessMoves
<1>4. CASE BeginBackup(p)
  <2>1. CASE Close(p) /\ Quietly
    BY <1>1, <1>2, <2>1, QuietFiles, Closes DEF Quietly
  <2>2. CASE Put("backup", Partial) /\ dir["backup"] = Absent /\ Goto(p, "copy") /\ UNCHANGED lock
    <3>1. adopted' = adopted
      BY <1>1, <1>4, <2>2, FileFacts DEF BeginBackup, FilesOK
    <3>2. FilesOK' /\ dir'["active"] = dir["active"]
      BY <1>1, <2>2, <3>1, FileFacts, WriteFiles DEF Name
    <3> QED BY <1>1, <1>3, <2>2, <3>2
  <2>3. CASE dir["backup"] = Legacy /\ Goto(p, "evidence") /\ Quietly /\ UNCHANGED lock
    <3>1. FilesOK' /\ dir' = dir /\ disk' = disk
      BY <1>1, <1>2, <2>3, QuietFiles DEF Quietly
    <3>2. Whole(disk["backup"], adopted)'
      BY <1>4, <2>3, <3>1 DEF BeginBackup, Whole
    <3> QED BY <1>1, <1>3, <2>3, <3>1, <3>2
  <2> QED BY <1>4, <2>1, <2>2, <2>3 DEF BeginBackup
<1>5. CASE CopyBackup(p)
  <2>1. Put("backup", Legacy) /\ Goto(p, "flush") /\ UNCHANGED <<lock, adopted>>
    BY <1>5 DEF CopyBackup, Frame
  <2>2. FilesOK' /\ dir'["active"] = dir["active"]
    BY <1>1, <2>1, FileFacts, WriteFiles DEF Name
  <2> QED BY <1>1, <1>3, <2>1, <2>2
<1>6. CASE FlushBackup(p)
  <2>1. Fill("backup", Legacy) /\ Goto(p, "evidence") /\ UNCHANGED <<lock, adopted>>
    BY <1>6 DEF FlushBackup, Frame
  <2>2. FilesOK' /\ dir'["active"] = dir["active"] /\ dir'["backup"] = Legacy
    BY <1>1, <2>1, FileFacts, WriteFiles DEF Name
  <2>3. Whole(disk["backup"], adopted)'
    BY <1>1, <2>1, FileFacts DEF Fill, FilesOK, Name, Whole
  <2> QED BY <1>1, <1>3, <2>1, <2>2, <2>3
<1> QED BY <1>4, <1>5, <1>6

(* Once the directory is synced, the entry of the backup is certain.        *)
LEMMA SyncBackupStep ==
  ASSUME IInv, NEW p \in Process, SyncBackup(p)
  PROVE  IInv'
<1>1. /\ proc[p].pc = "evidence" /\ proc[p].change = None /\ proc[p].next = {Imported}
      /\ dir["active"] = Legacy /\ dir["backup"] = Legacy /\ lock = p /\ FilesOK
      /\ Whole(disk["backup"], adopted)
      /\ UNCHANGED <<acked, refused, lock, adopted>> /\ SyncDirectory /\ Goto(p, "write")
  BY Known DEF SyncBackup, Evidence, At, Frame, ProcOK, MigrationOK, Migrating
<1>2. acked \subseteq dir["active"].has
  BY Known DEF FilesOK, Fallbacks
<1>3. /\ FilesOK' /\ dir' = dir
      /\ \A n \in Name : disk'[n] = {dir[n]} \cup (disk[n] \cap {Partial})
  BY <1>1, <1>2, SyncFiles DEF FilesOK
<1>4. Backed(disk["backup"], adopted)'
  BY <1>1, <1>3, FileFacts DEF Name, Backed, Whole
<1>5. PICK r \in Runtime : /\ proc' = [proc EXCEPT ![p] = r] /\ r.pc = "write"
                           /\ r.change = None /\ r.next = {Imported}
  BY <1>1, GotoForm DEF IInv, Pc, Writing
<1>6. ProcOK(r, dir', disk'["backup"], adopted', refused')
  BY <1>1, <1>3, <1>4, <1>5, FileFacts DEF ProcOK, MigrationOK, SaveOK, OpenOK, Migrating, Writing
<1> QED BY <1>1, <1>3, <1>5, <1>6, ProcessMoves

-----------------------------------------------------------------------------
(* Saving.                                                                  *)

(* What an open store takes for the committed state is the active file.     *)
LEMMA BaseIsActive ==
  ASSUME IInv, NEW p \in Process, At(p, "open")
  PROVE  /\ Base(p) = dir["active"].has /\ Base(p) \in Content
         /\ dir["active"] = V3(Base(p))
<1>1. /\ dir["active"].kind = "v3" /\ proc[p] \in Runtime
      /\ ~proc[p].reload => dir["active"] = V3(proc[p].committed)
  BY Known DEF At, ProcOK, OpenOK
<1>2. proc[p].committed \in Content
  BY <1>1 DEF Runtime
<1>3. V3(proc[p].committed).has = proc[p].committed
  BY <1>2, FileFacts
<1>4. Base(p) = dir["active"].has
  BY <1>1, <1>3 DEF Base
<1> QED BY <1>1, <1>4, Known

LEMMA TransactionStep ==
  ASSUME IInv, NEW p \in Process, NEW t \in Change, Transaction(p, t)
  PROVE  IInv'
<1> DEFINE r == [proc[p] EXCEPT !.pc = "write", !.committed = Base(p), !.reload = FALSE,
                                !.change = t, !.next = Base(p) \cup {t}]
<1>1. /\ proc[p] \in Runtime /\ proc[p].pc = "open" /\ lock = p
      /\ t \notin dir["active"].has \cup refused
      /\ UNCHANGED <<lock, dir, disk, acked, refused, adopted>>
  BY Known DEF Transaction, At, Quietly, Frame
<1>2. Base(p) = dir["active"].has /\ dir["active"] = V3(Base(p)) /\ Base(p) \in Content
  BY <1>1, BaseIsActive DEF At
<1>3. t # None /\ t # Imported /\ Base(p) \cup {t} \in Content
  BY <1>2, StoreAssumption DEF Content
<1>4. /\ r \in Runtime /\ r.pc = "write" /\ r.change = t /\ r.next = Base(p) \cup {t}
      /\ r.committed = Base(p) /\ r.reload = FALSE
  BY <1>1, <1>2, <1>3 DEF Runtime, Pc, Writing
<1>5. proc' = [proc EXCEPT ![p] = r]
  BY DEF Transaction
<1> HIDE DEF r
<1>6. FilesOK'
  BY <1>1, QuietFiles, Known
<1>7. Imported \in r.next => Backed(disk["backup"], adopted)
  <2>1. dir["active"] \in disk["active"] /\ dir["active"].kind = "v3"
    BY <1>1, Known DEF ProcOK, OpenOK
  <2> QED BY <1>2, <1>3, <1>4, <2>1 DEF IInv, MigratedBehind
<1>8. SaveOK(r, dir, disk["backup"], adopted, refused)
  BY <1>1, <1>2, <1>3, <1>4, <1>7 DEF SaveOK, Writing
<1>9. ProcOK(r, dir', disk'["backup"], adopted', refused')
  BY <1>1, <1>4, <1>8 DEF ProcOK, MigrationOK, OpenOK, Migrating
<1> QED BY <1>1, <1>4, <1>5, <1>6, <1>9, ProcessMoves

LEMMA SnapshotStep ==
  ASSUME IInv, NEW p \in Process, Snapshot(p)
  PROVE  IInv'
<1> DEFINE r == [proc[p] EXCEPT !.committed = Base(p), !.reload = FALSE]
<1>1. /\ proc[p] \in Runtime /\ proc[p].pc = "open" /\ lock = p
      /\ UNCHANGED <<lock, dir, disk, acked, refused, adopted>>
      /\ ProcOK(proc[p], dir, disk["backup"], adopted, refused)
  BY Known DEF Snapshot, At, Quietly, Frame
<1>2. dir["active"] = V3(Base(p)) /\ Base(p) \in Content
  BY <1>1, BaseIsActive DEF At
<1>3. r \in Runtime /\ r.pc = "open" /\ r.committed = Base(p)
  BY <1>1, <1>2 DEF Runtime
<1>4. proc' = [proc EXCEPT ![p] = r]
  BY DEF Snapshot
<1> HIDE DEF r
<1>5. FilesOK'
  BY <1>1, QuietFiles, Known
<1>6. ProcOK(r, dir', disk'["backup"], adopted', refused')
  BY <1>1, <1>2, <1>3 DEF ProcOK, MigrationOK, SaveOK, OpenOK, Migrating, Writing
<1> QED BY <1>1, <1>3, <1>4, <1>5, <1>6, ProcessMoves

(* A step from one point of a save to the next that leaves the active file. *)
LEMMA SaveGoesOn ==
  ASSUME IInv, NEW p \in Process, proc[p].pc \in Writing,
         NEW pc \in Writing, Goto(p, pc), UNCHANGED <<lock, acked, refused, adopted>>,
         FilesOK', dir'["active"] = dir["active"], disk'["backup"] = disk["backup"],
         pc = "replace" => dir'["candidate"] = V3(proc[p].next)
  PROVE  IInv'
<1>1. PICK r \in Runtime :
         /\ proc' = [proc EXCEPT ![p] = r]
         /\ r.pc = pc /\ r.change = proc[p].change /\ r.next = proc[p].next
         /\ r.reload = proc[p].reload /\ r.committed = proc[p].committed
  BY GotoForm DEF IInv, Pc
<1>2. ProcOK(proc[p], dir, disk["backup"], adopted, refused) /\ lock = p
  BY Known DEF Writing
<1>3. ProcOK(r, dir', disk'["backup"], adopted', refused')
  BY <1>1, <1>2 DEF ProcOK, MigrationOK, SaveOK, OpenOK, Migrating, Writing
<1> QED BY <1>1, <1>2, <1>3, ProcessMoves DEF Writing

LEMMA CandidateSteps ==
  ASSUME IInv, NEW p \in Process,
         WriteCandidate(p) \/ SyncCandidate(p) \/ VerifyCandidate(p)
  PROVE  IInv'
<1>1. FilesOK /\ proc[p].pc \in Writing /\ V3(proc[p].next) \in File
      /\ UNCHANGED <<lock, acked, refused, adopted>>
  <2>1. proc[p].next \in Content
    BY Known DEF Runtime
  <2> QED BY <2>1, Known, FileFacts
          DEF WriteCandidate, SyncCandidate, VerifyCandidate, At, Writing, Frame
<1>2. CASE WriteCandidate(p)
  <2>1. Put("candidate", Partial) /\ Goto(p, "fsync")
    BY <1>2 DEF WriteCandidate
  <2>2. /\ FilesOK' /\ dir'["active"] = dir["active"] /\ disk'["backup"] = disk["backup"]
    BY <1>1, <2>1, FileFacts, WriteFiles DEF Name
  <2> QED BY <1>1, <2>1, <2>2, SaveGoesOn DEF Writing
<1>3. CASE SyncCandidate(p)
  <2>1. Fill("candidate", V3(proc[p].next)) /\ Goto(p, "verify")
    BY <1>3 DEF SyncCandidate
  <2>2. /\ FilesOK' /\ dir'["active"] = dir["active"] /\ disk'["backup"] = disk["backup"]
    BY <1>1, <2>1, WriteFiles DEF Name
  <2> QED BY <1>1, <2>1, <2>2, SaveGoesOn DEF Writing
<1>4. CASE VerifyCandidate(p)
  <2>1. /\ dir["candidate"] = V3(proc[p].next) /\ Goto(p, "replace")
        /\ UNCHANGED <<dir, disk>>
    BY <1>4 DEF VerifyCandidate, Quietly
  <2>2. FilesOK'
    BY <1>1, <2>1, QuietFiles
  <2> QED BY <1>1, <2>1, <2>2, SaveGoesOn DEF Writing
<1> QED BY <1>2, <1>3, <1>4

(* What is known of a save that is about to replace the active file.        *)
LEMMA BeforeReplace ==
  ASSUME IInv, NEW p \in Process, proc[p].pc \in Writing
  PROVE  /\ proc[p].next \in Content
         /\ dir["active"].has \subseteq proc[p].next
         /\ proc[p].next \cap refused = {}
         /\ Imported \in proc[p].next => Backed(disk["backup"], adopted)
<1>1. /\ SaveOK(proc[p], dir, disk["backup"], adopted, refused)
      /\ proc[p].next \in Content /\ dir["active"] \in disk["active"]
  BY Known DEF ProcOK, Runtime
<1>2. dir["active"].has \cap refused = {}
  BY <1>1 DEF IInv, Fallbacks
<1> QED BY <1>1, <1>2 DEF SaveOK

LEMMA ReplaceStep ==
  ASSUME IInv, NEW p \in Process, Replace(p)
  PROVE  /\ IInv'
         /\ dir'["active"].has = proc[p].next
<1>1. /\ proc[p].pc = "replace" /\ lock = p /\ FilesOK
      /\ Rename("candidate", "active") /\ Goto(p, "sync") /\ UNCHANGED <<lock, acked, refused, adopted>>
      /\ dir["candidate"] = V3(proc[p].next)
  BY Known DEF Replace, At, Frame, ProcOK, SaveOK
<1>2. /\ proc[p].next \in Content /\ dir["active"].has \subseteq proc[p].next
      /\ proc[p].next \cap refused = {}
      /\ Imported \in proc[p].next => Backed(disk["backup"], adopted)
  BY <1>1, BeforeReplace DEF Writing
<1>3. FilesOK' /\ dir'["active"] = V3(proc[p].next)
  BY <1>1, <1>2, RenameFiles
<1>4. PICK r \in Runtime :
         /\ proc' = [proc EXCEPT ![p] = r]
         /\ r.pc = "sync" /\ r.change = proc[p].change /\ r.next = proc[p].next
  BY <1>1, GotoForm DEF IInv, Pc
<1>5. r.change \in r.next \cup {None}
  BY <1>1, <1>4, Known DEF ProcOK, SaveOK, Writing
<1>6. ProcOK(r, dir', disk'["backup"], adopted', refused')
  BY <1>3, <1>4, <1>5 DEF ProcOK, MigrationOK, SaveOK, OpenOK, Migrating, Writing
<1> QED BY <1>1, <1>2, <1>3, <1>4, <1>6, ProcessMoves, FileFacts

LEMMA DoneForm ==
  ASSUME IInv, NEW p \in Process
  PROVE  /\ Done(p) \in Runtime
         /\ Done(p).pc = "open" /\ Done(p).change = None
         /\ Done(p).committed = proc[p].committed /\ Done(p).reload = proc[p].reload
<1>1. proc[p] \in Runtime /\ {} \in Content
  BY Known DEF Content
<1> QED BY <1>1 DEF Done, Runtime, Pc

(* A change is reported as saved once the directory is synced.              *)
LEMMA SavedStep ==
  ASSUME IInv, NEW p \in Process, Saved(p)
  PROVE  IInv' /\ dir' = dir /\ proc[p].change \in dir["active"].has \cup {None}
<1>1. /\ proc[p].pc = "sync" /\ lock = p /\ FilesOK /\ proc[p] \in Runtime
      /\ SyncDirectory /\ UNCHANGED <<lock, refused, adopted>>
      /\ acked' = acked \cup ({proc[p].change} \ {None})
      /\ dir["active"] = V3(proc[p].next) /\ proc[p].change \in proc[p].next \cup {None}
  BY Known DEF Saved, DirectorySynced, At, ProcOK, SaveOK
<1>2. proc[p].next \in Content /\ proc[p].change \in Change \cup {None}
  BY <1>1 DEF Runtime
<1>3. dir["active"].has = proc[p].next /\ dir["active"].kind = "v3"
  BY <1>1, <1>2, FileFacts
<1>4. acked \subseteq dir["active"].has
  BY Known DEF FilesOK, Fallbacks
<1>5. acked' \subseteq dir["active"].has /\ acked' \subseteq Change \cup {Imported}
  BY <1>1, <1>2, <1>3, <1>4 DEF FilesOK
<1>6. FilesOK' /\ dir' = dir
  BY <1>1, <1>5, SyncFiles
<1> DEFINE r == [Done(p) EXCEPT !.committed = proc[p].next]
<1>7. r \in Runtime /\ r.pc = "open" /\ r.committed = proc[p].next
  BY <1>2, DoneForm DEF Runtime
<1>8. proc' = [proc EXCEPT ![p] = r]
  BY DEF Saved
<1> HIDE DEF r
<1>9. ProcOK(r, dir', disk'["backup"], adopted', refused')
  BY <1>1, <1>3, <1>6, <1>7 DEF ProcOK, MigrationOK, SaveOK, OpenOK, Migrating, Writing
<1> QED BY <1>1, <1>3, <1>6, <1>7, <1>8, <1>9, ProcessMoves

(* A change that did not reach the active file is in nothing it could fall  *)
(* back to.                                                                 *)
LEMMA NotReplacedStep ==
  ASSUME IInv, NEW p \in Process, NotReplaced(p)
  PROVE  /\ IInv'
         /\ UNCHANGED <<dir, acked>>
         /\ \/ UNCHANGED refused
            \/ /\ proc[p].change \in Change \ dir["active"].has
               /\ refused' = refused \cup {proc[p].change}
<1>1. /\ proc[p].pc \in Writing /\ lock = p /\ FilesOK /\ proc[p] \in Runtime
      /\ SaveOK(proc[p], dir, disk["backup"], adopted, refused)
      /\ UNCHANGED <<dir, disk, acked, adopted>>
  BY Known DEF NotReplaced, Writing, Quietly, ProcOK
<1>2. CASE proc[p].change = None
  <2>1. Close(p) /\ UNCHANGED refused
    BY <1>2 DEF NotReplaced
  <2>2. FilesOK'
    BY <1>1, <2>1, QuietFiles
  <2> QED BY <1>1, <2>1, <2>2, Closes
<1>3. CASE proc[p].change # None
  <2>1. /\ proc' = [proc EXCEPT ![p] = Done(p)] /\ lock' = lock
        /\ refused' = refused \cup {proc[p].change}
    BY <1>3 DEF NotReplaced
  <2>2. /\ proc[p].change \in Change \ dir["active"].has
        /\ dir["active"] = V3(proc[p].committed) /\ proc[p].committed \in Content
    BY <1>1, <1>3 DEF SaveOK, Runtime
  <2>3. Fallbacks(disk["active"], acked, refused')
    BY <2>1, <2>2 DEF IInv, Fallbacks, EntriesOK
  <2>4. FilesOK'
    BY <1>1, <2>1, <2>2, <2>3 DEF FilesOK, EntriesOK
  <2>5. dir["active"].kind = "v3"
    BY <2>2, FileFacts
  <2>6. ProcOK(Done(p), dir', disk'["backup"], adopted', refused')
    BY <1>1, <2>2, <2>5, DoneForm DEF ProcOK, MigrationOK, SaveOK, OpenOK, Migrating, Writing
  <2> QED BY <1>1, <2>1, <2>2, <2>4, <2>6, DoneForm, ProcessMoves
<1> QED BY <1>2, <1>3

(* A replaced file whose directory could not be synced is read again.       *)
LEMMA NotSyncedStep ==
  ASSUME IInv, NEW p \in Process, NotSynced(p)
  PROVE  IInv'
<1>1. /\ proc[p].pc = "sync" /\ lock = p /\ FilesOK /\ proc[p] \in Runtime
      /\ dir["active"] = V3(proc[p].next) /\ UNCHANGED <<dir, disk, acked, refused, adopted>>
  BY Known DEF NotSynced, At, Quietly, ProcOK, SaveOK
<1>2. FilesOK'
  BY <1>1, QuietFiles
<1>3. CASE Close(p)
  BY <1>1, <1>2, <1>3, Closes
<1>4. CASE /\ proc' = [proc EXCEPT ![p] = [Done(p) EXCEPT !.reload = ReplacedUnsynced]]
           /\ UNCHANGED lock
  <2> DEFINE r == [Done(p) EXCEPT !.reload = ReplacedUnsynced]
  <2>1. r \in Runtime /\ r.pc = "open" /\ r.reload = TRUE
    BY DoneForm DEF Runtime, ReplacedUnsynced
  <2> HIDE DEF r
  <2>2. dir["active"].kind = "v3"
    <3>1. proc[p].next \in Content
      BY <1>1 DEF Runtime
    <3> QED BY <1>1, <3>1, FileFacts
  <2>3. ProcOK(r, dir', disk'["backup"], adopted', refused')
    BY <1>1, <2>1, <2>2 DEF ProcOK, MigrationOK, SaveOK, OpenOK, Migrating, Writing
  <2>4. proc' = [proc EXCEPT ![p] = r]
    BY <1>4 DEF r
  <2> QED BY <1>1, <1>2, <1>4, <2>1, <2>3, <2>4, ProcessMoves
<1> QED BY <1>3, <1>4 DEF NotSynced

LEMMA ClosingSteps ==
  ASSUME IInv, NEW p \in Process, OpenFails(p) \/ Drop(p) \/ Die(p)
  PROVE  IInv'
<1>1. /\ proc[p].pc # "down" /\ Close(p) /\ UNCHANGED <<dir, disk, acked, refused, adopted>>
  BY DEF OpenFails, Drop, Die, At, Quietly, Frame
<1>2. FilesOK' /\ lock = p
  BY <1>1, QuietFiles, Known
<1> QED BY <1>1, <1>2, Closes

-----------------------------------------------------------------------------
(* Losing power leaves one of the files each entry may fall back to.        *)

LEMMA PowerLossStep ==
  ASSUME IInv, PowerLoss
  PROVE  IInv' /\ dir'["active"].has \subseteq dir["active"].has
<1>1. /\ \A n \in Name : dir'[n] \in disk[n]
      /\ dir' \in [Name -> UNION {disk[n] : n \in Name}]
      /\ disk' = [n \in Name |-> {dir'[n]}]
      /\ proc' = [p \in Process |-> Down] /\ lock' = None /\ UNCHANGED <<acked, refused, adopted>>
  BY DEF PowerLoss
<1>2. "active" \in Name /\ "backup" \in Name
  BY DEF Name
<1>3. FilesOK
  BY InvParts
<1>4. dir' \in [Name -> File] /\ disk' \in [Name -> SUBSET File]
  BY <1>1, <1>3 DEF FilesOK
<1>5. EntriesOK'
  BY <1>1, <1>2, <1>3 DEF FilesOK, EntriesOK
<1>6. Fallbacks(disk["active"], acked, refused)'
  BY <1>1, <1>2, <1>3 DEF FilesOK, Fallbacks
<1>7. MigratedBehind(disk["active"], disk["backup"], adopted)'
  <2>1. disk'["active"] \subseteq disk["active"] /\ disk'["backup"] \subseteq disk["backup"]
    BY <1>1, <1>2
  <2> QED BY <1>1, <1>3, <2>1 DEF FilesOK, MigratedBehind, Backed, Whole
<1>8. LockOK' /\ proc' \in [Process -> Runtime]
  BY <1>1, DownRuntime DEF LockOK, At
<1>9. \A p \in Process : ProcOK(proc'[p], dir', disk'["backup"], adopted', refused')
  BY <1>1, DownRuntime
<1>10. dir'["active"].has \subseteq dir["active"].has
  BY <1>1, <1>2, <1>3 DEF FilesOK, EntriesOK
<1> QED BY <1>1, <1>3, <1>4, <1>5, <1>6, <1>7, <1>8, <1>9, <1>10 DEF IInv, TypeOK, FilesOK

-----------------------------------------------------------------------------
(* The inductive invariant.                                                 *)

LEMMA InitInv == Init => IInv
<1> SUFFICES ASSUME Init PROVE IInv
  OBVIOUS
<1>1. PICK origin \in {Absent, Legacy} :
         /\ dir = [n \in Name |-> IF n = "active" THEN origin ELSE Absent]
         /\ acked = origin.has
  BY DEF Init
<1>2. /\ "active" \in Name /\ disk = [n \in Name |-> {dir[n]}] /\ refused = {}
      /\ adopted = FALSE
      /\ proc = [p \in Process |-> Down] /\ lock = None
  BY DEF Init, Name
<1>3. dir \in [Name -> File] /\ disk \in [Name -> SUBSET File] /\ dir["active"] = origin
  BY <1>1, <1>2, FileFacts
<1>4. acked \subseteq {Imported}
  BY <1>1, FileFacts
<1>5. EntriesOK /\ Fallbacks(disk["active"], acked, refused)
  BY <1>1, <1>2, <1>3, FileFacts DEF EntriesOK, Fallbacks
<1>6. MigratedBehind(disk["active"], disk["backup"], adopted)
  BY <1>2, <1>3, FileFacts DEF MigratedBehind
<1>7. LockOK /\ proc \in [Process -> Runtime]
  BY <1>2, DownRuntime DEF LockOK, At
<1>8. \A p \in Process : ProcOK(proc[p], dir, disk["backup"], adopted, refused)
  BY <1>2, DownRuntime
<1> QED BY <1>2, <1>3, <1>4, <1>5, <1>6, <1>7, <1>8 DEF IInv, TypeOK

LEMMA NextInv == IInv /\ [Next]_vars => IInv'
<1> SUFFICES ASSUME IInv, [Next]_vars PROVE IInv'
  OBVIOUS
<1>1. ASSUME NEW p \in Process, Step(p) PROVE IInv'
  BY <1>1, OpenStep, ReadActiveStep, BackupSteps, SyncBackupStep, TransactionStep,
     SnapshotStep, CandidateSteps, ReplaceStep, SavedStep, NotReplacedStep,
     NotSyncedStep, ClosingSteps DEF Step
<1>2. CASE PowerLoss
  BY <1>2, PowerLossStep
<1>3. CASE UNCHANGED vars
  BY <1>3 DEF vars, IInv, TypeOK, EntriesOK, LockOK, At
<1> QED BY <1>1, <1>2, <1>3 DEF Next

THEOREM Inductive == Spec => []IInv
BY InitInv, NextInv, PTL DEF Spec

(* What was reported as saved survives any loss of power, what was refused  *)
(* comes back from nowhere, a migrated store has its backup (a whole one,   *)
(* unless the opening that migrated went on with a backup an earlier one    *)
(* had not synced), and an open store publishes on top of the active file.  *)
THEOREM SavedSurvives == Spec => []SavedIsDurable
<1>1. IInv => SavedIsDurable
  <2> SUFFICES ASSUME IInv PROVE SavedIsDurable
    OBVIOUS
  <2>1. \A f \in disk["active"] : acked \subseteq f.has /\ f.has \cap refused = {}
    BY DEF IInv, Fallbacks
  <2>2. (\E f \in disk["active"] : f.kind = "v3" /\ Imported \in f.has)
           => /\ disk["backup"] \subseteq {Legacy, Partial}
              /\ Partial \in disk["backup"] => adopted
    BY DEF IInv, MigratedBehind, Backed, Whole
  <2>3. \A p \in Process : /\ ~At(p, "down") => lock = p
                           /\ At(p, "open") /\ ~proc[p].reload => dir["active"] = V3(proc[p].committed)
    BY DEF IInv, LockOK, At, ProcOK, OpenOK
  <2> QED BY <2>1, <2>2, <2>3 DEF SavedIsDurable, At
<1> QED BY <1>1, Inductive, PTL

-----------------------------------------------------------------------------
(* The register of DurableJobs, step by step: replacing the active file     *)
(* applies the change of a transaction, syncing the directory acknowledges  *)
(* it, a failure before the replacement refuses it, and a loss of power may *)
(* lose what was not acknowledged.  Every other step stutters.              *)

RegisterStutters ==
  UNCHANGED <<dir["active"].has \ {Imported}, acked \ {Imported}, refused>>

LEMMA ReplaceApplies ==
  ASSUME IInv, NEW p \in Process, Replace(p)
  PROVE  RegisterStutters \/ \E t \in Change : Jobs!Apply(t)
<1>1. /\ proc[p].pc = "replace" /\ UNCHANGED <<acked, refused>> /\ proc[p] \in Runtime
      /\ SaveOK(proc[p], dir, disk["backup"], adopted, refused)
      /\ dir'["active"].has = proc[p].next
  BY Known, ReplaceStep DEF Replace, At, Frame, ProcOK
<1>2. /\ proc[p].change \in Change \cup {None}
      /\ proc[p].next = dir["active"].has \cup ({proc[p].change} \ {None})
      /\ proc[p].change # None => proc[p].change \notin dir["active"].has \cup refused
  BY <1>1 DEF SaveOK, Writing, Runtime
<1>3. CASE proc[p].change = None
  BY <1>1, <1>2, <1>3 DEF RegisterStutters
<1>4. CASE proc[p].change # None
  BY <1>1, <1>2, <1>4, StoreAssumption DEF Jobs!Apply
<1> QED BY <1>3, <1>4

LEMMA SavedAcknowledges ==
  ASSUME IInv, NEW p \in Process, Saved(p)
  PROVE  RegisterStutters \/ \E t \in Change : Jobs!Acknowledge(t)
<1>1. /\ dir' = dir /\ proc[p].change \in dir["active"].has \cup {None}
      /\ acked' = acked \cup ({proc[p].change} \ {None}) /\ UNCHANGED refused
      /\ proc[p].change \in Change \cup {None}
  BY SavedStep, Known DEF Saved, Runtime
<1>2. CASE proc[p].change = None
  BY <1>1, <1>2 DEF RegisterStutters
<1>3. CASE proc[p].change # None
  BY <1>1, <1>3, StoreAssumption DEF Jobs!Acknowledge
<1> QED BY <1>2, <1>3

LEMMA NotReplacedRefuses ==
  ASSUME IInv, NEW p \in Process, NotReplaced(p)
  PROVE  RegisterStutters \/ \E t \in Change : Jobs!Refuse(t)
BY NotReplacedStep DEF RegisterStutters, Jobs!Refuse

LEMMA PowerLossLoses ==
  ASSUME IInv, PowerLoss
  PROVE  \E lost \in SUBSET (dir["active"].has \ {Imported}) : Jobs!Lose(lost)
<1> DEFINE lost == (dir["active"].has \ dir'["active"].has) \ {Imported}
<1>1. dir'["active"].has \subseteq dir["active"].has /\ UNCHANGED <<acked, refused>>
  BY PowerLossStep DEF PowerLoss
<1>2. acked \subseteq dir'["active"].has
  <2>1. dir'["active"] \in disk["active"]
    BY DEF PowerLoss, Name
  <2> QED BY <2>1 DEF IInv, Fallbacks
<1>3. lost \in SUBSET (dir["active"].has \ {Imported}) /\ Jobs!Lose(lost)
  BY <1>1, <1>2 DEF Jobs!Lose
<1> QED BY <1>3

(* Every other step leaves the active file and the reports alone.           *)
LEMMA OtherStepsStutter ==
  ASSUME IInv, NEW p \in Process, Step(p), ~Replace(p), ~Saved(p), ~NotReplaced(p)
  PROVE  RegisterStutters
<1>1. UNCHANGED <<acked, refused>>
  BY DEF Step, Open, ReadActive, BeginBackup, CopyBackup, FlushBackup, SyncBackup, Transaction, Snapshot,
     WriteCandidate, SyncCandidate, VerifyCandidate, NotSynced, OpenFails, Drop, Die, Frame
<1>2. dir'["active"] = dir["active"]
  <2>1. \/ UNCHANGED dir
        \/ \E n \in {"candidate", "backup"}, f \in {Partial, Legacy, V3(proc[p].next)} :
             dir' = [dir EXCEPT ![n] = f]
    BY DEF Step, Open, ReadActive, BeginBackup, CopyBackup, FlushBackup, SyncBackup, Transaction, Snapshot,
       WriteCandidate, SyncCandidate, VerifyCandidate, NotSynced, OpenFails, Drop, Die, Frame,
       Quietly, Put, Fill, Evidence, SyncDirectory
  <2> QED BY <2>1 DEF IInv, TypeOK, Name
<1> QED BY <1>1, <1>2 DEF RegisterStutters

(* The store implements the register its callers assume.                    *)
THEOREM ImplementsJobs == Spec => IsDurableJobs
<1> DEFINE register == <<dir["active"].has \ {Imported}, acked \ {Imported}, refused>>
<1>1. Init => Jobs!Init
  BY FileFacts DEF Init, Jobs!Init, Name
<1>2. IInv /\ [Next]_vars => [Jobs!Next]_register
  <2> SUFFICES ASSUME IInv, [Next]_vars
               PROVE  Jobs!Next \/ RegisterStutters
    BY DEF RegisterStutters
  <2>1. ASSUME NEW p \in Process, Step(p) PROVE Jobs!Next \/ RegisterStutters
    BY <2>1, ReplaceApplies, SavedAcknowledges, NotReplacedRefuses, OtherStepsStutter
       DEF Jobs!Next
  <2>2. CASE PowerLoss
    BY <2>2, PowerLossLoses DEF Jobs!Next
  <2>3. CASE UNCHANGED vars
    BY <2>3 DEF vars, RegisterStutters
  <2> QED BY <2>1, <2>2, <2>3 DEF Next
<1> QED BY <1>1, <1>2, Inductive, PTL DEF Spec, IsDurableJobs, Jobs!Spec
=============================================================================
