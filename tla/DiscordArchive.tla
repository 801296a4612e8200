---------------------------- MODULE DiscordArchive ----------------------------
(***************************************************************************)
(* Reading a Discord export (crates/discord-archive): the ZIP directory is *)
(* inspected once and kept, the profile is detected, a typed reader is     *)
(* opened on both and its one pass hands the channels and messages to a    *)
(* sink.  The input is a file that somebody else may overwrite between any *)
(* two reads, and any call may be cancelled, fail to read or exceed a      *)
(* quota (Stop).                                                           *)
(*                                                                         *)
(* A file is its entries in the order of its directory, the content of an  *)
(* entry stands for its bytes, and a checksum that matches is taken to     *)
(* mean the same bytes.  A component of a name is its folded word and      *)
(* whether it is spelt as the profile spells it.                           *)
(***************************************************************************)
EXTENDS Integers, Sequences, FiniteSets, SequencesExt

CONSTANTS
    Files,          \* what the selected file may hold
    Folders,        \* the folders of channels, c<id>, in the order of their identifiers
    MaxOverwrites,  \* times the file is replaced while it is open
    MaxPasses       \* calls of visit_channels

\* A file lists entries: each has its name and its place, and a transcript its records.
ASSUME DiscordArchiveAssumption ==
    /\ MaxOverwrites \in Nat /\ MaxPasses \in Nat
    /\ \A n, k \in DOMAIN Folders : Folders[n] = Folders[k] => n = k
    /\ DOMAIN Folders = 1..Len(Folders) /\ Len(Folders) \in Nat
    /\ \A f \in Files : \A i \in DOMAIN f :
         /\ f[i].name \in Seq([word : STRING, exact : BOOLEAN])
         /\ f[i].from \in Nat /\ f[i].to \in Nat /\ f[i].from < f[i].to
         /\ f[i].content.kind = "messages" => "records" \in DOMAIN f[i].content

VARIABLES
    held,           \* what the file holds now
    listed,         \* ArchiveInventory::entries: the directory as it was inspected
    stage,          \* the call under way, or the last one that returned
    tasks,           \* what the call still has to do, entry by entry
    profile,        \* ProfileInspection: [account, contexts]
    selection,      \* DiscordArchiveReader::contexts
    attempted,      \* DiscordArchiveReader::attempted
    sink,           \* what the sink was given, by channel: [folder, header, messages, ended]
    overwrites, passes

archiveVars == <<held, listed, stage, tasks, profile, selection, attempted, sink,
                 overwrites, passes>>

Nothing == [kind |-> "nothing", size |-> 0]      \* no entry, no header
NoProfile == [account |-> Nothing, contexts |-> <<>>]

ArchiveStart(file, at) ==
    /\ held = file /\ listed = <<>> /\ stage = at /\ tasks = <<>> /\ profile = NoProfile
    /\ selection = <<>> /\ attempted = FALSE /\ sink = <<>> /\ overwrites = 0 /\ passes = 0

ArchiveInit == \E f \in Files : ArchiveStart(f, "inspect")
ArchiveIdle == ArchiveStart(<<>>, "refused")
-----------------------------------------------------------------------------
\* Inspection

Folded(path) == [n \in 1..Len(path) |-> path[n].word]
IsDirectory(e, path) == path # e.name \/ e.directory

\* validate_name: every folder or file has one spelling and one kind, and is
\* listed at most once.
NamesAgree(a, b) ==
    \A p \in Prefixes(a.name), q \in Prefixes(b.name) :
        Folded(p) = Folded(q) => /\ p = q
                                 /\ IsDirectory(a, p) = IsDirectory(b, q)
                                 /\ ~(p = a.name /\ q = b.name)

\* The local records leave no gap and no overlap before the directory: sorted by their
\* places, each begins where the one before ends.  So no two begin together, and each
\* begins at 0 or where another one ends.
Tiled(files) ==
    /\ \A i, j \in DOMAIN files : i # j => files[i].from # files[j].from
    /\ \A i \in DOMAIN files : \/ files[i].from = 0
                               \/ \E j \in DOMAIN files : files[j].to = files[i].from

\* plain: the method, flags, host, attributes and sizes are the accepted ones.
Listable(files) ==
    /\ \A i \in DOMAIN files : files[i].plain /\ (files[i].directory => files[i].declared = 0)
    /\ \A i, j \in DOMAIN files : i # j => NamesAgree(files[i], files[j])
    /\ Tiled(files)

InspectDirectory ==
    /\ stage = "inspect"
    /\ listed' = held
    /\ stage' = IF Listable(held) THEN "locals" ELSE "refused"
    /\ UNCHANGED <<held, tasks, profile, selection, attempted, sink, overwrites, passes>>

\* What the file holds now where the directory places entry i.
Places(i) == {k \in DOMAIN held : held[k].from = listed[i].from}
LocalAgrees(i) ==
    \E k \in Places(i) : /\ held[k].name = listed[i].name /\ held[k].to = listed[i].to
                         /\ held[k].declared = listed[i].declared /\ held[k].crc = listed[i].crc

\* The local headers are read after the directory and compared with it.
InspectLocals ==
    /\ stage = "locals"
    /\ stage' = IF \A i \in DOMAIN listed : LocalAgrees(i) THEN "inspected" ELSE "refused"
    /\ UNCHANGED <<held, listed, tasks, profile, selection, attempted, sink, overwrites, passes>>

Content(i) == IF Places(i) = {} THEN Nothing ELSE held[CHOOSE k \in Places(i) : TRUE].content

\* consume drains the entry: the decoder checks the checksum of what it has read, and as
\* many bytes as declared must have been seen.
Intact_Unread(i, c) == c # Nothing
Intact(i, c) == c # Nothing /\ c = listed[i].crc /\ c.size = listed[i].declared
-----------------------------------------------------------------------------
\* The profile

Selectable == {i \in DOMAIN listed : ~listed[i].directory}
Words(i) == Folded(listed[i].name)
Spelt(i) == \A n \in DOMAIN listed[i].name : listed[i].name[n].exact
IsAccount(i) == Words(i) = <<"account", "user.json">> /\ Spelt(i)
IsIndex(i) == Words(i) = <<"messages", "index.json">> /\ Spelt(i)
IsHalf(i, folder, file) == Words(i) = <<"messages", folder, file>> /\ Spelt(i)

\* The names no reader may leave aside.
Reserved(i) ==
    \/ Last(Words(i)) \in {"user.json", "account.json", "channel.json", "messages.json",
                           "messages.csv"}
    \/ Last(Words(i)) = "index.json" /\ \E n \in DOMAIN Words(i) : Words(i)[n] = "messages"

Half(folder, file) == {i \in Selectable : IsHalf(i, folder, file)}
Only(set) == CHOOSE i \in set : TRUE
Halves == {n \in DOMAIN Folders : Half(Folders[n], "channel.json") # {}
                                \/ Half(Folders[n], "messages.json") # {}}
Rising(s) == \A i, j \in DOMAIN s : i < j => s[i] < s[j]
Paired == LET places == CHOOSE s \in [1..Cardinality(Halves) -> Halves] : Rising(s)
          IN [k \in 1..Cardinality(Halves) |-> Folders[places[k]]]

\* detect: everything that looks like a part of an export is a part of this one,
\* and every folder has both halves.
Classified ==
    /\ \A i \in Selectable : Reserved(i) =>
           IsAccount(i) \/ IsIndex(i)
           \/ \E f \in ToSet(Folders) : (IsHalf(i, f, "channel.json") \/ IsHalf(i, f, "messages.json"))
    /\ \E i \in Selectable : IsAccount(i)
    /\ \E i \in Selectable : IsIndex(i)
    /\ \A f \in ToSet(Paired) : Half(f, "channel.json") # {} /\ Half(f, "messages.json") # {}

Task(do, i, folder) == [do |-> do, entry |-> i, folder |-> folder]
TheAccount == Only({i \in Selectable : IsAccount(i)})
TheIndex == Only({i \in Selectable : IsIndex(i)})
HeaderTask(folder) == Task("context", Only(Half(folder, "channel.json")), folder)

\* Two lists of the same length, in turn.
InTurn(s, t) == [n \in 1..(2 * Len(s)) |-> IF n % 2 = 1 THEN s[(n + 1) \div 2] ELSE t[n \div 2]]

\* The probe of every selected entry, and then the typed headers.
DetectTasks ==
    LET probe(do, file) == [n \in DOMAIN Paired |-> Task(do, Only(Half(Paired[n], file)), "none")]
    IN <<Task("object", TheAccount, "none"), Task("object", TheIndex, "none")>>
       \o InTurn(probe("object", "channel.json"), probe("transcript", "messages.json"))
       \o <<Task("account", TheAccount, "none")>>
       \o [n \in DOMAIN Paired |-> HeaderTask(Paired[n])]

Detect ==
    /\ stage = "inspected"
    /\ stage' = IF Classified THEN "detecting" ELSE "refused"
    /\ tasks' = IF Classified THEN DetectTasks ELSE <<>>
    /\ UNCHANGED <<held, listed, profile, selection, attempted, sink, overwrites, passes>>
-----------------------------------------------------------------------------
\* The typed reader

\* A ProfileInspection is a public value: the caller may have left a context out
\* or exchanged the transcripts of two.
Without(k) == [profile EXCEPT !.contexts = RemoveAt(@, k)]
Exchanged(k, l) == [profile EXCEPT !.contexts[k].messages = profile.contexts[l].messages,
                                   !.contexts[l].messages = profile.contexts[k].messages]
Hints == {profile} \cup {Without(k) : k \in DOMAIN profile.contexts}
         \cup {Exchanged(k, l) : k, l \in DOMAIN profile.contexts}

Consistent(hint) ==
    \A k \in DOMAIN hint.contexts :
        /\ IsHalf(hint.contexts[k].entry, hint.contexts[k].header.id, "channel.json")
        /\ IsHalf(hint.contexts[k].messages, hint.contexts[k].header.id, "messages.json")

\* open reads the account, the index and every header again.
OpenTasks(contexts) ==
    <<Task("account", TheAccount, "none"), Task("object", TheIndex, "none")>>
    \o [k \in DOMAIN contexts |-> Task("context", contexts[k].entry, contexts[k].header.id)]

Open ==
    /\ stage = "detected"
    /\ \E hint \in Hints :
        /\ profile' = hint
        /\ stage' = IF Consistent(hint) THEN "opening" ELSE "refused"
        /\ tasks' = IF Consistent(hint) THEN OpenTasks(hint.contexts) ELSE <<>>
    /\ UNCHANGED <<held, listed, selection, attempted, sink, overwrites, passes>>

\* Inspections are hints, never authority to omit reserved entries.
Chosen == {TheAccount, TheIndex} \cup UNION {{s.entry, s.messages} : s \in ToSet(selection)}
NothingLeftOut == \A i \in Selectable \ Chosen : ~Reserved(i)

VisitTasks ==
    LET each(do, entry(_)) ==
            [k \in DOMAIN selection |-> Task(do, entry(selection[k]), selection[k].folder)]
    IN <<Task("account", TheAccount, "none")>>
       \o InTurn(each("context", LAMBDA s : s.entry), each("stream", LAMBDA s : s.messages))

\* visit_channels: one pass per reader, whether it fails or not.
Visit ==
    /\ stage \in {"opened", "visited"} /\ passes < MaxPasses
    /\ passes' = passes + 1
    /\ attempted' = TRUE
    /\ IF attempted THEN UNCHANGED <<stage, tasks>>
       ELSE /\ stage' = "visiting"
            /\ tasks' = VisitTasks
    /\ UNCHANGED <<held, listed, profile, selection, sink, overwrites>>
-----------------------------------------------------------------------------
\* The entries of a call, one at a time

Fail == /\ stage' = IF stage = "visiting" THEN "opened" ELSE "refused"
        /\ tasks' = <<>>
        /\ UNCHANGED <<held, listed, profile, selection, attempted, sink, overwrites, passes>>

\* HeaderFields::context
IsContext(c) == c.kind = "context" /\ (c.guild => ~c.recipients /\ c.name)

Hinted(folder) == Only({x \in ToSet(profile.contexts) : x.header.id = folder})

\* What the parse of a task accepts.  In detect a header has the identifier of its
\* folder, in open it equals the inspected one, in the pass it has its identifier.
Accepts(t, c) ==
    CASE t.do = "object" -> c.kind \in {"account", "index", "context"}
      [] t.do = "transcript" -> c.kind = "messages" /\ \A n \in DOMAIN c.records : c.records[n].whole
      [] t.do = "account" -> c.kind = "account" /\ (stage # "detecting" => c = profile.account)
      [] t.do = "context" -> /\ IsContext(c)
                             /\ IF stage = "opening" THEN c = Hinted(t.folder).header
                                ELSE c.id = t.folder

Consume ==
    /\ tasks # <<>> /\ Head(tasks).do # "stream"
    /\ LET t == Head(tasks)
           c == Content(t.entry)
       IN IF ~(Intact(t.entry, c) /\ Accepts(t, c)) THEN Fail
          ELSE /\ tasks' = Tail(tasks)
               /\ profile' =
                    IF stage # "detecting" THEN profile
                    ELSE IF t.do = "account" THEN [profile EXCEPT !.account = c]
                    ELSE IF t.do = "context"
                    THEN [profile EXCEPT !.contexts =
                            Append(@, [entry |-> t.entry, header |-> c,
                                       messages |-> Only(Half(t.folder, "messages.json"))])]
                    ELSE profile
               /\ selection' =
                    IF stage = "opening" /\ t.do = "context"
                    THEN Append(selection, [entry |-> t.entry, folder |-> t.folder,
                                            messages |-> Hinted(t.folder).messages])
                    ELSE selection
               /\ sink' = IF stage = "visiting" /\ t.do = "context"
                          THEN Append(sink, [folder |-> t.folder, header |-> c,
                                             messages |-> <<>>, ended |-> FALSE])
                          ELSE sink
               /\ UNCHANGED <<held, listed, stage, attempted, overwrites, passes>>

\* Message::visit_map and timestamp_millis: no author, every field once, and the
\* timestamp is the second of the message's snowflake.
Second(id) == id \div 2
Sendable(record) == record.whole /\ ~record.author /\ record.stamp = Second(record.id)

\* stream: the records are handed on as they are read, the channel ends only when
\* the whole entry has been read and checked.  The file may have been replaced between
\* two of them, so what was read is the records as they were and the rest as it is now.
Stream ==
    /\ tasks # <<>> /\ Head(tasks).do = "stream"
    /\ LET i == Head(tasks).entry
           c == Content(i)
           n == Len(Last(sink).messages) + 1
       IN IF c = Nothing \/ c.kind # "messages" THEN Fail
          ELSE IF n <= Len(c.records)
          THEN IF ~Sendable(c.records[n]) THEN Fail
               ELSE /\ sink' = [sink EXCEPT ![Len(sink)].messages = Append(@, c.records[n])]
                    /\ UNCHANGED <<held, listed, stage, tasks, profile, selection, attempted,
                                   overwrites, passes>>
          ELSE IF ~Intact(i, [c EXCEPT !.records = Last(sink).messages]) THEN Fail
          ELSE /\ sink' = [sink EXCEPT ![Len(sink)].ended = TRUE]
               /\ tasks' = Tail(tasks)
               /\ UNCHANGED <<held, listed, stage, profile, selection, attempted, overwrites,
                              passes>>

\* A call that has done everything returns.
Returns ==
    /\ tasks = <<>> /\ stage \in {"detecting", "opening", "visiting"}
    /\ stage' = CASE stage = "detecting" -> "detected"
                  [] stage = "opening" -> IF NothingLeftOut THEN "opened" ELSE "refused"
                  [] stage = "visiting" -> "visited"
    /\ UNCHANGED <<held, listed, tasks, profile, selection, attempted, sink, overwrites, passes>>

\* Cancellation, a failed read, a quota, or the sink's own error.
Stop == /\ stage \in {"detecting", "opening", "visiting"}
        /\ Fail

Overwrite ==
    /\ overwrites < MaxOverwrites /\ stage \notin {"refused", "visited"}
    /\ \E f \in Files : held' = f
    /\ overwrites' = overwrites + 1
    /\ UNCHANGED <<listed, stage, tasks, profile, selection, attempted, sink, passes>>

ArchiveNext == \/ InspectDirectory \/ InspectLocals \/ Detect \/ Open \/ Visit
               \/ Consume \/ Stream \/ Returns \/ Stop \/ Overwrite

ArchiveSpec == ArchiveInit /\ [][ArchiveNext]_archiveVars
-----------------------------------------------------------------------------
\* An opened reader has the whole export: every entry that could belong to one is
\* selected, with the header and the transcript of the same channel, no byte belongs
\* to two entries and no two names fall together on a disk that folds case - whatever
\* inspection the caller presented and whoever wrote the file.
Whole ==
    /\ Chosen = {i \in Selectable : Reserved(i)}
    /\ \A s \in ToSet(selection) : /\ listed[s.entry].crc.id = s.folder
                                   /\ IsHalf(s.messages, s.folder, "messages.json")
    /\ \A i, j \in DOMAIN listed : i # j =>
           /\ listed[i].to <= listed[j].from \/ listed[j].to <= listed[i].from
           /\ Words(i) # Words(j)

\* A reader that opens selects the whole export; and what the sink was told is complete
\* are the records of the inspected entry, in their order and all of them, under the
\* inspected header; the pass that wrote them is the only one, every channel before the
\* last one is complete, and a pass that returned has completed every channel.
CompletedIsInspected ==
    /\ stage \in {"opened", "visiting", "visited"} => Whole
    /\ \A k \in DOMAIN sink :
        LET s == Only({x \in ToSet(selection) : x.folder = sink[k].folder})
        IN /\ sink[k].ended => /\ sink[k].messages = listed[s.messages].crc.records
                               /\ sink[k].header = listed[s.entry].crc
           /\ k < Len(sink) => sink[k].ended
    /\ \A k, l \in DOMAIN sink : k # l => sink[k].folder # sink[l].folder
    /\ stage = "visited" => /\ Len(sink) = Len(selection)
                            /\ \A k \in DOMAIN sink : sink[k].ended
=============================================================================
