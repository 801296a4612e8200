---------------------------- MODULE TelegramCatalog ----------------------------
(***************************************************************************)
(* The catalog of chats the native gateway keeps                           *)
(* (providers/telegram/native/live_gateway.rs): the cached summaries, the  *)
(* marks that an update leaves on them, the calls that load, refresh and   *)
(* overwrite them, and the loop that reads TDLib's updates.  Every request *)
(* to TDLib is an await, so any number of calls and the loop interleave    *)
(* between the reading of a chat and the writing of its summary.           *)
(*                                                                         *)
(* A summary is the version of the chat it was made from.  The kinds,      *)
(* progress and titles that are rewritten with it are left out, and so is  *)
(* the invalidation at the next sign-in, before which no call can start:   *)
(* this is the catalog of one authorization.                               *)
(***************************************************************************)
EXTENDS Integers, Sequences, FiniteSets

CONSTANTS
    Chats,
    Groups,         \* the chats that basic groups and supergroups are shown in
    Callers,
    MaxChanges,     \* changes of a chat on the server
    MaxCalls        \* calls of the gateway

ASSUME TelegramCatalogAssumption ==
    Groups \subseteq Chats /\ MaxChanges \in Nat /\ MaxCalls \in Nat

VARIABLES
    shown, version,    \* the server: the chats of the main and archive lists, and what they are
    updates,            \* the subscription's queue
    resolving,          \* the group whose chat the loop is asking for
    loaded, summary,    \* chat_summary_cache: whether it is Some, and a version or Absent
    dirty,              \* dirty_chat_summaries
    known,              \* group_chat_ids
    reading,             \* by caller: [at, ids, left, read]
    clearing,            \* the loop has dropped the cache and is about to drop the marks
    calls, changes,
    overtaken           \* history: chats that a late reader, a late removal or a full
                        \* buffer has left without the mark they need

catalogVars == <<shown, version, updates, resolving, loaded, summary, dirty, known, reading,
                 clearing, calls, changes, overtaken>>

Absent == 0
Unread == [c \in Chats |-> Absent]
Idle == [at |-> "idle", ids |-> {}, left |-> {}, read |-> Unread]
Current(c) == IF c \in shown THEN version[c] ELSE Absent

CatalogStart(callers, chats) ==
    /\ shown = chats /\ version = [c \in Chats |-> 1] /\ updates = <<>> /\ resolving = {}
    /\ loaded = FALSE /\ summary = Unread /\ dirty = {} /\ known = {}
    /\ reading = [a \in callers |-> Idle] /\ clearing = FALSE /\ calls = 0 /\ changes = 0 /\ overtaken = {}

CatalogInit == \E chats \in SUBSET Chats : CatalogStart(Callers, chats)
CatalogIdle == CatalogStart({}, {})
-----------------------------------------------------------------------------
\* TDLib

\* A chat changes on the server, or enters or leaves the lists, and an update says so.
Change(c) ==
    /\ changes < MaxChanges
    /\ changes' = changes + 1
    /\ version' = [version EXCEPT ![c] = changes + 2]
    /\ shown' \in {shown, shown \cup {c}, shown \ {c}}
    /\ updates' = Append(updates, c)

ChangeElsewhere(c) ==
    /\ Change(c)
    /\ UNCHANGED <<resolving, loaded, summary, dirty, known, reading, clearing, calls, overtaken>>
-----------------------------------------------------------------------------
\* The update loop

\* mark_chat_summary_dirty: without a cache the mark is dropped.
Marked(c) == IF loaded THEN dirty \cup {c} ELSE dirty

\* What a call is going to write about c is no longer so: it has read the chat, or
\* the lists, before.
Outdated(a, c) ==
    IF reading[a].at = "load" /\ (c \in reading[a].ids) # (c \in shown) THEN TRUE
    ELSE /\ reading[a].at \in {"load", "refresh", "again", "direct"}
         /\ c \in reading[a].ids \ reading[a].left /\ reading[a].read[c] # Current(c)

\* A load leaves no mark of an update processed meanwhile.
Mark(c) ==
    /\ dirty' = Marked(c)
    /\ overtaken' = IF \E a \in DOMAIN reading : reading[a].at = "load" /\ Outdated(a, c)
                    THEN overtaken \cup {c} ELSE overtaken

\* A mark or an update of c would still change what is shown of it.
Needed(c) ==
    \/ loaded /\ summary[c] # Current(c)
    \/ \E a \in DOMAIN reading : Outdated(a, c)

\* The subscription's buffer is bounded and takes every update of TDLib: when the loop
\* lags, the oldest updates are gone, and the loop goes on with the next.
Lag ==
    /\ updates # <<>>
    /\ updates' = Tail(updates)
    /\ overtaken' = overtaken \cup {c \in {Head(updates)} : Needed(c)}
    /\ UNCHANGED <<shown, version, resolving, loaded, summary, dirty, known, reading, clearing,
                   calls, changes>>

\* An update that names its chat, or the group of a chat that is known.
Process ==
    /\ updates # <<>> /\ resolving = {} /\ ~clearing
    /\ LET c == Head(updates)
       IN IF c \in Groups \ known
          THEN resolving' = {c} /\ UNCHANGED <<dirty, overtaken>>
          ELSE Mark(c) /\ UNCHANGED resolving
    /\ updates' = Tail(updates)
    /\ UNCHANGED <<shown, version, loaded, summary, known, reading, clearing, calls, changes>>

\* mark_group_summary_dirty: TDLib resolves the group's chat, or it does not and the
\* whole cache is dropped, and after it the marks.
Resolve ==
    /\ resolving' = {}
    /\ \E c \in resolving :
        \/ /\ known' = known \cup {c} /\ Mark(c)
           /\ UNCHANGED <<loaded, summary, clearing>>
        \/ /\ loaded' = FALSE /\ summary' = Unread /\ clearing' = loaded
           /\ IF loaded THEN UNCHANGED <<dirty, overtaken>> ELSE Mark(c)
           /\ UNCHANGED known
    /\ UNCHANGED <<shown, version, updates, reading, calls, changes>>

\* By now the cache may have been loaded again, and its chats marked by mutations.
ClearMarks ==
    /\ clearing /\ clearing' = FALSE
    /\ dirty' = {}
    /\ UNCHANGED <<shown, version, updates, resolving, loaded, summary, known, reading, calls, changes,
                   overtaken>>
-----------------------------------------------------------------------------
\* The calls

\* refresh_dirty_chat_summaries takes the marks away before it reads the chats.
Drained(at) == [at |-> at, ids |-> dirty, left |-> dirty, read |-> Unread]

\* chat_summaries: the cache answers when nothing is marked.
AskSummaries(a) ==
    /\ reading[a].at = "idle" /\ calls < MaxCalls
    /\ calls' = calls + 1
    /\ IF ~loaded THEN reading' = [reading EXCEPT ![a].at = "wait"] /\ UNCHANGED dirty
       ELSE IF dirty = {} THEN UNCHANGED <<reading, dirty>>
       ELSE reading' = [reading EXCEPT ![a] = Drained("refresh")] /\ dirty' = {}
    /\ UNCHANGED <<shown, version, updates, resolving, loaded, summary, known, clearing, changes, overtaken>>

\* chat_summary_load_lock: the cache is looked at again, and the lists are loaded.
Lock(a) ==
    /\ \/ reading[a].at = "wait" /\ \A b \in DOMAIN reading : reading[b].at \notin {"load", "again", "reload"}
       \/ reading[a].at = "reload"
    /\ dirty' = {}
    /\ reading' = [reading EXCEPT ![a] =
                  IF ~loaded THEN [at |-> "load", ids |-> shown, left |-> shown, read |-> Unread]
                  ELSE IF dirty = {} THEN Idle ELSE Drained("again")]
    /\ known' = IF loaded THEN known ELSE {}
    /\ UNCHANGED <<shown, version, updates, resolving, loaded, summary, clearing, calls, changes, overtaken>>

\* chat_by_id
StartDirect(a, c) ==
    /\ reading[a].at = "idle" /\ calls < MaxCalls
    /\ calls' = calls + 1
    /\ reading' = [reading EXCEPT ![a] = [at |-> "direct", ids |-> {c}, left |-> {c}, read |-> Unread]]
    /\ UNCHANGED <<shown, version, updates, resolving, loaded, summary, dirty, known, clearing, changes,
                   overtaken>>

\* request_chat and map_chat.  A load does not ask whether the chat is still shown.
Read(a, c) ==
    /\ c \in reading[a].left
    /\ reading' = [reading EXCEPT ![a].left = @ \ {c},
                            ![a].read[c] = IF reading[a].at = "load" THEN version[c] ELSE Current(c)]
    /\ known' = IF c \in Groups /\ reading'[a].read[c] # Absent THEN known \cup {c} ELSE known
    /\ UNCHANGED <<shown, version, updates, resolving, loaded, summary, dirty, clearing, calls, changes,
                   overtaken>>

\* A failed request ends the call; a refresh gives its marks back.
PutBack_Dropped(a) == dirty
PutBack(a) == IF reading[a].at \in {"refresh", "again"} THEN dirty \cup reading[a].ids ELSE dirty

ReadFails(a) ==
    /\ reading[a].left # {}
    /\ dirty' = PutBack(a)
    /\ reading' = [reading EXCEPT ![a] = Idle]
    /\ UNCHANGED <<shown, version, updates, resolving, loaded, summary, known, clearing, calls, changes,
                   overtaken>>

\* apply_chat_summary_updates for a refresh or a chat_by_id, the whole cache for a load.
\* A chat_by_id that found its chat then takes the mark of it away; a chat_summaries that
\* lost the cache meanwhile loads it, under the lock if it holds it.
AfterWrite(a) ==
    CASE reading[a].at = "direct" /\ (\E c \in reading[a].ids : reading[a].read[c] # Absent) ->
            [Idle EXCEPT !.at = "unmark", !.ids = reading[a].ids]
      [] reading[a].at = "refresh" /\ ~loaded -> [Idle EXCEPT !.at = "wait"]
      [] reading[a].at = "again" /\ ~loaded -> [Idle EXCEPT !.at = "reload"]
      [] OTHER -> Idle

Apply(a) ==
    /\ reading[a].at \in {"refresh", "again", "direct", "load"} /\ reading[a].left = {}
    /\ LET load == reading[a].at = "load"
           written == IF load THEN Chats ELSE IF loaded THEN reading[a].ids ELSE {}
       IN /\ summary' = [c \in Chats |-> IF c \in written THEN reading[a].read[c] ELSE summary[c]]
          /\ loaded' = (loaded \/ load)
          /\ overtaken' = {c \in overtaken \cup written :
                              \/ \E b \in DOMAIN reading \ {a} : Outdated(b, c)
                              \/ c \in overtaken /\ summary'[c] # Current(c)}
          /\ reading' = [reading EXCEPT ![a] = AfterWrite(a)]
    /\ UNCHANGED <<shown, version, updates, resolving, dirty, known, clearing, calls, changes>>

\* The locks are taken one after the other: the chat may have been marked again since.
Unmark(a) ==
    /\ reading[a].at = "unmark"
    /\ dirty' = dirty \ reading[a].ids
    /\ overtaken' = overtaken \cup {c \in dirty \cap reading[a].ids : loaded /\ Needed(c)}
    /\ reading' = [reading EXCEPT ![a] = Idle]
    /\ UNCHANGED <<shown, version, updates, resolving, loaded, summary, known, clearing, calls, changes>>

\* A mutation: the request changes the chat, and then the summary is marked.
Mutate(a, c) ==
    /\ reading[a].at = "idle" /\ calls < MaxCalls
    /\ calls' = calls + 1
    /\ Change(c)
    /\ reading' = [reading EXCEPT ![a] = [Idle EXCEPT !.at = "mutated", !.ids = {c}]]
    /\ UNCHANGED <<resolving, loaded, summary, dirty, known, clearing, overtaken>>

MarkMutated(a) ==
    /\ reading[a].at = "mutated"
    /\ \E c \in reading[a].ids : Mark(c)
    /\ reading' = [reading EXCEPT ![a] = Idle]
    /\ UNCHANGED <<shown, version, updates, resolving, loaded, summary, known, clearing, calls, changes>>

CatalogNext ==
    \/ Process \/ Lag \/ Resolve \/ ClearMarks
    \/ \E a \in DOMAIN reading :
        \/ AskSummaries(a) \/ Lock(a) \/ ReadFails(a) \/ Apply(a) \/ Unmark(a) \/ MarkMutated(a)
        \/ \E c \in Chats : StartDirect(a, c) \/ Read(a, c) \/ Mutate(a, c)
    \/ DOMAIN reading # {} /\ \E c \in Chats : ChangeElsewhere(c)

CatalogSpec == CatalogInit /\ [][CatalogNext]_catalogVars
-----------------------------------------------------------------------------
\* Somebody is going to look at c again: it is marked, its update is still to be
\* processed, or a call that will write it has not read it or has read it as it is.
Pending(c) ==
    \/ c \in dirty \/ c \in resolving \/ \E n \in DOMAIN updates : updates[n] = c
    \/ \E a \in DOMAIN reading :
        /\ reading[a].at \in {"refresh", "again", "direct"} /\ c \in reading[a].ids
        /\ c \in reading[a].left \/ reading[a].read[c] = Current(c)

\* The catalog never shows a chat as it was with nobody left to correct it: what it
\* holds is the server's, or the difference is pending, whichever calls failed, raced,
\* or lost the cache meanwhile.  It can only where the code loses a mark by its timing:
\* an update processed, or a newer read written, between the read and the write of a
\* reader; a mark set between the write of a chat_by_id and its removal of the mark; an
\* update that a lagging loop was never given.
StaleIsMarked ==
    loaded => \A c \in Chats : summary[c] # Current(c) => Pending(c) \/ c \in overtaken
=============================================================================
