---------------------------- MODULE DiscordDelete ----------------------------
(***************************************************************************)
(* The Discord delete client of providers/discord/http.rs: verify_owned and *)
(* delete_owned share one client, with a semaphore over channels, a lock    *)
(* per channel in a map that is pruned when it is full, a lock around the   *)
(* pacing of the account, and one global rate limit.  A delete verifies the *)
(* reviewed message before each of its bounded attempts.                    *)
(*                                                                          *)
(* Discord is external: a request may be answered, refused, limited or      *)
(* lost, and a lost deletion may be carried out long after the client gave  *)
(* up on it.  A call is made once; the next one is another member of Call.  *)
(*                                                                          *)
(* An operator named X_Y, with X the definition that follows it, is X with  *)
(* a mistake: the mutants that show each property is able to fail.          *)
(***************************************************************************)
EXTENDS Integers, FiniteSets

CONSTANTS
  Call,         \* calls of verify_owned and delete_owned
  Message,      \* messages of the reviewed plans
  Channel,      \* channels of those messages
  None,         \* no call
  ChannelOf,    \* ChannelOf[m] : the channel of message m
  Target,       \* Target[c]    : the message call c is about
  Deletes,      \* the calls of delete_owned
  Permits,      \* size of the semaphore
  MaxLocks,     \* entries of the lock map before it is pruned
  MaxAttempts,  \* MAX_TRANSIENT_ATTEMPTS
  MaxLimits     \* bound: global rate limits Discord imposes

ASSUME CallAssumption ==
  /\ None \notin Call /\ Deletes \subseteq Call /\ IsFiniteSet(Call)
  /\ ChannelOf \in [Message -> Channel] /\ Target \in [Call -> Message]
ASSUME BoundAssumption ==
  /\ Permits \in Nat \ {0} /\ MaxAttempts \in Nat \ {0}
  /\ MaxLocks \in Nat /\ MaxLimits \in Nat

VARIABLES
  message,    \* what Discord has of a message: reviewed, edited or absent
  call,       \* progress of each call
  permits,    \* free permits of the semaphore
  locks,      \* the lock map: a channel's lock, named by the call that made it
  account,    \* the call holding the account's lock
  limit,      \* the last global limit: global_deadline
  elapsed,    \* the global limits whose deadline has passed
  cancelled,  \* calls whose cancellation flag is set
  late,       \* deletions lost on their way that Discord may still carry out
  knewEdited  \* observer: calls that began this attempt on an edited message

vars == <<message, call, permits, locks, account, limit, elapsed, cancelled,
          late, knewEdited>>
external == <<message, limit, elapsed, cancelled, late, knewEdited>>

Untouched == [pc |-> "idle", lock |-> None, attempt |-> 0, copy |-> 0, result |-> "none"]
Waiting  == {"global", "limited", "pace", "paced", "channel", "backoff"}
ChannelFor(c) == ChannelOf[Target[c]]
At(c, pc) == call[c].pc = pc
Goto(c, pc) == call' = [call EXCEPT ![c].pc = pc]
Flagged(c) == c \in cancelled

(* Past the channel lock, until the call returns.                           *)
Critical(c) == call[c].pc \in {"get", "getSent", "delete", "deleteSent"} \cup Waiting

(* Returning drops what the call holds: its permit, locks and lock handle.  *)
Released_Kept(c) == permits
Released(c) == permits + 1

Return(c, result) ==
  /\ call' = [call EXCEPT ![c] = [Untouched EXCEPT !.pc = "done", !.result = result]]
  /\ permits' = Released(c)
  /\ account' = IF account = c THEN None ELSE account

(* validate_target: a call cancelled already returns before it holds        *)
(* anything.                                                                *)
Start(c) ==
  /\ At(c, "idle")
  /\ IF Flagged(c)
     THEN call' = [call EXCEPT ![c].pc = "done", ![c].result = "cancelled"]
     ELSE Goto(c, "permit")
  /\ UNCHANGED <<permits, locks, account, external>>

(* channel_lock: a full map forgets the locks nobody has a handle of.       *)
Used(ch) == \E c \in Call : call[c].lock = locks[ch] /\ locks[ch] # None
Kept_None == [ch \in Channel |-> None]
Kept == [ch \in Channel |-> IF Used(ch) THEN locks[ch] ELSE None]
Full == Cardinality({ch \in Channel : locks[ch] # None}) >= MaxLocks

TakePermit(c) ==
  /\ At(c, "permit") /\ permits > 0
  /\ permits' = permits - 1
  /\ LET map  == IF Full THEN Kept ELSE locks
         ch   == ChannelFor(c)
         lock == IF map[ch] = None THEN c ELSE map[ch]
     IN /\ locks' = [map EXCEPT ![ch] = lock]
        /\ call' = [call EXCEPT ![c].pc = "lock", ![c].lock = lock]
  /\ UNCHANGED <<account, external>>

EnterChannel(c) ==
  /\ At(c, "lock")
  /\ \A d \in Call : Critical(d) => call[d].lock # call[c].lock
  /\ Goto(c, "global")
  /\ knewEdited' = IF message[Target[c]] = "edited" THEN knewEdited \cup {c} ELSE knewEdited
  /\ UNCHANGED <<permits, locks, account, message, limit, elapsed, cancelled,
                 late>>

(* wait_for_global reads the deadline once and waits for that one.          *)
ReadGlobal(c) ==
  /\ At(c, "global")
  /\ call' = [call EXCEPT ![c].pc = IF limit = 0 THEN "pace" ELSE "limited",
                          ![c].copy = limit]
  /\ UNCHANGED <<permits, locks, account, external>>

LimitOver(c) ==
  /\ At(c, "limited") /\ ~Flagged(c) /\ call[c].copy \in elapsed
  /\ call' = [call EXCEPT ![c].pc = "pace", ![c].copy = 0]
  /\ UNCHANGED <<permits, locks, account, external>>

(* wait_for_account waits with the lock in hand, so attempts queue up.      *)
TakeAccount(c) ==
  /\ At(c, "pace") /\ account = None
  /\ account' = c
  /\ Goto(c, "paced")
  /\ UNCHANGED <<permits, locks, external>>

Paced(c) ==
  /\ At(c, "paced") /\ ~Flagged(c)
  /\ account' = None
  /\ Goto(c, "channel")
  /\ UNCHANGED <<permits, locks, external>>

(* Every attempt begins with the ownership check.                           *)
FirstRequest_Once(c) == IF call[c].attempt > 0 THEN "delete" ELSE "get"
FirstRequest(c) == "get"

ChannelReady(c) ==
  /\ At(c, "channel") /\ ~Flagged(c)
  /\ Goto(c, FirstRequest(c))
  /\ UNCHANGED <<permits, locks, account, external>>

(* Every wait, and every request before it is sent, looks at the flag.      *)
SeeCancelled(c) ==
  /\ call[c].pc \in (Waiting \ {"global", "pace"}) \cup {"get", "delete"}
  /\ Flagged(c)
  /\ Return(c, "cancelled")
  /\ UNCHANGED <<locks, external>>

(* wait_for_transient_retry, and the head of the next attempt.              *)
NextAttempt(c) == call[c].attempt + 1

BackedOff(c) ==
  /\ At(c, "backoff") /\ ~Flagged(c)
  /\ call' = [call EXCEPT ![c].pc = "global", ![c].attempt = NextAttempt(c)]
  /\ knewEdited' = IF message[Target[c]] = "edited" THEN knewEdited \cup {c} ELSE knewEdited
  /\ UNCHANGED <<permits, locks, account, message, limit, elapsed, cancelled,
                 late>>

(* request_ownership.                                                       *)
SendGet(c) ==
  /\ At(c, "get") /\ ~Flagged(c)
  /\ Goto(c, "getSent")
  /\ UNCHANGED <<permits, locks, account, external>>

MayRetry(c) == c \in Deletes /\ call[c].attempt + 1 < MaxAttempts
RetryOr(c, result) ==
  IF MayRetry(c) THEN Goto(c, "backoff") /\ UNCHANGED <<permits, account>>
                 ELSE Return(c, result)

(* A 429 with a readable body; a global one sets the deadline of everybody. *)
Limited(c) ==
  /\ \/ UNCHANGED limit
     \/ limit < MaxLimits /\ limit' = limit + 1
  /\ Return(c, "rate")

GetLost(c) ==
  /\ At(c, "getSent")
  /\ RetryOr(c, "transient")
  /\ UNCHANGED <<locks, external>>

GetAnswered(c) ==
  /\ At(c, "getSent")
  /\ LET m == message[Target[c]] IN
     \/ /\ Flagged(c)
        /\ Return(c, "cancelled") /\ UNCHANGED limit
     \/ /\ ~Flagged(c) /\ m = "reviewed"
        /\ IF c \in Deletes THEN Goto(c, "delete") /\ UNCHANGED <<permits, account>>
                            ELSE Return(c, "ok")
        /\ UNCHANGED limit
     \/ /\ ~Flagged(c) /\ m = "absent"
        /\ Return(c, "missing") /\ UNCHANGED limit
     \/ /\ ~Flagged(c)
        /\ Return(c, "denied") /\ UNCHANGED limit
     \/ ~Flagged(c) /\ Limited(c)
  /\ UNCHANGED <<locks, message, elapsed, cancelled, late, knewEdited>>

(* The deletion of an attempt.                                              *)
SendDelete(c) ==
  /\ At(c, "delete") /\ ~Flagged(c)
  /\ Goto(c, "deleteSent")
  /\ UNCHANGED <<permits, locks, account, external>>

RemoveMessage(c) ==
  IF message[Target[c]] = "absent" THEN UNCHANGED message
  ELSE message' = [message EXCEPT ![Target[c]] = "absent"]

(* 204, and 404 of a message that is gone.                                  *)
DeleteDone(c) ==
  /\ At(c, "deleteSent")
  /\ RemoveMessage(c)
  /\ Return(c, "ok")
  /\ UNCHANGED <<locks, limit, elapsed, cancelled, late, knewEdited>>

DeleteRefused(c) ==
  /\ At(c, "deleteSent")
  /\ \/ Limited(c)
     \/ Flagged(c) /\ Return(c, "cancelled") /\ UNCHANGED limit
     \/ Return(c, "denied") /\ UNCHANGED limit
     \/ Return(c, "transient") /\ UNCHANGED limit
  /\ UNCHANGED <<locks, message, elapsed, cancelled, late, knewEdited>>

(* 5xx, no answer, an answer too late: Discord may have removed the         *)
(* message, may still do so, or never will.                                 *)
Exhausted_Ok == "ok"
Exhausted == "uncertain"

DeleteLost(c) ==
  /\ At(c, "deleteSent")
  /\ \/ RemoveMessage(c) /\ UNCHANGED late
     \/ late' = late \cup {c} /\ UNCHANGED message
     \/ UNCHANGED <<message, late>>
  /\ RetryOr(c, Exhausted)
  /\ UNCHANGED <<locks, limit, elapsed, cancelled, knewEdited>>

Advance(c) ==
  \/ Start(c) \/ TakePermit(c) \/ EnterChannel(c)
  \/ ReadGlobal(c) \/ LimitOver(c) \/ TakeAccount(c) \/ Paced(c)
  \/ ChannelReady(c) \/ SeeCancelled(c) \/ BackedOff(c)
  \/ SendGet(c) \/ GetLost(c) \/ GetAnswered(c)
  \/ SendDelete(c) \/ DeleteDone(c) \/ DeleteRefused(c) \/ DeleteLost(c)

-----------------------------------------------------------------------------
(* Everybody else.                                                          *)

Frame == UNCHANGED <<call, permits, locks, account, knewEdited>>

Cancel(c) ==
  /\ c \notin cancelled /\ ~At(c, "done")
  /\ cancelled' = cancelled \cup {c}
  /\ UNCHANGED <<message, limit, elapsed, late>> /\ Frame

LateDelete(c) ==
  /\ c \in late
  /\ late' = late \ {c}
  /\ RemoveMessage(c)
  /\ UNCHANGED <<limit, elapsed, cancelled>> /\ Frame

(* The author edits the message, or removes it somewhere else.              *)
Touch(m) ==
  /\ \/ message[m] = "reviewed" /\ message' = [message EXCEPT ![m] = "edited"]
     \/ message[m] # "absent" /\ message' = [message EXCEPT ![m] = "absent"]
  /\ UNCHANGED <<limit, elapsed, cancelled, late>> /\ Frame

Elapse(e) ==
  /\ e \notin elapsed
  /\ elapsed' = elapsed \cup {e}
  /\ UNCHANGED <<message, limit, cancelled, late>> /\ Frame

Rest == (\A c \in Call : At(c, "done")) /\ UNCHANGED vars

Init ==
  /\ message = [m \in Message |-> "reviewed"]
  /\ call = [c \in Call |-> Untouched]
  /\ permits = Permits
  /\ locks = [ch \in Channel |-> None]
  /\ account = None
  /\ limit = 0 /\ elapsed = {0}
  /\ cancelled = {} /\ late = {} /\ knewEdited = {}

Next ==
  \/ \E c \in Call : Advance(c) \/ Cancel(c) \/ LateDelete(c)
  \/ \E m \in Message : Touch(m)
  \/ \E e \in 1..limit : Elapse(e)
  \/ Rest

Spec == Init /\ [][Next]_vars

(* A call that was made is polled until it returns, requests time out after *)
(* twenty seconds, and the deadline of a limit passes.                      *)
FairSpec ==
  /\ Spec
  /\ \A c \in Call : WF_vars(~At(c, "idle") /\ Advance(c))
  /\ WF_vars(\E e \in 1..limit : Elapse(e))

-----------------------------------------------------------------------------
(* Properties.                                                              *)

(* A deletion reported as done, or a message reported as already absent, is *)
(* absent from Discord, however many attempts were lost before.             *)
ConfirmedIsAbsent ==
  \A c \in Deletes : call[c].result = "ok" => message[Target[c]] = "absent"

(* The requests of a channel are serialized, though the map of locks        *)
(* forgets channels while calls wait for their locks.                       *)
ChannelSerialized ==
  \A c, d \in Call : c # d /\ Critical(c) /\ Critical(d) => ChannelFor(c) # ChannelFor(d)

(* A deletion is never sent in an attempt that began after the message had  *)
(* been edited, retries included.                                           *)
EditedSurvives == \A c \in Call : At(c, "deleteSent") => c \notin knewEdited

(* Under FairSpec: every call returns.  A call keeps its permit while it    *)
(* waits for the lock of its channel, the pacing of the account, a global   *)
(* limit and its own retries, so that calls beyond the permits wait for all *)
(* of those of the others; none of the waits holds another up for ever.     *)
CallReturns == \A c \in Call : At(c, "permit") ~> At(c, "done")

=============================================================================
