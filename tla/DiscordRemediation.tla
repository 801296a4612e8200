-------------------------- MODULE DiscordRemediation --------------------------
(***************************************************************************)
(* What the Discord provider does between the reviewed lifecycle and the   *)
(* network (providers/discord/remediation.rs): it makes the plan of a      *)
(* selection, looks at a message before it is deleted, deletes it, and     *)
(* words the question to the owner; and the queries of the application     *)
(* (providers/discord/application.rs), which page through the archive.     *)
(*                                                                         *)
(* A call awaits the archive and Discord.  Meanwhile the owner may sign    *)
(* out or sign in as somebody else, Discord may stop accepting a token, a  *)
(* message may be edited or go, the source may be removed and the call may *)
(* be cancelled.  One request of the client is one step here: its locks,   *)
(* its pace and its retries are those of DiscordDelete.  An operator named *)
(* X_Y is X with a mistake.                                                *)
(***************************************************************************)
EXTENDS Integers, Sequences, FiniteSets, SequencesExt

CONSTANTS
    Written,      \* what the source holds, in the order of a search: [id, author, chat, private]
    Workers,      \* the calls that run at the same time
    Selected,     \* what is asked about: 0 is a conversation, not a message
    OldPlans,     \* plans of the store that this version has not made
    Questions,    \* [kind, chats, private, direction, limit] of the application's queries, and
                  \* talks: the conversations of the source, by identifier: [chat, title]
    LookupLimit,  \* MAX_PAGE of a lookup in the archive, 200 in the code
    TargetLimit,  \* 100,000 in the code
    QueryPage,    \* 200 in the code
    TalkLimit,    \* conversations a listing goes on after, 100,000 in the code
    MaxTasks,     \* bound: calls
    MaxSignIns,   \* bound: sign-ins
    MaxTurns      \* bound: what Discord and the user change of messages, tokens and the source

VARIABLES
    signedIn,     \* the session: its user and token
    signIns, turns, chances,   \* counters of the bounds
    refused,      \* the tokens that Discord answers with 401
    kept,         \* the archive still has the source
    onServer,     \* what Discord has of a message: written, edited or gone
    made,         \* the plans that were made, with what was seen meanwhile
    work,         \* progress of each call
    erased,       \* history: the requests that deleted a message
    finding       \* the application's query

remediationVars == <<signedIn, signIns, turns, chances, refused, kept, onServer, made, work, erased,
                     finding>>
environment == <<signIns, turns, chances, refused, kept, finding>>

Writing == {Written[n].id : n \in DOMAIN Written}

\* A target is a number, and a plan that this version has not made says so.
ASSUME RemediationAssumption ==
    /\ Writing \subseteq Int /\ LookupLimit \in Nat
    /\ Selected \subseteq Seq(Int)
    /\ \A p \in OldPlans : p.policy # "review"

WrittenAs(id) == CHOOSE w \in ToSet(Written) : w.id = id
Own == SelectSeq(Written, LAMBDA m : m.author = "owner")
BlankPlan == [targets |-> <<>>, steps |-> <<>>, count |-> 0, owner |-> "owner", policy |-> "review",
           constant |-> TRUE]
AtRest == [op |-> "none", pc |-> "idle", asked |-> <<>>, plan |-> BlankPlan, token |-> 0, n |-> 0,
           cancelled |-> FALSE, seen |-> {}, ended |-> "never"]
NoQuestion == [kind |-> "none", chats |-> {}, private |-> FALSE, direction |-> "any", limit |-> 0,
               talks |-> <<>>]

RemediationStart(question, budget) ==
    /\ signedIn = [user |-> "owner", token |-> 1] /\ signIns = 1 /\ turns = 0 /\ chances = budget
    /\ refused = {} /\ kept = TRUE /\ onServer = [m \in Writing |-> "written"] /\ made = {}
    /\ work = [w \in Workers |-> AtRest] /\ erased = {}
    /\ finding = [ask |-> question, from |-> 1, got |-> <<>>, answer |-> "none"]

RemediationInit == \/ RemediationStart(NoQuestion, MaxTasks)
                   \/ \E q \in Questions : RemediationStart(q, 0)
RemediationIdle == RemediationStart(NoQuestion, 0)
-----------------------------------------------------------------------------
\* The plan

\* canonical_targets: in the order of their identifiers, each once.
Ascending(s) == \A i, j \in DOMAIN s : i < j => s[i] < s[j]
ByIdentifier(targets) ==
    CHOOSE s \in [1..Cardinality(ToSet(targets)) -> ToSet(targets)] : Ascending(s) /\ ToSet(s) = ToSet(targets)

\* validate_stored_plan, and validate_plan: what may be read is not what may be carried out.
ReadablePlan(p) ==
    /\ p.targets # <<>> /\ p.targets = ByIdentifier(p.targets) /\ p.steps = <<p.targets>> /\ p.constant
    /\ p.policy \in {"review", "resume"} /\ p.count = Len(p.targets) /\ ToSet(p.targets) \subseteq Writing
ExecutablePlan_Readable(p) == ReadablePlan(p)
ExecutablePlan(p) == p.policy = "review" /\ ReadablePlan(p)

\* describe seals what it is asked for; the recipe counts the targets as they were asked.
Sealed(asked) ==
    [BlankPlan EXCEPT !.targets = ByIdentifier(asked), !.steps = <<ByIdentifier(asked)>>, !.count = Len(asked)]

\* What the owner is asked: how many, the first of them, and how many more.
AuthorizationReason(p) ==
    [count |-> p.count, owner |-> p.owner, first |-> p.targets[1], more |-> p.count - 1]
-----------------------------------------------------------------------------
\* Calls

Stands(w, pc) == work[w].pc = pc
\* The properties tell an answer from an error, and no error from another.
Replies(w, answer) ==
    work' = [work EXCEPT ![w] = [AtRest EXCEPT !.ended = IF answer \in {"ok", "offered"} THEN "well" ELSE "refused"]]

\* with_token of the account the context is for.
Authorized == signedIn.user = "owner"

\* resolve_owned, before it asks the archive.
Askable(asked) == asked # <<>> /\ Len(asked) <= TargetLimit /\ ToSet(asked) \subseteq Writing

Called(w, op, asked, plan) ==
    /\ Stands(w, "idle") /\ chances > 0 /\ chances' = chances - 1
    /\ LET answer == IF ~Authorized THEN "authentication"
                     ELSE IF op = "describe" /\ plan # BlankPlan THEN "schema"
                     ELSE IF op = "mutate" /\ ~ExecutablePlan(plan) THEN "schema"
                     ELSE IF op = "mutate" /\ (plan.owner # "owner" \/ Len(asked) # 1
                                               \/ ~ToSet(asked) \subseteq ToSet(plan.targets))
                     THEN "scope"
                     ELSE IF ~Askable(asked) THEN "scope" ELSE "none"
       IN IF answer # "none" THEN Replies(w, answer)
          ELSE work' = [work EXCEPT ![w] = [AtRest EXCEPT !.op = op, !.asked = asked, !.plan = plan,
                                                          !.pc = "lookup"]]
    /\ UNCHANGED <<signedIn, signIns, turns, refused, kept, onServer, made, erased, finding>>

StoredPlans == {p.plan : p \in made} \cup OldPlans

IntentsCall(w) == \E asked \in Selected : Called(w, "intents", asked, BlankPlan)
\* An action that is not offered, or an actor, is refused: the plan stands for either.
DescribeCall(w) == \/ \E asked \in Selected : Called(w, "describe", asked, BlankPlan)
                   \/ Called(w, "describe", <<>>, [BlankPlan EXCEPT !.policy = "other"])
PreflightCall(w) == \E asked \in Selected : Len(asked) = 1 /\ Called(w, "preflight", asked, BlankPlan)
MutateCall(w) == \E p \in StoredPlans, asked \in Selected : Called(w, "mutate", asked, p)

\* The answer of the archive, and what follows it without another await.
Found(w) == IF ~kept THEN "missing"
            ELSE IF \E m \in ToSet(work[w].asked) : WrittenAs(m).author # "owner" THEN "scope"
            ELSE "found"
AfterLookup(w) == IF Found(w) # "found" THEN Found(w)
                  ELSE IF ~Authorized THEN "authentication"
                  ELSE IF work[w].op = "intents" THEN "offered"
                  ELSE IF work[w].op = "mutate" /\ work[w].cancelled THEN "stale"
                  ELSE "found"
Lookup(w) ==
    /\ Stands(w, "lookup")
    /\ LET after == IF Len(work[w].asked) > LookupLimit THEN "archive" ELSE AfterLookup(w)
       IN IF after # "found" THEN Replies(w, after)
          ELSE work' = [work EXCEPT ![w].pc = "look", ![w].token = signedIn.token, ![w].n = 1]
    /\ UNCHANGED <<signedIn, onServer, made, erased, environment>>
LookupFails(w) ==
    /\ Stands(w, "lookup") /\ Replies(w, "failed")
    /\ UNCHANGED <<signedIn, onServer, made, erased, environment>>

\* A 401 ends the session there is by then, whoever it is of.
SignedOff == [user |-> "nobody", token |-> 0]
Unauthorized(w) ==
    /\ work[w].pc \in {"look", "erase"} /\ work[w].token \in refused
    /\ signedIn' = SignedOff /\ Replies(w, "authentication")
    /\ UNCHANGED <<onServer, made, erased, environment>>
-----------------------------------------------------------------------------
\* Looking at a message

Shown(w) == work[w].asked[work[w].n]
Matches(w) == onServer[Shown(w)] = "written"
LastOne(w) == work[w].n = Len(work[w].asked)
WorkFlagged(w) == work[w].cancelled /\ work[w].op \in {"preflight", "mutate"}

\* describe and preflight look at every message with the token they began with.
Look(w) ==
    /\ Stands(w, "look") /\ ~WorkFlagged(w) /\ work[w].token \notin refused
    /\ LET now == [work[w] EXCEPT !.seen = @ \cup {Shown(w)}]
           plan == Sealed(now.asked)
       IN \/ /\ ~Matches(w)
             /\ Replies(w, IF onServer[Shown(w)] = "gone" THEN "missing" ELSE "changed")
             /\ UNCHANGED made
          \/ /\ Matches(w) /\ ~LastOne(w)
             /\ work' = [work EXCEPT ![w] = [now EXCEPT !.n = @ + 1]]
             /\ UNCHANGED made
          \/ /\ Matches(w) /\ LastOne(w) /\ now.op = "mutate"
             /\ work' = [work EXCEPT ![w] = [now EXCEPT !.pc = "erase"]]
             /\ UNCHANGED made
          \/ /\ Matches(w) /\ LastOne(w) /\ now.op # "mutate"
             /\ LET refusal == IF ~Authorized THEN "authentication"
                               ELSE IF now.op = "describe" /\ ~ExecutablePlan(plan) THEN "schema"
                               ELSE "ok"
                IN /\ Replies(w, refusal)
                   /\ made' = IF refusal = "ok" /\ now.op = "describe"
                              THEN made \cup {[plan |-> plan, seen |-> now.seen, user |-> signedIn.user]}
                              ELSE made
    /\ UNCHANGED <<signedIn, onServer, erased, environment>>

\* Requests that fail, or are not sent because of the cancellation.
RequestFails(w) ==
    /\ work[w].pc \in {"look", "erase"}
    /\ \E why \in IF WorkFlagged(w) THEN {"stale"} ELSE {"failed", "rate", "changed"} : Replies(w, why)
    /\ UNCHANGED <<signedIn, onServer, made, erased, environment>>
-----------------------------------------------------------------------------
\* Deleting it

Erase(w) ==
    /\ Stands(w, "erase") /\ ~WorkFlagged(w) /\ work[w].token \notin refused
    /\ onServer' = [onServer EXCEPT ![Shown(w)] = "gone"]
    /\ erased' = IF onServer[Shown(w)] = "gone" THEN erased
                 ELSE erased \cup {[plan |-> work[w].plan, id |-> Shown(w),
                                   seen |-> Shown(w) \in work[w].seen, token |-> work[w].token]}
    /\ \/ Replies(w, "ok")
       \/ work' = [work EXCEPT ![w].pc = "look", ![w].seen = {}]   \* lost, and tried again
       \/ Replies(w, "uncertain")                                 \* lost for the last time
    /\ UNCHANGED <<signedIn, made, environment>>

EraseLost(w) ==
    /\ Stands(w, "erase") /\ ~WorkFlagged(w)
    /\ \/ work' = [work EXCEPT ![w].pc = "look", ![w].seen = {}]
       \/ Replies(w, "uncertain")
    /\ UNCHANGED <<signedIn, onServer, made, erased, environment>>
-----------------------------------------------------------------------------
\* What happens meanwhile

CancelWork(w) ==
    /\ work[w].pc # "idle" /\ ~work[w].cancelled
    /\ work' = [work EXCEPT ![w].cancelled = TRUE]
    /\ UNCHANGED <<signedIn, onServer, made, erased, environment>>

SignInAs(user) ==
    /\ chances < MaxTasks /\ signIns < MaxSignIns
    /\ signIns' = signIns + 1 /\ signedIn' = [user |-> user, token |-> signIns + 1]
    /\ UNCHANGED <<turns, chances, refused, kept, onServer, made, work, erased, finding>>

SignOut ==
    /\ chances < MaxTasks /\ signedIn # SignedOff /\ signedIn' = SignedOff
    /\ UNCHANGED <<onServer, made, work, erased, environment>>

Turn ==
    /\ turns < MaxTurns /\ turns' = turns + 1
    /\ \/ /\ \E t \in 1..signIns : refused' = refused \cup {t}
          /\ UNCHANGED <<kept, onServer>>
       \/ /\ \E m \in {Own[n].id : n \in DOMAIN Own}, how \in {"edited", "gone"} :
                onServer[m] = "written" /\ onServer' = [onServer EXCEPT ![m] = how]
          /\ UNCHANGED <<kept, refused>>
       \/ kept /\ kept' = FALSE /\ UNCHANGED <<refused, onServer>>
    /\ UNCHANGED <<signedIn, signIns, chances, made, work, erased, finding>>
-----------------------------------------------------------------------------
\* The application's queries

Asks(q, m) == (q.chats = {} \/ m.chat \in q.chats) /\ (q.private => m.private)
Until(rows, from) == SubSeq(rows, from, IF from + QueryPage - 1 < Len(rows) THEN from + QueryPage - 1
                                       ELSE Len(rows))
Shortest(rows, limit) == SubSeq(rows, 1, IF Len(rows) < limit THEN Len(rows) ELSE limit)
FindEnds(answer, got) == finding' = [finding EXCEPT !.answer = answer, !.got = got]
ByTitle(talks) ==
    LET order == SetToSortSeq(DOMAIN talks, LAMBDA i, j :
                     talks[i].title < talks[j].title \/ (talks[i].title = talks[j].title /\ i < j))
    IN [n \in DOMAIN talks |-> talks[order[n]]]

\* search_filtered: the messages of others are not in the export.
SearchPage(q, page, got) == got \o SelectSeq(page, LAMBDA m : Asks(q, m))
SearchMore ==
    /\ finding.ask.kind = "search" /\ finding.answer = "none"
    /\ LET q == finding.ask
           got == SearchPage(q, Until(Own, finding.from), finding.got)
           last == finding.from + QueryPage > Len(Own)
       IN IF q.direction = "others" THEN FindEnds("found", <<>>)
          ELSE IF ~kept THEN FindEnds(IF finding.from = 1 THEN "missing" ELSE "failed", <<>>)
          ELSE IF Len(got) >= q.limit \/ last THEN FindEnds("found", Shortest(got, q.limit))
          ELSE finding' = [finding EXCEPT !.got = got, !.from = @ + QueryPage]
    /\ UNCHANGED <<signedIn, signIns, turns, chances, refused, kept, onServer, made, work, erased>>

\* conversations, and refresh, which picks some of them.
ListMore ==
    /\ finding.ask.kind \in {"list", "refresh"} /\ finding.answer = "none"
    /\ LET q == finding.ask
           got == finding.got \o Until(q.talks, finding.from)
           last == finding.from + QueryPage > Len(q.talks)
           wanted == SelectSeq(ByTitle(got), LAMBDA t : q.kind = "list" \/ t.chat \in q.chats)
       IN IF ~kept THEN FindEnds(IF finding.from = 1 THEN "missing" ELSE "failed", <<>>)
          ELSE IF last THEN FindEnds("found", wanted)
          ELSE IF Len(got) > TalkLimit THEN FindEnds("archive", <<>>)
          ELSE finding' = [finding EXCEPT !.got = got, !.from = @ + QueryPage]
    /\ UNCHANGED <<signedIn, signIns, turns, chances, refused, kept, onServer, made, work, erased>>
-----------------------------------------------------------------------------
Starts == \E w \in Workers : IntentsCall(w) \/ DescribeCall(w) \/ PreflightCall(w) \/ MutateCall(w)
Continues(w) == \/ Lookup(w) \/ LookupFails(w) \/ Unauthorized(w) \/ Look(w) \/ RequestFails(w)
                \/ Erase(w) \/ EraseLost(w) \/ CancelWork(w)

RemediationNext ==
    \/ chances > 0 /\ Starts
    \/ \E w \in Workers : work[w].pc # "idle" /\ Continues(w)
    \/ \E w \in Workers : work[w].pc # "idle" /\ (SignOut \/ (\E u \in {"owner", "somebody"} : SignInAs(u)) \/ Turn)
    \/ finding.ask # NoQuestion /\ (SearchMore \/ ListMore \/ Turn)

RemediationSpec == RemediationInit /\ [][RemediationNext]_remediationVars
-----------------------------------------------------------------------------
\* A plan was made only of messages of the owner, every one of which was seen on Discord as
\* the archive has it while the plan was made, for a session of the owner; it is one that may
\* be carried out, and the owner is asked about as many messages as it has.
PlansAreSeen ==
    \A p \in made :
        /\ ToSet(p.plan.targets) \subseteq p.seen /\ p.user = "owner" /\ ExecutablePlan(p.plan)
        /\ Len(p.plan.targets) <= LookupLimit
        /\ \A m \in ToSet(p.plan.targets) : WrittenAs(m).author = "owner"
        /\ AuthorizationReason(p.plan) = [count |-> Cardinality(ToSet(p.plan.targets)), owner |-> "owner",
                                           first |-> p.plan.targets[1],
                                           more |-> Cardinality(ToSet(p.plan.targets)) - 1]

\* A message is deleted only as a target of a plan that names it and may be carried out, and
\* only after this very attempt has seen it as the archive has it.
DeletedAsReviewed ==
    \A e \in erased : /\ e.seen /\ e.plan.policy = "review" /\ e.id \in ToSet(e.plan.targets)
                       /\ WrittenAs(e.id).author = "owner"
                       /\ \E p \in made : p.plan = e.plan

\* What is deleted was reviewed: the calls of describe, preflight and mutate, against
\* sessions, messages, tokens and sources that change while they wait.
WhatIsDeletedWasReviewed == PlansAreSeen /\ DeletedAsReviewed

\* A search answers with the first messages of the owner that match, however they fall on
\* the pages; a listing with all conversations by title, unless there are too many.
FoundIsExact ==
    LET q == finding.ask
    IN finding.answer = "found" =>
         finding.got = CASE q.kind = "search" ->
                              IF q.direction = "others" THEN <<>>
                              ELSE Shortest(SelectSeq(Own, LAMBDA m : Asks(q, m)), q.limit)
                         [] q.kind = "list" -> ByTitle(q.talks)
                         [] OTHER -> ByTitle(SelectSeq(q.talks, LAMBDA t : t.chat \in q.chats))
=============================================================================
