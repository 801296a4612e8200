--------------------------- MODULE TelegramPlanning ---------------------------
(***************************************************************************)
(* From what Telegram lets an account do in a chat to a sealed plan and    *)
(* back (native/live_gateway.rs, remediation/planning.rs, cleaner-domain,  *)
(* recipe.rs, retract-domain/plans.rs).  The intents are described from    *)
(* two readings of the chat, one is prepared from a third and from the     *)
(* messages read after it, the plan is bound to an envelope that has to    *)
(* rebuild it, the owner is asked, a job is made, the application may      *)
(* restart, and the chat is looked up once more before anything is done    *)
(* in it.  Between any two of these the account may be promoted, demoted   *)
(* or thrown out, and a message may change or disappear.                   *)
(*                                                                         *)
(* Titles, names, labels, times and identities are left out; one chat is   *)
(* targeted.  A target is <<chat>> or <<chat, message>>.                   *)
(***************************************************************************)
EXTENDS Integers, Sequences, FiniteSets, SequencesExt

CONSTANTS
    Statuses,       \* what the server may say of a chat: [kind, status, clear, self]
    Letters,        \* the messages there may be: [chat, id, own]
    TargetChat,     \* the chat the intents are about
    Selection,      \* the messages that are selected, of any chat
    Senders,        \* senders, a user if positive
    MaxSteps,       \* steps of an envelope, 1000 in the code
    MaxTargets,     \* targets of an envelope and messages of a plan, 100,000 in the code
    BatchSize,      \* 100 in the code
    FewMessages,    \* a selection up to this size is confirmed lightly, 10 in the code
    MaxShifts       \* changes on the server

\* A chat between two has no members, and whoever is in it is "private"; a message is
\* known by its chat and its identifier; and a selection that is too large for a plan is
\* refused before its messages are read (query.rs, planning.rs).
ASSUME TelegramPlanningAssumption ==
    /\ BatchSize \in Nat \ {0} /\ MaxSteps \in Nat /\ MaxTargets \in Nat /\ MaxShifts \in Nat
    /\ FewMessages \in Nat /\ TargetChat \in Int
    /\ Senders # {} /\ Senders \subseteq Int \ {0}
    /\ Statuses \subseteq
         [kind : {"BasicGroup", "Supergroup", "Channel"}, clear : BOOLEAN, self : BOOLEAN,
          status : {"creator", "admin", "limited", "member", "restricted", "outside"}]
         \cup [kind : {"Direct", "Secret"}, clear : BOOLEAN, self : BOOLEAN, status : {"private"}]
    /\ IsFiniteSet(Letters) /\ Letters \subseteq [chat : Int, id : Int, own : BOOLEAN]
    /\ \A m, n \in Letters : m.chat = n.chat /\ m.id = n.id => m = n
    /\ Selection \subseteq Letters /\ Cardinality(Selection) <= MaxTargets

VARIABLES
    status,         \* what the server says of the chat
    reach,          \* how far each message can be deleted: Everyone, SelfOnly, None, Gone
    shifts,         \* changes so far
    step,           \* described, offered, looked, published, prompted, started, resolved, or
                    \* how it ended: refused, unsealable, rejected
    offered,        \* by intent, [available, kinds]: what discover_intents has answered
    offeredAt,      \* shifts at the first reading
    intent,         \* the intent being prepared
    looked,         \* the ChatSummary it is prepared from
    plan,           \* DeletionPlan: [op, conversation, sender, items, tier]
    envelope,       \* the sealed RemediationPlan: [steps, targets, tier, recipe, policy]
    prompt,         \* what the owner was asked: [count, deletes, acts]
    job,            \* the job made of the plan: [eligible, skipped, chats]
    permitted       \* history: what Telegram allowed when the plan was resolved

planningVars == <<status, reach, shifts, step, offered, offeredAt, intent, looked, plan, envelope,
                  prompt, job, permitted>>
-----------------------------------------------------------------------------
\* Intents are named by the operation they prepare.

GroupKinds == {"BasicGroup", "Supergroup"}
ChatWide == {"ClearHistory", "RemoveChatForSelf", "DeleteGroup", "DeleteBySender"}
Leavings == {"LeaveChat", "DeleteAllMessagesAndLeave", "ClearHistoryAndLeave"}
Intents == ChatWide \cup {"LeaveChat", "DeleteMyMessages", "SelectedMessages"}
Messages == {"SelectedMessages", "DeleteMyMessages"}
NoPlan == [op |-> "none", conversation |-> {}, sender |-> {}, items |-> {}, tier |-> "Low"]
Unsealed == UNCHANGED <<envelope, prompt, job>>

\* role_from_status
Standing(s) ==
    CASE s = "creator" -> [role |-> "Owner", others |-> TRUE, leave |-> FALSE]
      [] s = "admin" -> [role |-> "AdminWithDelete", others |-> TRUE, leave |-> TRUE]
      [] s = "limited" -> [role |-> "AdminLimited", others |-> FALSE, leave |-> TRUE]
      [] s \in {"member", "restricted"} -> [role |-> "Member", others |-> FALSE, leave |-> TRUE]
      [] s \in {"outside", "private"} -> [role |-> "Member", others |-> FALSE, leave |-> FALSE]

\* map_chat
Summarized(s) ==
    LET standing == Standing(s.status)
    IN [kind |-> s.kind, role |-> standing.role, others |-> standing.others,
        leave |-> standing.leave, clear |-> s.clear, self |-> s.self,
        group |-> s.clear /\ standing.role = "Owner" /\ s.kind \in GroupKinds,
        sender |-> s.kind = "Supergroup" /\ standing.others]

\* ChatCapabilities::validate
Coherent(c) == /\ c.group => c.role = "Owner"
               /\ c.sender => c.kind = "Supergroup" /\ c.others
               /\ c.leave => c.kind \in GroupKinds \cup {"Channel"} /\ c.role # "Owner"

ActiveGroup(c) == c.kind \in GroupKinds /\ (c.role # "Member" \/ c.leave)

\* The capability behind a chat-wide operation and the kind of its action.
Capable(op, c) == CASE op = "ClearHistory" -> c.clear
                    [] op = "RemoveChatForSelf" -> c.self
                    [] op = "DeleteGroup" -> c.group
                    [] op = "DeleteBySender" -> c.sender
KindOf(op) == CASE op = "ClearHistory" -> "ClearConversation"
                [] op = "RemoveChatForSelf" -> "RemoveForCurrentAccount"
                [] op = "DeleteGroup" -> "DeleteConversation"
                [] op = "DeleteBySender" -> "DeleteByActor"
-----------------------------------------------------------------------------
\* discover_intents

NothingPlanned == plan = NoPlan /\ envelope = "none" /\ prompt = "none" /\ job = "none" /\ permitted = {}
\* A message that is selected was there to be selected; others may be gone by now.
PlanningInit ==
    /\ status \in Statuses /\ reach \in [Letters -> {"Everyone", "None", "Gone"}]
    /\ \A m \in Selection : reach[m] # "Gone"
    /\ shifts = 0 /\ step = "new" /\ offered = [i \in Intents |-> [available |-> FALSE, kinds |-> {}]]
    /\ offeredAt = 0 /\ intent = "none" /\ looked = Summarized(status) /\ NothingPlanned
PlanningIdle ==
    /\ status = "none" /\ reach = <<>> /\ shifts = 0 /\ step = "idle" /\ offered = <<>>
    /\ offeredAt = 0 /\ intent = "none" /\ looked = "none" /\ NothingPlanned

\* actions_for, of the chat and of the selected messages
Describe ==
    /\ step = "new"
    /\ step' = "described" /\ offeredAt' = shifts
    /\ LET c == Summarized(status)
       IN offered' = [i \in Intents |->
            CASE i \in ChatWide -> [available |-> Capable(i, c), kinds |-> {KindOf(i)}]
              [] i = "SelectedMessages" ->
                   [available |-> \E m \in Selection : reach[m] = "Everyone",
                    kinds |-> {"DeleteRemoteItem"}]
              [] OTHER -> offered[i]]
    /\ Unsealed /\ UNCHANGED <<status, reach, shifts, intent, looked, plan, permitted>>

\* The chat is read again for the description of leaving and of one's own messages.
DescribeLeaving ==
    /\ step = "described"
    /\ step' = "offered"
    /\ LET c == Summarized(status)
           cleanup == IF c.clear THEN "ClearConversation" ELSE "DeleteRemoteItem"
       IN offered' = [offered EXCEPT
            !["LeaveChat"] = [available |-> c.leave,
                kinds |-> {cleanup, "LeaveConversation", "RemoveForCurrentAccount"}],
            !["DeleteMyMessages"] = [available |-> ActiveGroup(c), kinds |-> {"DeleteRemoteItem"}]]
    /\ Unsealed /\ UNCHANGED <<status, reach, shifts, offeredAt, intent, looked, plan, permitted>>
-----------------------------------------------------------------------------
\* prepare_reviewed: the chat, then its messages

LookupChat ==
    /\ step = "offered"
    /\ \E i \in Intents :
        LET c == Summarized(status)
        IN /\ intent' = i /\ looked' = c
           /\ step' = IF i = "DeleteMyMessages" /\ ~ActiveGroup(c) THEN "refused" ELSE "looked"
    /\ Unsealed /\ UNCHANGED <<status, reach, shifts, offered, offeredAt, plan, permitted>>

\* What leave_chat makes of the capabilities: the broadest cleanup.
LeaveOperation_DeletesFirst(c) == IF c.others THEN "DeleteAllMessagesAndLeave"
                                  ELSE IF c.clear THEN "ClearHistoryAndLeave" ELSE "LeaveChat"
LeaveOperation(c) == IF c.clear THEN "ClearHistoryAndLeave"
                     ELSE IF c.others THEN "DeleteAllMessagesAndLeave" ELSE "LeaveChat"

\* What is read for the plan: nothing, all messages of the chat, or one's own.
Stock(op) ==
    {m \in Letters : /\ reach[m] # "Gone" /\ m.chat = TargetChat
                     /\ \/ op = "DeleteAllMessagesAndLeave"
                        \/ op \in {"LeaveChat", "DeleteMyMessages"} /\ m.own}

PlanItems(messages) == {[chat |-> m.chat, id |-> m.id, reach |-> reach[m]] : m \in messages}
EveryoneOf(items) == {x \in items : x.reach = "Everyone"}

\* The tiers of the constructors of DeletionPlan.
Tier(op, items) ==
    CASE op = "SelectedMessages" -> IF Cardinality(items) <= FewMessages THEN "Low" ELSE "Medium"
      [] op = "LeaveChat" -> IF EveryoneOf(items) # {} THEN "High" ELSE "Medium"
      [] op = "RemoveChatForSelf" -> "Medium"
      [] op = "DeleteGroup" -> "Critical"
      [] OTHER -> "High"
Made(op, chat, sender, items) ==
    [op |-> op, conversation |-> chat, sender |-> sender, items |-> items, tier |-> Tier(op, items)]

\* collect_plan_items and plan_items: as many as a plan may have, one to be deleted.
PlannedItems(messages) == {PlanItems(x) : x \in {y \in {messages} : Cardinality(y) <= MaxTargets}}
Worthwhile(messages) == {items \in PlannedItems(messages) : EveryoneOf(items) # {}}

\* The endpoints; each makes one plan or none.
SelectedPlans == {Made("SelectedMessages", {}, {}, items) : items \in
                    IF \A m \in Selection : reach[m] # "Gone" THEN Worthwhile(Selection) ELSE {}}
OwnPlans == {Made("DeleteMyMessages", {TargetChat}, {}, items) :
                items \in Worthwhile(Stock("DeleteMyMessages"))}
LeavingPlans ==
    LET op == LeaveOperation(looked)
    IN {Made(op, {TargetChat}, {}, items) :
            items \in IF Coherent(looked) /\ looked.leave THEN PlannedItems(Stock(op)) ELSE {}}
ChatPlans == {Made(op, {TargetChat}, {}, {}) :
                op \in {o \in {intent} : Coherent(looked) /\ Capable(o, looked)}}
SenderPlans == {Made("DeleteBySender", {TargetChat}, {sender}, {}) :
                sender \in IF Coherent(looked) /\ looked.sender THEN Senders ELSE {}}
Constructed == CASE intent = "SelectedMessages" -> SelectedPlans
                 [] intent = "DeleteMyMessages" -> OwnPlans
                 [] intent = "LeaveChat" -> LeavingPlans
                 [] intent = "DeleteBySender" -> SenderPlans
                 [] OTHER -> ChatPlans
-----------------------------------------------------------------------------
\* bind_plan

\* A set of numbers in ascending order.
InOrderOf(numbers) ==
    CHOOSE s \in [1..Cardinality(numbers) -> numbers] :
        ToSet(s) = numbers /\ \A k, l \in DOMAIN s : k < l => s[k] < s[l]

ChunksOf(list) ==
    [k \in 1..(Len(list) + BatchSize - 1) \div BatchSize |->
        SubSeq(list, (k - 1) * BatchSize + 1,
               IF k * BatchSize < Len(list) THEN k * BatchSize ELSE Len(list))]

\* everyone_batches: chunks of one chat each.
MessagesOf(items, chat) ==
    LET ids == InOrderOf({x.id : x \in {y \in EveryoneOf(items) : y.chat = chat}})
    IN [k \in DOMAIN ids |-> <<chat, ids[k]>>]
EveryoneBatches(items) ==
    LET chats == InOrderOf({x.chat : x \in EveryoneOf(items)})
    IN FlattenSeq([n \in DOMAIN chats |-> ChunksOf(MessagesOf(items, chats[n]))])

\* A step of an envelope; the descriptor is its kind and the tier of the plan.
InChat(kind) == [kind |-> kind, targets |-> {<<TargetChat>>}]
Steps(p) ==
    LET batches == EveryoneBatches(p.items)
    IN [n \in DOMAIN batches |-> [kind |-> "DeleteRemoteItem", targets |-> ToSet(batches[n])]]
       \o (IF p.op \in ChatWide THEN <<InChat(KindOf(p.op))>>
           ELSE IF p.op = "ClearHistoryAndLeave" THEN <<InChat("ClearConversation")>> ELSE <<>>)
       \o (IF p.op \in Leavings
           THEN <<InChat("LeaveConversation"), InChat("RemoveForCurrentAccount")>> ELSE <<>>)
TargetsOf(steps) == UNION {steps[n].targets : n \in DOMAIN steps}

\* from_legacy: an actor is a user or a chat by the sign of its number.
FromLegacy(p) ==
    [op |-> p.op, conversation |-> p.conversation, items |-> p.items,
     actor |-> {[kind |-> IF n > 0 THEN "User" ELSE "Chat", id |-> n] : n \in p.sender}]
Bound(p) == [steps |-> Steps(p), targets |-> TargetsOf(Steps(p)), tier |-> p.tier,
             recipe |-> FromLegacy(p), policy |-> "RequiresNewReview"]

\* legacy_tier, written a second time in recipe.rs
LegacyTier(op, items) ==
    CASE op = "SelectedMessages" -> IF Cardinality(items) <= FewMessages THEN "Low" ELSE "Medium"
      [] op = "RemoveChatForSelf" -> "Medium"
      [] op = "LeaveChat" /\ EveryoneOf(items) = {} -> "Medium"
      [] op = "DeleteGroup" -> "Critical"
      [] OTHER -> "High"

\* legacy: the plan a recipe stands for, or none.
Legacy(recipe) ==
    {[op |-> r.op, conversation |-> r.conversation, sender |-> {a.id : a \in r.actor},
      items |-> r.items, tier |-> LegacyTier(r.op, r.items)] : r \in
        {r \in {recipe} :
            /\ Cardinality(r.items) <= MaxTargets
            /\ \A a \in r.actor : (a.id > 0) = (a.kind = "User")
            /\ r.op # "SelectedMessages" => \A x \in r.items : x.chat \in r.conversation
            /\ r.items # {} => r.op \in Messages \cup {"LeaveChat", "DeleteAllMessagesAndLeave"}
            /\ (r.op = "SelectedMessages") = (r.conversation = {})
            /\ (r.op = "DeleteBySender") = (r.actor # {})
            /\ r.op \in Messages => EveryoneOf(r.items) # {}}}

\* RemediationPlan::normalize
Resumable == {"DeleteRemoteItem", "RemoveForCurrentAccount"}
Normal(e) ==
    /\ Len(e.steps) \in 1..MaxSteps /\ Cardinality(e.targets) \in 1..MaxTargets
    /\ \A n \in DOMAIN e.steps :
          /\ Cardinality(e.steps[n].targets) \in 1..MaxTargets
          /\ e.policy = "ResumeFrozenTargets" => e.steps[n].kind \in Resumable
    /\ e.targets = TargetsOf(e.steps)
Sealable(p) == Normal(Bound(p)) /\ Legacy(FromLegacy(p)) = {p}

\* The constructor, the envelope and the publication follow each other at once.
PublishPlan ==
    /\ step = "looked"
    /\ IF Constructed = {} THEN step' = "refused" /\ UNCHANGED <<plan, envelope>>
       ELSE /\ plan' \in Constructed
            /\ envelope' = Bound(plan')
            /\ step' = IF Sealable(plan') THEN "published" ELSE "unsealable"
    /\ UNCHANGED <<status, reach, shifts, offered, offeredAt, intent, looked, prompt, job, permitted>>

\* validate_envelope, when the store is opened again.  An earlier build has sealed
\* its plans of messages with another policy, and they are read all the same.
Historical(e) == IF e.recipe.op \in Messages THEN [e EXCEPT !.policy = "ResumeFrozenTargets"] ELSE e
ValidEnvelope(e) ==
    /\ Normal(e)
    /\ \E p \in Legacy(e.recipe) : e \in {Bound(p), Historical(Bound(p))}
Reopen ==
    /\ step = "published"
    /\ \E e \in {envelope, Historical(envelope)} :
          /\ envelope' = e
          /\ IF ValidEnvelope(e) THEN step' = "reopened" /\ plan' \in Legacy(e.recipe)
             ELSE step' = "rejected" /\ UNCHANGED plan
    /\ UNCHANGED <<status, reach, shifts, offered, offeredAt, intent, looked, prompt, job, permitted>>
-----------------------------------------------------------------------------
\* authorization_reason and frozen_target_count
FrozenTargetCount(p) ==
    LET everyone == Cardinality(EveryoneOf(p.items))
    IN CASE p.op \in Messages -> everyone
         [] p.op \in {"DeleteAllMessagesAndLeave", "LeaveChat"} -> everyone + 1
         [] OTHER -> 1
Reason(p) ==
    [count |-> FrozenTargetCount(p),
     deletes |-> IF p.op \in Messages \cup {"DeleteAllMessagesAndLeave", "LeaveChat"}
                 THEN Cardinality(EveryoneOf(p.items)) ELSE 0,
     acts |-> CASE p.op = "DeleteGroup" -> {"DeleteConversation"}
                [] p.op = "ClearHistoryAndLeave" -> {"ClearConversation", "LeaveConversation"}
                [] p.op \in {"DeleteAllMessagesAndLeave", "LeaveChat"} -> {"LeaveConversation"}
                [] p.op = "ClearHistory" -> {"ClearConversation"}
                [] p.op = "RemoveChatForSelf" -> {"RemoveForCurrentAccount"}
                [] p.op = "DeleteBySender" -> {"DeleteByActor"}
                [] OTHER -> {}]
AskOwner ==
    /\ step \in {"published", "reopened"}
    /\ step' = "prompted" /\ prompt' = Reason(plan)
    /\ UNCHANGED <<status, reach, shifts, offered, offeredAt, intent, looked, plan, envelope, job,
                   permitted>>

\* JobRecord::new with affected_chat_ids, as normalize_job and validate take it
FreshJob(p) ==
    [selected |-> Cardinality(p.items), eligible |-> Cardinality(EveryoneOf(p.items)),
     skipped |-> Cardinality(p.items \ EveryoneOf(p.items)),
     chats |-> p.conversation \cup {x.chat : x \in EveryoneOf(p.items)}]
StartJob ==
    /\ step = "prompted"
    /\ job' = FreshJob(plan)
    /\ step' = IF job'.eligible <= job'.selected /\ job'.skipped <= job'.selected
               THEN "started" ELSE "rejected"
    /\ UNCHANGED <<status, reach, shifts, offered, offeredAt, intent, looked, plan, envelope, prompt,
                   permitted>>
-----------------------------------------------------------------------------
\* resolve_plan_chat, before the first call that is about the chat as a whole

Demands(op, c) == CASE op = "ClearHistoryAndLeave" -> c.clear /\ c.leave
                    [] op = "DeleteAllMessagesAndLeave" -> c.others /\ c.leave
                    [] op = "LeaveChat" -> c.leave
                    [] op \in ChatWide -> Capable(op, c)

\* What Telegram lets the account do in the chat.
Allowed ==
    {k \in {"ClearConversation"} : status.clear} \cup {k \in {"RemoveForCurrentAccount"} : status.self}
    \cup {k \in {"DeleteConversation"} : status.status = "creator" /\ status.clear /\ status.kind \in GroupKinds}
    \cup {k \in {"DeleteByActor"} : status.status \in {"creator", "admin"} /\ status.kind = "Supergroup"}
    \cup {k \in {"LeaveConversation"} : status.status \in {"admin", "limited", "member", "restricted"}}

ResolveChat ==
    /\ step = "started" /\ plan.op \notin Messages
    /\ step' = IF Demands(plan.op, Summarized(status)) THEN "resolved" ELSE "refused"
    /\ permitted' = Allowed
    /\ Unsealed /\ UNCHANGED <<status, reach, shifts, offered, offeredAt, intent, looked, plan>>

\* The account's standing changes, or a message does.
Shift ==
    /\ shifts < MaxShifts /\ step \in {"described", "offered", "looked", "started"}
    /\ shifts' = shifts + 1
    /\ \/ /\ status' \in {s \in Statuses : s.kind = status.kind} /\ UNCHANGED reach
       \/ /\ \E m \in Letters : reach' \in {[reach EXCEPT ![m] = r] : r \in {"Everyone", "SelfOnly", "Gone"}}
          /\ UNCHANGED status
    /\ Unsealed /\ UNCHANGED <<step, offered, offeredAt, intent, looked, plan, permitted>>

PlanningNext == \/ Describe \/ DescribeLeaving \/ LookupChat \/ PublishPlan \/ Reopen \/ AskOwner
                \/ StartJob \/ ResolveChat \/ Shift

PlanningSpec == PlanningInit /\ [][PlanningNext]_planningVars
-----------------------------------------------------------------------------
Kinds(p) == {Steps(p)[n].kind : n \in DOMAIN Steps(p)}
Unchanged == shifts = offeredAt

\* What is prepared is what was offered, and what the owner approves is what runs. As
\* long as nothing changes on the server, an intent prepares exactly if it was offered as
\* available - unless it is about messages, and none is there that can be deleted, or it
\* is to leave, and there are more than a plan can have - and the actions of the plan are
\* among the offered ones with the same cleanup; whatever changes, every plan that is
\* made passes the second, independent set of rules it is sealed with, unless it is too
\* large for an envelope, and passes it again when the store is opened; its batches are a
\* partition of what can be deleted for everyone into pieces of one chat and bounded
\* size; the owner is asked for every target and told of every action beyond the messages
\* but the removal that follows leaving; the job accounts for every item and for every
\* chat a target is in; and the call that follows a resolution is one Telegram allows
\* this account at that moment.
PlansAreWhatWasOffered ==
    /\ step # "rejected"
    /\ step = "unsealable" =>
          Len(envelope.steps) > MaxSteps \/ Cardinality(envelope.targets) > MaxTargets
    /\ Unchanged /\ step = "published" =>
          /\ offered[intent].available
          /\ Kinds(plan) \subseteq offered[intent].kinds
          /\ "ClearConversation" \in offered[intent].kinds => "ClearConversation" \in Kinds(plan)
    /\ Unchanged /\ step = "refused" /\ plan = NoPlan /\ intent # "DeleteMyMessages" =>
          \/ ~offered[intent].available
          \/ intent = "LeaveChat" /\ Cardinality(Stock(LeaveOperation(looked))) > MaxTargets
    /\ step \in {"published", "reopened"} =>
          LET batches == EveryoneBatches(plan.items)
          IN /\ UNION {ToSet(batches[n]) : n \in DOMAIN batches}
                   = {<<x.chat, x.id>> : x \in EveryoneOf(plan.items)}
             /\ \A n \in DOMAIN batches :
                   /\ Len(batches[n]) \in 1..BatchSize
                   /\ Cardinality({batches[n][k][1] : k \in DOMAIN batches[n]}) = 1
                   /\ \A l \in DOMAIN batches : n # l => ToSet(batches[n]) \cap ToSet(batches[l]) = {}
    /\ step = "prompted" =>
          /\ prompt.count = Cardinality(envelope.targets)
          /\ prompt.deletes = Cardinality({t \in envelope.targets : Len(t) = 2})
          /\ prompt.acts = Kinds(plan) \ ({"DeleteRemoteItem"} \cup
                 IF "LeaveConversation" \in Kinds(plan) THEN {"RemoveForCurrentAccount"} ELSE {})
    /\ step = "started" =>
          /\ job.eligible + job.skipped = job.selected
          /\ job.chats = {t[1] : t \in envelope.targets}
    /\ step = "resolved" =>
          Kinds(plan) \ {"DeleteRemoteItem", "RemoveForCurrentAccount"} \subseteq permitted
    /\ step = "resolved" /\ plan.op = "RemoveChatForSelf" => "RemoveForCurrentAccount" \in permitted
=============================================================================
