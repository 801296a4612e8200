----------------------------- MODULE TelegramReads -----------------------------
(***************************************************************************)
(* The calls that read messages through TDLib                              *)
(* (providers/telegram/native/live_gateway.rs, behind query.rs): a search, *)
(* a privacy scan, the enumeration of a chat's messages or of one's own,   *)
(* and the messages of given identifiers.  A read is a series of requests, *)
(* one for each page or chunk; between two of them another search may      *)
(* start, TDLib may fail, and the account may be exchanged.                *)
(*                                                                         *)
(* A source is what one series of pages goes through: a chat, or the       *)
(* global and the secret search.  A history lists its messages, the newest *)
(* first.                                                                  *)
(***************************************************************************)
EXTENDS Integers, Sequences, FiniteSets, SequencesExt

CONSTANTS
    Histories,      \* by source, what it holds
    Requests,       \* [kind, sources, everywhere, limit, direction, after, unpinned, ids]
    PageSize,       \* 100 in the code, as is the size of a chunk of identifiers
    MaxPages,       \* TDLIB_SEARCH_MAX_PAGES
    CleanupLimit,   \* CHAT_CLEANUP_MESSAGE_LIMIT
    Floor,          \* messages a search collects from a source at least, 100 in the code
    MaxLogins       \* accounts the gateway has had

VARIABLES
    server,         \* what the sources hold
    login,          \* the account the gateway is signed in to
    generation,     \* search_generation
    request,
    mine,           \* the account and the generation the read started with
    at,             \* start, paging, done, superseded, failed
    todo,           \* the sources, or the chunks, still to be read
    cursor, seen, pages, here,   \* of the source being read; here counts its messages
    got,            \* the messages collected
    whole,          \* history: TDLib has answered all that was asked for
    servedBy        \* history: the accounts whose TDLib has answered

readVars == <<server, login, generation, request, mine, at, todo, cursor, seen, pages, here, got,
              whole, servedBy>>

NoRead == [kind |-> "none", sources |-> <<>>, everywhere |-> FALSE, limit |-> 0, direction |-> "any", after |-> 0,
           unpinned |-> FALSE, ids |-> <<>>]

ReadStart(histories, asked) ==
    /\ server = histories /\ request = asked /\ login = 1 /\ generation = 0
    /\ mine = [login |-> 1, generation |-> 0] /\ at = "start" /\ todo = <<>>
    /\ cursor = 0 /\ seen = {} /\ pages = 0 /\ here = 0 /\ got = <<>>
    /\ whole = TRUE /\ servedBy = {}

ReadInit == \E h \in Histories, r \in Requests : ReadStart(h, r)
ReadIdle == ReadStart(<<>>, NoRead)
-----------------------------------------------------------------------------
Larger(x, y) == IF x > y THEN x ELSE y
Fresh == cursor' = 0 /\ seen' = {} /\ pages' = 0 /\ here' = 0
Ends(how) == /\ at' = how
             /\ UNCHANGED <<server, login, generation, request, mine, todo, cursor, seen, pages,
                            here, whole>>

\* messages_by_ids: no identifier twice, and chunks of one chat each.
Chunks(ids) ==
    LET chats == SetToSeq({ids[n][1] : n \in DOMAIN ids})
        of(chat) == SelectSeq(ids, LAMBDA id : id[1] = chat)
        split(s) == [k \in 1..(Len(s) + PageSize - 1) \div PageSize |->
                        SubSeq(s, (k - 1) * PageSize + 1, IF k * PageSize < Len(s) THEN k * PageSize
                                                         ELSE Len(s))]
    IN FlattenSeq([n \in DOMAIN chats |-> split(of(chats[n]))])

\* The read starts in the context of the account; a scan goes over each chat once.
Begin ==
    /\ at = "start" /\ request.kind # "none"
    /\ mine' = [login |-> login, generation |-> generation + 1]
    /\ generation' = IF request.kind \in {"privacy", "search"} THEN generation + 1 ELSE generation
    /\ at' = IF request.kind = "ids" /\ ~IsInjective(request.ids) THEN "failed" ELSE "paging"
    /\ todo' = CASE request.kind = "ids" -> Chunks(request.ids)
                 [] request.kind = "privacy" -> SetToSeq(ToSet(request.sources))
                 [] OTHER -> request.sources
    /\ UNCHANGED <<server, login, request, cursor, seen, pages, here, got, whole, servedBy>>
-----------------------------------------------------------------------------
\* TDLib's pages

Source == Head(todo)
Offered == IF request.kind = "own" THEN SelectSeq(server[Source], LAMBDA m : m.mine)
           ELSE server[Source]

\* A page goes on behind the cursor, and may repeat the message of the cursor.
Page(from, to) == SubSeq(Offered, from, to)
Behind == {n \in DOMAIN Offered : cursor = 0 \/ Offered[n].id < cursor}
IsPage(from, to) ==
    IF Behind = {} THEN to = from - 1 /\ from = Len(Offered) + 1
    ELSE LET first == CHOOSE n \in Behind : \A k \in Behind : n <= k
         IN /\ from \in {first, Larger(1, first - 1)} /\ to \in first..Len(Offered) /\ to < from + PageSize
            /\ cursor = 0 => from = first
\* next_from_message_id as TDLib means it.
NextCursor(to) == IF to = Len(Offered) THEN 0 ELSE Offered[to].id

\* Filters of privacy_search, in its order, and of search.
Passes(m) == /\ request.direction = "mine" => m.mine
             /\ request.direction = "others" => ~m.mine
             /\ ~(request.unpinned /\ m.pinned)
             /\ m.date >= request.after
Wanted(m) == Passes(m) /\ (request.kind = "privacy" => m.sensitive)

Key(m) == <<m.chat, m.id>>
Keys(messages) == {Key(messages[n]) : n \in DOMAIN messages}

\* sort_by_key is stable.
Newest(messages) ==
    LET before(i, j) == messages[i].date > messages[j].date
                        \/ (messages[i].date = messages[j].date /\ i < j)
        order == SetToSortSeq(DOMAIN messages, before)
    IN [n \in DOMAIN messages |-> messages[order[n]]]
Truncated(messages, limit) == SubSeq(messages, 1, IF Len(messages) < limit THEN Len(messages) ELSE limit)

\* A scan keeps the newest of what it has found whenever it holds too many; a message
\* that is dropped loses its mark of having matched.
Sift_AtLimit(found, m) ==
    IF m.id = cursor \/ Key(m) \in Keys(found) \/ ~Wanted(m) THEN found
    ELSE Truncated(Append(found, m), request.limit)
Sift(found, m) ==
    IF m.id = cursor \/ Key(m) \in Keys(found) \/ ~Wanted(m) THEN found
    ELSE LET all == Append(found, m)
         IN IF Len(all) > 2 * request.limit THEN Truncated(Newest(all), request.limit) ELSE all

\* raw_own_messages and raw_chat_messages
Gather(found, m) == IF Key(m) \in Keys(found) \/ Len(found) >= CleanupLimit THEN found
                    ELSE Append(found, m)

Collected(page) == CASE request.kind = "privacy" -> FoldLeft(Sift, got, page)
                     [] request.kind = "search" -> got \o page
                     [] OTHER -> FoldLeft(Gather, got, page)

\* A scan stops in a chat when a whole page is too old.
TooOld(page) == /\ request.kind = "privacy" /\ page # <<>>
                /\ \A n \in DOMAIN page : page[n].date < request.after

Superseded == request.kind = "privacy" /\ generation # mine.generation
Paging == at = "paging" /\ request.kind # "ids" /\ ~Superseded

Supersedes == /\ at = "paging" /\ todo # <<>> /\ Superseded
              /\ got' = <<>> /\ UNCHANGED servedBy /\ Ends("superseded")

\* The source has given as much as the read takes.
Full == CASE request.kind = "search" -> here >= Larger(2 * request.limit, Floor)
          [] request.kind = "privacy" -> FALSE
          [] OTHER -> Len(got) >= CleanupLimit

\* raw_search takes no further chat when it has enough messages; without chats to
\* search it makes the global and the secret search, whatever the first has found.
Satisfied(messages) ==
    request.kind = "search" /\ ~request.everywhere /\ Len(messages) >= 2 * request.limit
NextSource(messages) == Fresh /\ todo' = IF Satisfied(messages) THEN <<>> ELSE Tail(todo)

Enough == /\ Paging /\ todo # <<>> /\ Full
          /\ NextSource(got) /\ whole' = (whole /\ request.kind # "search")
          /\ UNCHANGED <<server, login, generation, request, mine, at, got, servedBy>>

NextPage ==
    /\ Paging /\ todo # <<>> /\ ~Full /\ pages < MaxPages
    /\ \E from, to \in 0..Len(Offered) + 1 :
        /\ IsPage(from, to)
        /\ LET page == Page(from, to)
           IN \E next \in {NextCursor(to), cursor} \cup seen :
                /\ got' = Collected(page)
                /\ servedBy' = servedBy \cup {login}
                /\ LET last == next = 0 \/ next = cursor \/ next \in seen
                       over == last \/ TooOld(page)
                   IN /\ whole' = (whole /\ next = NextCursor(to)
                                   /\ (over /\ Satisfied(got') => Len(todo) = 1))
                      /\ IF over THEN NextSource(got')
                         ELSE /\ cursor' = next /\ seen' = seen \cup {next} /\ pages' = pages + 1
                              /\ here' = here + Len(page) /\ UNCHANGED todo
    /\ UNCHANGED <<server, login, generation, request, mine, at>>

\* A scan passes over a chat that TDLib no longer finds.
ChatGone == /\ Paging /\ todo # <<>> /\ request.kind = "privacy"
           /\ Fresh /\ todo' = Tail(todo) /\ whole' = FALSE
           /\ UNCHANGED <<server, login, generation, request, mine, at, got, servedBy>>

\* The page budget, or an error of TDLib.
Fails == /\ at = "paging" /\ todo # <<>>
         /\ got' = <<>> /\ UNCHANGED servedBy /\ Ends("failed")
-----------------------------------------------------------------------------
\* messages_by_ids: TDLib may answer anything.
Null == [id |-> 0, chat |-> 0]
Stored == UNION {ToSet(server[s]) : s \in DOMAIN server}
Answers == UNION {[1..n -> Stored \cup {Null}] : n \in 0..PageSize + 1}

Requested(answer) ==
    /\ Len(answer) = Len(Source) /\ Null \notin ToSet(answer)
    /\ \A n \in DOMAIN answer : Key(answer[n]) \in ToSet(Source)
    /\ \A n, k \in DOMAIN answer : Key(answer[n]) = Key(answer[k]) => n = k

Chunk ==
    /\ at = "paging" /\ request.kind = "ids" /\ todo # <<>>
    /\ \E answer \in Answers :
        IF Requested(answer)
        THEN /\ got' = got \o answer /\ todo' = Tail(todo) /\ UNCHANGED at
        ELSE at' = "failed" /\ got' = <<>> /\ UNCHANGED todo
    /\ servedBy' = servedBy \cup {login}
    /\ UNCHANGED <<server, login, generation, request, mine, cursor, seen, pages, here, whole>>
-----------------------------------------------------------------------------
\* search: each message once, filtered, until there are enough.
Kept(found, m) ==
    IF Len(found.messages) >= request.limit \/ Key(m) \in found.seen THEN found
    ELSE [seen |-> found.seen \cup {Key(m)},
          messages |-> IF Passes(m) THEN Append(found.messages, m) ELSE found.messages]

InOrder(ids) == [n \in DOMAIN ids |-> CHOOSE m \in ToSet(got) : Key(m) = ids[n]]
Result ==
    CASE request.kind = "privacy" -> Truncated(Newest(got), request.limit)
      [] request.kind = "search" ->
            Newest(FoldLeft(Kept, [seen |-> {}, messages |-> <<>>], got).messages)
      [] request.kind = "ids" -> InOrder(request.ids)
      [] OTHER -> got

\* The context is checked again before anything is answered.
Fits == login = mine.login
Answer ==
    /\ at = "paging" /\ todo = <<>>
    /\ got' = IF Fits THEN Result ELSE <<>>
    /\ UNCHANGED servedBy
    /\ Ends(IF Fits THEN "done" ELSE "failed")

\* Another search, and another account, while the read is under way.
SearchElsewhere ==
    /\ at = "paging" /\ generation = mine.generation
    /\ generation' = generation + 1
    /\ UNCHANGED <<server, login, request, mine, at, todo, cursor, seen, pages, here, got, whole,
                   servedBy>>
ChangeAccount ==
    /\ at = "paging" /\ login < MaxLogins
    /\ login' = login + 1
    /\ UNCHANGED <<server, generation, request, mine, at, todo, cursor, seen, pages, here, got,
                   whole, servedBy>>

ReadNext == \/ Begin \/ Supersedes \/ Enough \/ NextPage \/ ChatGone \/ Fails \/ Chunk \/ Answer
            \/ SearchElsewhere \/ ChangeAccount
-----------------------------------------------------------------------------
\* The newest of a set of messages, as many as the limit: which of several of the
\* same second is not said.
Asked == UNION {ToSet(server[request.sources[n]]) : n \in DOMAIN request.sources}
IsNewest(messages, set, limit) ==
    /\ ToSet(messages) \subseteq set
    /\ Len(messages) = IF Cardinality(set) < limit THEN Cardinality(set) ELSE limit
    /\ \A n \in DOMAIN messages : \A m \in set \ ToSet(messages) : m.date <= messages[n].date

\* What a read answers is exactly what was asked for, of one account: of a scan the
\* newest matches, although it never holds more than twice the limit and pages
\* overlap; of an enumeration the newest messages; of identifiers these messages in
\* this order, whatever TDLib answers.  No message comes twice.
AnswersAreExact ==
    at = "done" =>
        /\ servedBy \subseteq {mine.login}
        /\ IsInjective([n \in DOMAIN got |-> Key(got[n])])
        /\ request.kind \in {"privacy", "search"} =>
              /\ \A n \in DOMAIN got : Wanted(got[n]) /\ got[n] \in Asked
              /\ \A n, k \in DOMAIN got : n < k => got[n].date >= got[k].date
        /\ whole /\ request.kind = "privacy" =>
              IsNewest(got, {m \in Asked : Wanted(m)}, request.limit)
        /\ whole /\ request.kind = "search" =>
              Len(got) = IF Cardinality({m \in Asked : Passes(m)}) < request.limit
                         THEN Cardinality({m \in Asked : Passes(m)}) ELSE request.limit
        /\ whole /\ request.kind \in {"own", "chat"} =>
              IsNewest(got, {m \in Asked : request.kind = "own" => m.mine}, CleanupLimit)
        /\ request.kind = "ids" => [n \in DOMAIN got |-> Key(got[n])] = request.ids
=============================================================================
