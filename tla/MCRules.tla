------------------------------- MODULE MCRules -------------------------------
(***************************************************************************)
(* The instances of the rules that decide what is read, kept, offered and  *)
(* planned: reading a Discord export, its syntax, the native gateway's     *)
(* catalog and reads, Telegram's planning, the vault of the secrets, the   *)
(* Discord remediation adapter, and the migration of an earlier store.     *)
(* They share no state, so a behaviour is one of one of them while the     *)
(* others are idle.                                                        *)
(***************************************************************************)
EXTENDS DiscordArchive, ArchiveSyntax, TelegramCatalog, TelegramReads, TelegramPlanning,
        SecretVault, DiscordRemediation, LegacyMigration, TLC

\* Exports
Part(word) == [word |-> word, exact |-> TRUE]
Other(word) == [word |-> word, exact |-> FALSE]
Entry(name, from, content) ==
    [name |-> name, directory |-> FALSE, plain |-> TRUE, from |-> from, to |-> from + 1,
     declared |-> content.size, crc |-> content, content |-> content]
Account == [kind |-> "account", size |-> 1, id |-> 1]
Index == [kind |-> "index", size |-> 1]
Header(id) == [kind |-> "context", size |-> 1, id |-> id, guild |-> TRUE, recipients |-> FALSE,
               name |-> TRUE]
Record(id) == [id |-> id, stamp |-> id \div 2, whole |-> TRUE, author |-> FALSE]
RecordsOf(list) == [kind |-> "messages", size |-> Len(list), records |-> list]
In(folder, file) == <<Part("messages"), Part(folder), Part(file)>>
Export(first, second) ==
    <<Entry(<<Part("account"), Part("user.json")>>, 0, Account),
      Entry(<<Part("messages"), Part("index.json")>>, 1, Index),
      Entry(In("c1", "channel.json"), 2, Header("c1")),
      Entry(In("c1", "messages.json"), 3, RecordsOf(first)),
      Entry(In("c2", "messages.json"), 4, RecordsOf(second)),
      Entry(In("c2", "channel.json"), 5, Header("c2"))>>
Good == Export(<<Record(2), Record(5)>>, <<>>)
Changed(i, field, value) == [Good EXCEPT ![i] = [@ EXCEPT ![field] = value]]
Also(name) == Append(Good, Entry(name, 6, Index))
\* An honest export, a newer one, and files that are each wrong in one way.
MCFiles ==
    {Good,
     Export(<<Record(2), Record(7)>>, <<Record(8)>>),
     Export(<<Record(2), [Record(5) EXCEPT !.author = TRUE]>>, <<>>),
     Export(<<Record(2), [Record(5) EXCEPT !.stamp = 3]>>, <<>>),
     Export(<<[Record(2) EXCEPT !.whole = FALSE]>>, <<>>),
     Changed(4, "content", RecordsOf(<<Record(3), Record(5)>>)),
     Changed(4, "declared", 9),
     Changed(6, "from", 4),
     [Good EXCEPT ![6] = Entry(In("c2", "channel.json"), 7, Header("c2"))],
     Changed(4, "plain", FALSE),
     [Good EXCEPT ![3] = Entry(In("c1", "channel.json"), 2, Header("c2"))],
     [Good EXCEPT ![3] = Entry(In("c1", "channel.json"), 2, [Header("c1") EXCEPT !.recipients = TRUE])],
     [Good EXCEPT ![2] = Entry(<<Part("messages"), Part("index.json")>>, 1, RecordsOf(<<>>))],
     SubSeq(Good, 1, 2), SubSeq(Good, 1, 5),
     Also(<<Part("notes"), Part("messages.csv")>>),
     Also(<<Part("messages"), Part("c1"), Other("channel.json")>>),
     Also(<<Part("messages"), Part("c1")>>),
     Append(Good, [Entry(<<Part("messages"), Part("c1")>>, 6, Index) EXCEPT
                     !.directory = TRUE, !.declared = 0]),
     Also(<<Part("backup"), Part("user.json")>>),
     Also(<<Part("messages"), Other("c1"), Part("notes")>>),
     Also(<<Part("notes"), Part("index.json")>>)}
MCFolders == <<"c1", "c2">>
-----------------------------------------------------------------------------
\* Syntax
MCAlphabets == {{"0", "1", ".", "e", "-", " "}, {"[", "]", ",", "\"", "\\", "1"}}
MCFirstDays == {[y |-> 1, m |-> 1, d |-> 1, n |-> -719162], [y |-> 1900, m |-> 2, d |-> 1, n |-> -25536],
  [y |-> 1999, m |-> 12, d |-> 31, n |-> 10956], [y |-> 2024, m |-> 2, d |-> 1, n |-> 19754]}
-----------------------------------------------------------------------------
\* Reads
OneLetter(chat, id, date, own) ==
    [id |-> id, chat |-> chat, date |-> date, mine |-> own, pinned |-> FALSE, sensitive |-> TRUE]
MCHistories ==
    {"c1" :> <<OneLetter("c1", 9, 5, TRUE),
               [OneLetter("c1", 8, 4, FALSE) EXCEPT !.sensitive = FALSE],
               OneLetter("c1", 6, 2, TRUE), OneLetter("c1", 5, 1, FALSE)>>
     @@ "c2" :> <<OneLetter("c2", 9, 6, FALSE),
                  [OneLetter("c2", 7, 3, TRUE) EXCEPT !.pinned = TRUE],
                  OneLetter("c2", 4, 2, TRUE)>>}
Ask(kind, sources, limit) == [kind |-> kind, sources |-> sources, everywhere |-> FALSE, limit |-> limit,
                              direction |-> "any", after |-> 0, unpinned |-> FALSE, ids |-> <<>>]
MCRequests ==
  {Ask("privacy", <<"c1", "c2", "c1">>, n) : n \in 1..2}
  \cup {[Ask("privacy", <<"c2", "c1">>, 1) EXCEPT !.after = 3, !.unpinned = TRUE],
        [Ask("privacy", <<"c2", "c1">>, 2) EXCEPT !.direction = "mine"],
        Ask("search", <<"c1", "c2">>, 3), [Ask("search", <<"c1", "c2">>, 1) EXCEPT !.direction = "others"],
        [Ask("search", <<"c1", "c2">>, 1) EXCEPT !.everywhere = TRUE],
        Ask("own", <<"c1">>, 0), Ask("chat", <<"c1">>, 0),
        [Ask("ids", <<>>, 0) EXCEPT !.ids = <<<<"c1", 9>>, <<"c2", 7>>, <<"c1", 6>>, <<"c1", 5>>>>],
        [Ask("ids", <<>>, 0) EXCEPT !.ids = <<<<"c1", 9>>, <<"c1", 9>>>>]}
-----------------------------------------------------------------------------
\* Planning
\* (a restricted member has the rights of a member, and a secret chat those of a direct
\* one: one of the two will do)
MCStatuses ==
    LET as(k, who, c) == [kind |-> k, status |-> who, clear |-> c, self |-> TRUE]
    IN {as("Supergroup", "creator", TRUE), as("Supergroup", "admin", FALSE), as("Supergroup", "limited", TRUE),
        as("Supergroup", "member", TRUE), as("Supergroup", "member", FALSE), as("Supergroup", "outside", FALSE),
        as("BasicGroup", "creator", TRUE), as("BasicGroup", "admin", FALSE), as("Channel", "admin", TRUE),
        as("Direct", "private", TRUE), as("Direct", "private", FALSE),
        [as("Direct", "private", TRUE) EXCEPT !.self = FALSE]}
MCLetters == {[chat |-> 1, id |-> 1, own |-> TRUE], [chat |-> 1, id |-> 2, own |-> FALSE],
              [chat |-> 1, id |-> 3, own |-> TRUE], [chat |-> 1, id |-> 4, own |-> FALSE],
              [chat |-> 2, id |-> 1, own |-> FALSE]}
MCSelection == {m \in MCLetters : m.id < 3}
MCSenders == {-2, 5}
-----------------------------------------------------------------------------
\* Vault
Older(h, t, j) == ("hash" :> h) @@ ("tdlib" :> t) @@ ("jobs" :> j)
Holding(edition, h, t, j, i, d) ==
    [edition |-> edition, has |-> Older(h, t, j) @@ ("index" :> i) @@ ("discord" :> d)]
NothingYet == Holding(0, 0, 0, 0, 0, 0)
MCBeginnings ==
    {[item |-> i, legacy |-> Older(0, 0, 0)] :
        i \in {NothingYet, Holding(2, 20, 10, 0, 12, 0),
              Holding(3, 0, 0, 11, 0, 30), Holding(4, 0, 0, 0, 0, 0)}}
    \cup {[item |-> NothingYet, legacy |-> l] : l \in {Older(20, 10, 0), Older(0, Malformed, 11)}}
    \cup {[item |-> Holding(1, 21, 10, 0, 0, 0), legacy |-> Older(20, 10, 0)]}
-----------------------------------------------------------------------------
\* Remediation
Row(id, author, chat, secret) == [id |-> id, author |-> author, chat |-> chat, private |-> secret]
MCWritten == <<Row(1, "owner", 1, TRUE), Row(2, "owner", 2, FALSE), Row(3, "somebody", 1, TRUE),
               Row(4, "owner", 1, TRUE)>>
MCTalks == [n \in 1..5 |-> [chat |-> n, title |-> (n * 3) % 4]]
OnePlan == [targets |-> <<1>>, steps |-> <<<<1>>>>, count |-> 1, owner |-> "owner", policy |-> "resume",
            constant |-> TRUE]
MCSelected == {<<>>, <<1>>, <<2, 1>>, <<1, 1>>, <<3>>, <<1, 2, 4>>, <<1, 1, 1, 1>>}
MCOldPlans == {OnePlan}
MCQuestions ==
    [kind : {"search"}, chats : {{}, {1}}, private : BOOLEAN, direction : {"any", "mine", "others"}, limit : 1..3,
     talks : {<<>>}]
    \cup [kind : {"list", "refresh"}, chats : {{1, 2}}, private : {FALSE}, direction : {"any"}, limit : {0},
          talks : {SubSeq(MCTalks, 1, n) : n \in 1..5}]
-----------------------------------------------------------------------------
\* Migration
Code(name) == [name |-> name, prefixed |-> FALSE]
FromTelegram(name) == [name |-> name, prefixed |-> TRUE]
OneJob(n, how, count, said) ==
    [id |-> n, plan |-> 1, operation |-> "leave", status |-> how, deleted |-> count, uncertain |-> 0,
     codes |-> said, created |-> 1, updated |-> 2]
MCJobs ==
    {OneJob(1, s, d, c) :
        s \in Unfinished \cup {"completed", "partial", "failed", "cancelled"}, d \in 0..1,
        c \in {<<>>, <<Code(Review)>>, <<FromTelegram("rate_limited"), Code("no_such_code")>>}}
    \cup {[OneJob(2, "queued", 1, <<>>) EXCEPT !.plan = p, !.operation = o] : p \in 0..2, o \in {"leave", "clear"}}
    \cup {[OneJob(2, "failed", 0, <<Code("ambiguous_outcome")>>) EXCEPT !.updated = 0], OneJob(0, "failed", 0, <<>>)}
MCLegacyJobs == {<<>>} \cup {<<j>> : j \in MCJobs} \cup {<<j, k>> : j, k \in MCJobs}
MCLegacyPlans ==
    LET one(n, op) == [id |-> n, operation |-> op]
    IN {<<>>, <<one(1, "leave")>>, <<one(1, "leave"), one(2, "clear")>>, <<one(1, "leave"), one(1, "leave")>>,
        <<one(1, "leave"), one(0, "clear")>>}
-----------------------------------------------------------------------------
Init == \/ ArchiveInit /\ SyntaxIdle /\ CatalogIdle /\ ReadIdle
           /\ PlanningIdle /\ VaultIdle /\ RemediationIdle /\ MigrationIdle
        \/ ArchiveIdle /\ SyntaxInit /\ CatalogIdle /\ ReadIdle
           /\ PlanningIdle /\ VaultIdle /\ RemediationIdle /\ MigrationIdle
        \/ ArchiveIdle /\ SyntaxIdle /\ CatalogInit /\ ReadIdle
           /\ PlanningIdle /\ VaultIdle /\ RemediationIdle /\ MigrationIdle
        \/ ArchiveIdle /\ SyntaxIdle /\ CatalogIdle /\ ReadInit
           /\ PlanningIdle /\ VaultIdle /\ RemediationIdle /\ MigrationIdle
        \/ ArchiveIdle /\ SyntaxIdle /\ CatalogIdle /\ ReadIdle
           /\ PlanningInit /\ VaultIdle /\ RemediationIdle /\ MigrationIdle
        \/ ArchiveIdle /\ SyntaxIdle /\ CatalogIdle /\ ReadIdle
           /\ PlanningIdle /\ VaultInit /\ RemediationIdle /\ MigrationIdle
        \/ ArchiveIdle /\ SyntaxIdle /\ CatalogIdle /\ ReadIdle
           /\ PlanningIdle /\ VaultIdle /\ RemediationInit /\ MigrationIdle
        \/ ArchiveIdle /\ SyntaxIdle /\ CatalogIdle /\ ReadIdle
           /\ PlanningIdle /\ VaultIdle /\ RemediationIdle /\ MigrationInit

Next == \/ /\ ArchiveNext
           /\ UNCHANGED <<syntaxVars, catalogVars, readVars, planningVars, vaultVars, remediationVars, migrationVars>>
        \/ /\ SyntaxNext
           /\ UNCHANGED <<archiveVars, catalogVars, readVars, planningVars, vaultVars, remediationVars, migrationVars>>
        \/ /\ CatalogNext
           /\ UNCHANGED <<archiveVars, syntaxVars, readVars, planningVars, vaultVars, remediationVars, migrationVars>>
        \/ /\ ReadNext
           /\ UNCHANGED <<archiveVars, syntaxVars, catalogVars, planningVars, vaultVars, remediationVars, migrationVars>>
        \/ /\ PlanningNext
           /\ UNCHANGED <<archiveVars, syntaxVars, catalogVars, readVars, vaultVars, remediationVars, migrationVars>>
        \/ /\ ~VaultIdle /\ VaultNext
           /\ UNCHANGED <<archiveVars, syntaxVars, catalogVars, readVars, planningVars, remediationVars, migrationVars>>
        \/ /\ RemediationNext
           /\ UNCHANGED <<archiveVars, syntaxVars, catalogVars, readVars, planningVars, vaultVars, migrationVars>>
        \/ /\ MigrationNext
           /\ UNCHANGED <<archiveVars, syntaxVars, catalogVars, readVars, planningVars, vaultVars, remediationVars>>

Spec == Init /\ [][Next]_<<archiveVars, syntaxVars, catalogVars, readVars,
                           planningVars, vaultVars, remediationVars, migrationVars>>
-----------------------------------------------------------------------------
\* What is asked of a provider is answered exactly: the paged reads of Telegram, with other
\* searches in between, and the paged searches and listings of a Discord archive.
QueriesAreExact == AnswersAreExact /\ FoundIsExact
=============================================================================
