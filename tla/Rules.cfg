SPECIFICATION Spec
CONSTANTS
    Files <- MCFiles
    Folders <- MCFolders
    MaxOverwrites = 2
    MaxPasses = 2
    MaxU64 = 105
    MaxDepth = 2
    MaxScalar = 4
    MaxRecord = 5
    Expansion = 1
    Alphabets <- MCAlphabets
    MaxBytes = 6
    Ids = {"absent", "id", "zero", "text"}
    Stamps = {"absent", "seconds", "millis", "null"}
    Texts = {"absent", "text", "null"}
    FirstDays <- MCFirstDays
    MaxDays = 400
    Chats = {direct, group}
    Groups = {group}
    Callers = {a, b}
    MaxChanges = 2
    MaxCalls = 3
    Histories <- MCHistories
    Requests <- MCRequests
    PageSize = 2
    MaxPages = 4
    CleanupLimit = 3
    Floor = 2
    MaxLogins = 2
    Statuses <- MCStatuses
    Letters <- MCLetters
    TargetChat = 1
    Selection <- MCSelection
    Senders <- MCSenders
    MaxSteps = 3
    MaxTargets = 3
    BatchSize = 2
    FewMessages = 2
    MaxShifts = 1
    App = {p, q}
    Beginnings <- MCBeginnings
    Hashes = {21}
    Credentials = {31}
    MaxVaultCalls = 3
    MaxVaultFaults = 2
    MaxLaunches = 2
    Written <- MCWritten
    Workers = {x, y}
    Selected <- MCSelected
    OldPlans <- MCOldPlans
    Questions <- MCQuestions
    LookupLimit = 2
    TargetLimit = 3
    QueryPage = 2
    TalkLimit = 3
    MaxTasks = 2
    MaxSignIns = 2
    MaxTurns = 1
    LegacyPlans <- MCLegacyPlans
    LegacyJobs <- MCLegacyJobs
INVARIANTS
    CompletedIsInspected
    SyntaxIsExact
    StaleIsMarked
    QueriesAreExact
    PlansAreWhatWasOffered
    SecretsAreKept
    WhatIsDeletedWasReviewed
    MigrationKeepsHistory
CHECK_DEADLOCK FALSE
