CONSTANTS
    u1 = u1
    t1 = t1
    t2 = t2
    credit1 = credit1
    credit2 = credit2
    reversal1 = reversal1
    reversal2 = reversal2
    other1 = other1
    other2 = other2
    Nobody = Nobody
    x1 = x1
    x2 = x2
    x3 = x3
    p1 = p1
    Scheduler = Scheduler
    Members = {1, 2, 3}
    Reviewers = {x1, x2}
    Prizes = {0, 2}
    MaxCalls = 3
    Pushes = {p1}
    Recipients = {x1, x2}
    MaxStamp = 3
    MaxTrouble = 2
    Callers = {x1, x2}
    MaxTokens = 3
    MaxCodes = 1
    MaxSwitches = 1
    Attempts = {x1, x2, x3}
    MaxRotations = 3
    MaxOutages = 2
    Images = {1, 2, 3}
    Proofs = {1, 2}
    Batch = 1
    MaxBreaks = 1
    Profiles <- People
    InvitedAs = 1
    ReferralCodes = {1, 2, 3}
    Requests = {x1, x2}
    MaxRows = 3
    MaxRequests = 4
    Sockets = {1, 2, 3}
    Players = {x1}
    TokenOf <- TokenOfX1
    NoSocket = NoSocket
    Users = {u1}
    Trans = {t1, t2}
    Owner <- OneOwner
    Amount <- Coins
    Calls = {credit1, credit2, reversal1, reversal2, other1, other2}
    Of <- Target
    Kind <- Kinds
    Overlapping = {t1}
    MaxFailures = 2
SPECIFICATION PlatformSpec
INVARIANTS
    TypesOK
    CoinsMatchRow
    RewardsPaidOnce
    ReferralsDoNotDeadlock
    InboxWrittenOnce
    SessionsAndAccountsAreSingle
    InactiveHasNoSession
    TokenIsKept
    RowsMatchObjects
    SessionsFollowSockets
PROPERTIES
    PostbacksAnswered
    EveryPushSettles
    ExpiredProofsRetire
CHECK_DEADLOCK FALSE
