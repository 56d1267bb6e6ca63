CONSTANTS
    u1 = u1
    u3 = u3
    k1 = k1
    k2 = k2
    c1 = c1
    c2 = c2
    c3 = c3
    s1 = s1
    s2 = s2
    m1 = m1
    m2 = m2
    d1 = d1
    d2 = d2
    d3 = d3
    p1 = p1
    NoSeat = NoSeat
    Nobody = Nobody
    NoDice = 0
    NoText = NoText
    Matches = {m1, m2}
    MaxPlies = 4
    CacheMax = 1
    DailyLimit = 1
    Reward = 5
    MaxFaults = 1
    Gamers = {s1, s2, u3}
    MaxMatches = 2
    MaxOps = 2
    MaxCalls = 6
    MaxOutages = 1
    Seats = {0, 1, 2}
    Pawns = {p1}
    TrackLast = 5
    HOME = 7
    StartOffset <- EverySecond
    SafeCells = {0, 2, 4}
    Six = 3
    extraTurnOnSix = TRUE
    extraTurnOnCapture = TRUE
    threeConsecutiveSixes = TRUE
    Tables <- Tables37
    Payouts <- TwoPayouts
    Stakes = {1, 2}
    Picked = {17}
    Paid = {30}
    Resolution = 37
    MaxEdits = 3
    maxPayoutPerGame = 40
    maxPayoutPerUserPerDay = 65
    Talkers = {u1, u3}
    Messages = {m1, m2}
    Sayer <- SaidByU1
    Text <- QuickAndText
    Sends = {d1, d2, d3}
    Says <- TwiceM1
    RateLimit = 1
    Listeners = {u3}
    Joiners = {u1, u3}
    Joins = {d1, d2, d3}
    Caller <- TwiceU1
    ChatChanges = 2
    VoiceChanges = 3
    Calls = {c1, c2, c3}
    Users = {u1}
    User <- OneUser
    Keys = {k1, k2}
    Key <- TwoUnderK1
    Free <- OnlyC2
    Stake <- Ones
    Win <- Twos
    Schedules = {s1, s2}
    Fair = Fair
    Windows <- OneWindow
    Cooldown = 2
    MaxGames = 2
    MaxPaid = 1
    FreePerDay = 1
    MaxPayout = 3
    DayLength = 3
    MaxTime = 4
    MaxBalance = 1
SPECIFICATION PlaySpec
SYMMETRY Alike
INVARIANTS
    TypesOK
    WithinDailyLimits
    RoundUsesPolicyInForce
    ComputerPlaysMinimax
    PlayedAsShownAndPaid
    SearchedAndMatchedOnce
    BoardIsFair
    WheelIsFair
    TalkReachesWhomItMay
CHECK_DEADLOCK FALSE
