CONSTANTS
    o1 = o1
    s1 = s1
    s2 = s2
    c1 = c1
    c2 = c2
    c3 = c3
    h1 = h1
    h2 = h2
    a1 = a1
    a2 = a2
    b1 = b1
    b2 = b2
    d1 = d1
    d2 = d2
    Nobody = Nobody
    NoAsker = NoAsker
    Legacy = Legacy
    None = None
    NoSlot = NoSlot
    Slots = {s1, s2}
    Offers = {o1}
    Offer <- OneOffer
    Calls = {c1, c2, c3}
    Slot <- Callers
    Shots <- SharedShots
    Admins = {admin}
    Coins = {1, 2}
    MaxUsers = 2
    MaxRewards = 1
    DailyLimit = 1
    AllowResubmit = FALSE
    RejectDuplicates = TRUE
    Overlapping = {}
    MaxReopens = 1
    Listings = {b1, b2}
    Categories = {c1}
    Readers = {a1, a2}
    Editors = {d1, d2}
    Keys = {1, 3}
    Asked = {1}
    LastSlug = 2
    CacheMax = 1
    MaxEdits = 2
    MaxUpsets = 1
    Askers = {a1, a2, c1}
    MaxUpdates = 2
    MaxMishaps = 1
    Orders = {b1, b2}
    Plans = {"PLUS", "PRO"}
    AppCalls = {a1, a2}
    Deliveries = {d1, d2}
    MaxChanges = 1
    MaxBegun = 3
    MaxFaults = 1
SPECIFICATION StorefrontSpec
SYMMETRY Alike
INVARIANTS
    TypesOK
    RewardedOnceInTurn
    CreditedAsQuoted
    LimitsHold
    AcknowledgedIsSeen
    PaidAndDeliveredOnce
CHECK_DEADLOCK FALSE
