CONSTANTS
    o1 = o1
    s1 = s1
    s2 = s2
    c1 = c1
    c2 = c2
    c3 = c3
    h1 = h1
    h2 = h2
    NoSlot = NoSlot
    Slots = {s1}
    Offers = {o1}
    Offer <- OneOffer
    Calls = {c1, c2, c3}
    Slot <- OneCaller
    Shots <- FreshShots
    Admins = {a1}
    Coins = {1, 2}
    MaxUsers = 2
    MaxRewards = 2
    DailyLimit = 3
    AllowResubmit = TRUE
    RejectDuplicates = TRUE
    Overlapping = {s1}
    MaxReopens = 1
SPECIFICATION Spec
INVARIANT RewardedOnce
CHECK_DEADLOCK FALSE
