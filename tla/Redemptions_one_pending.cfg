SPECIFICATION Spec
CONSTANTS
    u1 = u1
    Nobody = Nobody
    Users = {u1}
    Ids = {r1, r2}
    Admins = {a1}
    Owner <- OneOwner
    Methods = {"UPI"}
    Coins = {1}
    Rewards = {w1, w2}
    MaxDbFailures = 0
INVARIANTS
    OnePending
CHECK_DEADLOCK FALSE
