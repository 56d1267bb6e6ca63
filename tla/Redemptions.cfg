SPECIFICATION FairSpec
CONSTANTS
    u1 = u1
    Nobody = Nobody
    Users = {u1}
    Ids = {r1, r2}
    Admins = {a1}
    Owner <- OneOwner
    Methods = {"VOUCHER", "UPI"}
    Coins = {1, 2}
    Rewards = {w1, w2}
    MaxDbFailures = 1
INVARIANTS
    OnePendingVoucher
    EscrowMatchesRow
    IssuedIsNotRefunded
PROPERTIES
    LedgerSpec
    IssuedIsRecorded
    ApprovalIsResolved
CHECK_DEADLOCK FALSE
