CONSTANTS
    u1 = u1
    t1 = t1
    t2 = t2
    credit1 = credit1
    credit2 = credit2
    reversal1 = reversal1
    reversal2 = reversal2
    other1 = other1
    other2 = other2
    Nobody = Nobody
    Users = {u1}
    Trans = {t1, t2}
    Owner <- OneOwner
    Amount <- Coins
    Calls = {credit1, reversal1}
    Of <- Target
    Kind <- Kinds
    Overlapping = {t1, t2}
    MaxFailures = 0
SPECIFICATION Spec
INVARIANT ReversalIsKept
CHECK_DEADLOCK FALSE
