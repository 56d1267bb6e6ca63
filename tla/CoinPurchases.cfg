CONSTANTS
    u1 = u1
    o1 = o1
    o2 = o2
    p1 = p1
    p2 = p2
    p3 = p3
    NoPayment = NoPayment
    Users = {u1}
    Orders = {o1, o2}
    Owner <- OneOwner
    Coins <- Packs
    Order <- PaymentFor
    Payments = {p1, p2, p3}
    Verifiers = {v1}
    Reconcilers = {r1}
    Take = 2
    Single = {o2}
    MaxFailures = 1
SPECIFICATION FairSpec
INVARIANTS
    CoinsForMoney
PROPERTIES
    CapturedIsCredited
CHECK_DEADLOCK FALSE
