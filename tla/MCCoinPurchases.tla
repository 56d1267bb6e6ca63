---------------------------- MODULE MCCoinPurchases ----------------------------
\* TLC instances of CoinPurchases: one user, payments p1 and p2 for order o1,
\* p3 for order o2.
EXTENDS CoinPurchases

CONSTANTS u1, o1, o2, p1, p2, p3

OneOwner == [o \in Orders |-> u1]
Packs == [o \in Orders |-> IF o = o1 THEN 1 ELSE 2]
PaymentFor == [p \in Payments |-> IF p = p3 THEN o2 ELSE o1]
===============================================================================
