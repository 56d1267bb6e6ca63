--------------------------- MODULE MCOfferSubmissions ---------------------------
\* TLC instances of OfferSubmissions: one offer, rows s1 and s2 of two users.
EXTENDS OfferSubmissions

CONSTANTS o1, s1, s2, c1, c2, c3, h1, h2

OneOffer == [s \in Slots |-> o1]

\* All calls are one user's.
OneCaller == [c \in Calls |-> s1]

\* c1 and c2 are the calls of one user, c3 of the other.
Callers == [c \in Calls |-> IF c = c3 THEN s2 ELSE s1]

\* Every call brings a screenshot of its own.
FreshShots == [c \in Calls |-> {c}]

\* The two users share a screenshot; c2 brings another.
SharedShots == [c \in Calls |-> IF c = c2 THEN {h2} ELSE {h1}]
===============================================================================
