---------------------------- MODULE MCRouletteRounds ----------------------------
\* A TLC instance of RouletteRounds: one user calls twice under key k1, with a
\* paid bet and with a free game, and once under k2.
EXTENDS RouletteRounds, TLC

CONSTANTS u1, k1, k2, c1, c2, c3, s1, s2

OneUser == [c \in Calls |-> u1]
TwoUnderK1 == [c \in Calls |-> IF c = c3 THEN k2 ELSE k1]
OnlyC2 == [c \in Calls |-> c = c2]
Ones == [c \in Calls |-> 1]
Twos == [c \in Calls |-> 2]
\* One window: asked for at 0 it lies ahead, later it starts late.
OneWindow == {<<1, MaxTime>>}
\* The schedules are alike.
Either == Permutations(Schedules)
===============================================================================
