---------------------------- MODULE MCCpxPostbacks ----------------------------
\* TLC instances of CpxPostbacks: t1 carries coins, t2 none; the calls are a
\* credit and its retry, a reversal and its retry, and one reversal of t2.
EXTENDS CpxPostbacks

CONSTANTS u1, t1, t2, credit1, credit2, reversal1, reversal2, other1, other2

OneOwner == [t \in Trans |-> u1]
Coins == [t \in Trans |-> IF t = t1 THEN 2 ELSE 0]
Target == [c \in Calls |-> IF c \in {other1, other2} THEN t2 ELSE t1]
Kinds == [c \in Calls |-> IF c \in {credit1, credit2, other1} THEN "credit" ELSE "reversal"]
===============================================================================
