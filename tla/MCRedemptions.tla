---------------------------- MODULE MCRedemptions ----------------------------
(* Small instances of Redemptions for TLC. *)
EXTENDS Redemptions

CONSTANT u1

\* One user with several concurrent requests: wallets of different users
\* share nothing.
OneOwner == [i \in Ids |-> u1]
===============================================================================
