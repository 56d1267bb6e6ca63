------------------------------ MODULE MCLudoRooms ------------------------------
(* The instance of LudoRooms for model checking.                           *)
EXTENDS LudoRooms

CONSTANTS u1, u2

TwoPlayers == {2}
\* One user reconnects or replaces its socket, the other stays on its only one.
OneReconnects == [u \in Users |-> IF u = u1 THEN 2 ELSE 1]
=============================================================================
