------------------------------- MODULE LudoTalk -------------------------------
(***************************************************************************)
(* A Ludo room as those see it who talk in it: who is there, and whom the    *)
(* admins have silenced (ludo-admin.service.ts: updateRestrictions).  The    *)
(* game itself goes on in LudoRooms; here a player may be away, forfeit, or  *)
(* see the end of the game at any time.  LudoChat and LudoVoice extend it.    *)
(***************************************************************************)
EXTENDS Naturals, FiniteSets

CONSTANTS
    Users,
    MaxChanges                 \* bound: restrictions, departures, and what the extensions count

VARIABLES
    over,        \* the room is COMPLETED
    player,      \* status of each player's row
    routed,      \* users whose session receives the room's events (hub.setLudoGame)
    silenced,    \* users under a COMMUNICATION restriction
    changes

presence == <<over, player, routed>>
roomVars == <<presence, silenced, changes>>

RoomInit ==
    /\ over = FALSE /\ routed = Users
    /\ player = [u \in Users |-> "ACTIVE"]
    /\ silenced = {}
    /\ changes = 0

\* assertRoomMember
IsMember(u) == ~over /\ player[u] = "ACTIVE"
Change == changes < MaxChanges /\ changes' = changes + 1

\* updateRestrictions revokes what is in force and may write a new one.
Restrict(u) ==
    /\ Change
    /\ silenced' = IF u \in silenced THEN silenced \ {u} ELSE silenced \cup {u}
    /\ UNCHANGED presence

\* The socket closes, or another one of the user replaces it.
LoseSocket(u) ==
    /\ Change
    /\ u \in routed
    /\ routed' = routed \ {u}
    /\ UNCHANGED <<over, player, silenced>>

\* markDisconnected, if nobody has come back by then.
MarkDisconnected(u) ==
    /\ u \notin routed /\ IsMember(u)
    /\ player' = [player EXCEPT ![u] = "DISCONNECTED"]
    /\ UNCHANGED <<over, routed, silenced, changes>>

\* resumeActive
ComeBack(u) ==
    /\ u \notin routed /\ ~over /\ player[u] \in {"ACTIVE", "DISCONNECTED"}
    /\ routed' = routed \cup {u}
    /\ player' = [player EXCEPT ![u] = "ACTIVE"]
    /\ UNCHANGED <<over, silenced, changes>>

\* mutateActiveRoom
GiveUp(u) ==
    /\ Change
    /\ ~over /\ player[u] \in {"ACTIVE", "DISCONNECTED"}
    /\ player' = [player EXCEPT ![u] = "FORFEITED"]
    /\ routed' = routed \ {u}
    /\ UNCHANGED <<over, silenced>>

\* settleCompletedRoom, and the routes that follow
Finished ==
    /\ Change
    /\ ~over
    /\ over' = TRUE
    /\ player' = [u \in Users |-> IF player[u] = "FORFEITED" THEN "FORFEITED" ELSE "FINISHED"]
    /\ routed' = {}
    /\ UNCHANGED silenced

-------------------------------------------------------------------------------
\* The types of the variables.
RoomTypeOK ==
    /\ over \in BOOLEAN /\ routed \subseteq Users
    /\ player \in [Users -> {"ACTIVE", "DISCONNECTED", "FORFEITED", "FINISHED"}]
    /\ silenced \subseteq Users
    /\ changes \in 0..MaxChanges
===============================================================================
