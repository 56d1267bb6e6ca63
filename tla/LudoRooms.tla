------------------------------- MODULE LudoRooms -------------------------------
(***************************************************************************)
(* Ludo rooms from the queue to the settlement (ludo.service.ts, with the  *)
(* sessions of ludo-hub.ts and ludo-gateway.ts).                           *)
(*                                                                         *)
(* The operations run as transactions under advisory locks (of a user, of  *)
(* a user's presence, of a room, of a queue) and read the session table of *)
(* the process without any.  A transaction is one action unless other      *)
(* sessions can change, between two of its steps, something it has read.   *)
(* Who holds a lock follows from the steps.  Of the rules of the game      *)
(* there remain who is still playing and whose turn it is.  Where a        *)
(* deadline only allows the sweeper to act, any moment may be past it.     *)
(* Tic-tac-toe, which shares the sessions, is absent, and so are the       *)
(* routes of the sessions, written after each commit.                      *)
(***************************************************************************)
EXTENDS Integers, FiniteSets

CONSTANTS
    Users, Rooms,
    Modes,           \* seats of the modes in use, a subset of 2..4
    StrikeLimit,     \* inactiveForfeitTurns
    NoRoom, Nobody,
    MayConnect,      \* bound: sockets a user opens
    MaxCrashes,      \* bound: restarts of the process
    MaxVersion       \* bound: moves are made below this version of a room

ASSUME ConstantsAssumption ==
    /\ IsFiniteSet(Users)
    /\ Modes \subseteq 2..4
    /\ NoRoom \notin Rooms
    /\ Nobody \notin Users
    /\ StrikeLimit \in Nat \ {0}
    /\ MayConnect \in [Users -> Nat]
    /\ {MaxCrashes, MaxVersion} \subseteq Nat

VARIABLES
    \* the database
    entry,           \* ludo_queue_entries, per user
    room,            \* ludo_rooms; late, turnLate: its deadlines have passed
    row,             \* ludo_players, per room and user, with the engine's status
    settled,         \* ludo_statistics.totalMatches, per user
    \* the session table of the process
    session,         \* the socket of u is none, resuming or open
    \* operations under way
    picked,          \* the candidates tryCreateMatch has read, per mode
    accepting,       \* the user whose acceptMatch holds the room
    resuming,        \* progress of resumeActive(u)
    leaving,         \* a markDisconnected(u) waits for the locks
    marking,         \* the room in which markDisconnected(u) is about to mark u
    sweeping,        \* the item the sweeper works on
    \* bookkeeping
    connects, crashes

dbVars == <<entry, room, row, settled>>
hubVars == <<session, connects>>
presenceVars == <<resuming, leaving, marking>>
opVars == <<picked, accepting, sweeping>>
vars == <<dbVars, hubVars, presenceVars, opVars, crashes>>

\* CLOSED: no entry, or one that is CANCELLED or TIMED_OUT, which joining replaces.
EntryStatuses == {"CLOSED", "QUEUED", "MATCHED"}
RoomStatuses == {"NONE", "MATCHED", "WAITING_READY", "ACTIVE", "COMPLETED", "CANCELLED"}
RowStatuses == {"NONE", "MATCHED", "ACCEPTED", "READY", "ACTIVE", "DISCONNECTED",
                "FORFEITED", "FINISHED"}
EngineStatuses == {"ACTIVE", "FINISHED", "FORFEITED"}
NoMode == 0
PreGame == {"MATCHED", "WAITING_READY"}
Live == PreGame \cup {"ACTIVE"}

Closed == [status |-> "CLOSED", mode |-> NoMode, room |-> NoRoom]
NoneYet == [status |-> "NONE", turn |-> Nobody, version |-> 0, late |-> FALSE, turnLate |-> FALSE]
Unseated == [status |-> "NONE", key |-> FALSE, engine |-> "ACTIVE", strikes |-> 0]
\* What is left of a room that is over and of its players: nothing reads the rest.
Over(status) == [NoneYet EXCEPT !.status = status]
Past(status) == [Unseated EXCEPT !.status = status]
Resting == [step |-> "idle", room |-> NoRoom]
Waiting == [kind |-> "idle", room |-> NoRoom, user |-> Nobody, version |-> 0, users |-> {}]

Init ==
    /\ entry = [u \in Users |-> Closed]
    /\ room = [r \in Rooms |-> NoneYet]
    /\ row = [r \in Rooms |-> [u \in Users |-> Unseated]]
    /\ settled = [u \in Users |-> 0]
    /\ session = [u \in Users |-> "none"]
    /\ picked = [m \in Modes |-> {}]
    /\ accepting = [r \in Rooms |-> Nobody]
    /\ resuming = [u \in Users |-> Resting]
    /\ leaving = [u \in Users |-> FALSE]
    /\ marking = [u \in Users |-> NoRoom]
    /\ sweeping = Waiting
    /\ connects = [u \in Users |-> 0]
    /\ crashes = 0

Seated(r) == {u \in Users : row[r][u].status # "NONE"}
HoldsSeat(u, r) == row[r][u].key                        \* activeKey = userId
ActiveSeat(u) == \E r \in Rooms : HoldsSeat(u, r)

\* lock(ludo:user:u), lock(ludo:room:r); the presence lock of u is free when
\* nobody marks u and no resumeActive(u) is between its read and its write.
UserFree(u) == marking[u] = NoRoom
PresenceFree(u) == marking[u] = NoRoom /\ resuming[u].step # "read"
RoomFree(r) == accepting[r] = Nobody /\ ~(sweeping.kind = "cancel" /\ sweeping.room = r)

----------------------------------------------------------------------------
(* Sockets: the gateway registers a session, resumes the active game, and  *)
(* cleans up behind a socket that closes or fails to authenticate.         *)

\* The socket of u authenticates; an older one is replaced without cleaning up.
\* Bound: one authentication of u at a time.
Connect(u) ==
    /\ connects[u] < MayConnect[u]
    /\ resuming[u].step = "idle"
    /\ session' = [session EXCEPT ![u] = "resuming"]
    /\ connects' = [connects EXCEPT ![u] = @ + 1]
    /\ resuming' = [resuming EXCEPT ![u].step = "called"]
    /\ UNCHANGED <<dbVars, opVars, leaving, marking, crashes>>

\* resumeActive finds the active seat of u under the presence lock.
ResumeRead(u, r) ==
    /\ resuming[u].step = "called"
    /\ PresenceFree(u)
    /\ HoldsSeat(u, r)
    /\ resuming' = [resuming EXCEPT ![u] =
           [step |-> IF row[r][u].status = "DISCONNECTED" THEN "read" ELSE "written", room |-> r]]
    /\ UNCHANGED <<dbVars, hubVars, opVars, leaving, marking, crashes>>

\* The update of a DISCONNECTED row asks for the resume token only.  Only rows of a
\* running game are ever DISCONNECTED, so ACTIVE is what it restores.
ResumeWrite(u) ==
    /\ resuming[u].step = "read"
    /\ row' = [row EXCEPT ![resuming[u].room][u].status = "ACTIVE"]
    /\ resuming' = [resuming EXCEPT ![u].step = "written"]
    /\ UNCHANGED <<entry, room, settled, hubVars, opVars, leaving, marking, crashes>>

\* The gateway takes the answer: a socket that has closed meanwhile is an error,
\* and cleaned up behind again.
Authenticate(u) ==
    /\ IF session[u] = "none"
       THEN leaving' = [leaving EXCEPT ![u] = TRUE] /\ UNCHANGED session
       ELSE session' = [session EXCEPT ![u] = "open"] /\ UNCHANGED leaving
    /\ resuming' = [resuming EXCEPT ![u] = Resting]
    /\ UNCHANGED <<dbVars, opVars, marking, connects, crashes>>

ResumeDone(u) ==
    /\ resuming[u].step = "written"
    /\ Authenticate(u)

ResumeNothing(u) ==
    /\ resuming[u].step = "called"
    /\ PresenceFree(u)
    /\ ~ActiveSeat(u)
    /\ Authenticate(u)

\* A stale resume token, or a failed statement: the session is removed.
ResumeFails(u) ==
    /\ resuming[u].step # "idle"
    /\ resuming[u].step = "called" => PresenceFree(u)
    /\ session' = [session EXCEPT ![u] = "none"]
    /\ resuming' = [resuming EXCEPT ![u] = Resting]
    /\ leaving' = [leaving EXCEPT ![u] = TRUE]
    /\ UNCHANGED <<dbVars, opVars, marking, connects, crashes>>

\* The socket of the session closes; markDisconnected is called.
Close(u) ==
    /\ session[u] # "none"
    /\ session' = [session EXCEPT ![u] = "none"]
    /\ leaving' = [leaving EXCEPT ![u] = TRUE]
    /\ UNCHANGED <<dbVars, opVars, resuming, marking, connects, crashes>>

\* A mutant of CleanUp: the session is not looked up again under the locks.
CleanUpAnyway(u) ==
    /\ leaving[u]
    /\ UserFree(u) /\ PresenceFree(u)
    /\ leaving' = [leaving EXCEPT ![u] = FALSE]
    /\ entry' = IF entry[u].status = "QUEUED" THEN [entry EXCEPT ![u] = Closed] ELSE entry
    /\ marking' = [marking EXCEPT ![u] =
           IF \E r \in Rooms : HoldsSeat(u, r) /\ room[r].status = "ACTIVE"
           THEN CHOOSE r \in Rooms : HoldsSeat(u, r) /\ room[r].status = "ACTIVE"
           ELSE NoRoom]
    /\ UNCHANGED <<room, row, settled, hubVars, opVars, resuming, crashes>>

\* markDisconnected, with both locks of u: nothing if a session is there again,
\* otherwise the queue entry is cancelled and the active seat looked up.
CleanUp(u) ==
    /\ leaving[u]
    /\ UserFree(u) /\ PresenceFree(u)
    /\ leaving' = [leaving EXCEPT ![u] = FALSE]
    /\ IF session[u] # "none"
       THEN UNCHANGED <<entry, marking>>
       ELSE /\ entry' = IF entry[u].status = "QUEUED"
                        THEN [entry EXCEPT ![u] = Closed] ELSE entry
            /\ marking' = [marking EXCEPT ![u] =
                   IF \E r \in Rooms : HoldsSeat(u, r) /\ room[r].status = "ACTIVE"
                   THEN CHOOSE r \in Rooms : HoldsSeat(u, r) /\ room[r].status = "ACTIVE"
                   ELSE NoRoom]
    /\ UNCHANGED <<room, row, settled, hubVars, opVars, resuming, crashes>>

\* Its last statement, conditional on the status of the row.
MarkDisconnected(u) ==
    /\ marking[u] # NoRoom
    /\ row' = IF row[marking[u]][u].status = "ACTIVE"
              THEN [row EXCEPT ![marking[u]][u].status = "DISCONNECTED"]
              ELSE row
    /\ marking' = [marking EXCEPT ![u] = NoRoom]
    /\ UNCHANGED <<entry, room, settled, hubVars, opVars, resuming, leaving, crashes>>

----------------------------------------------------------------------------
(* Matchmaking                                                             *)

\* A mutant of Join: a user with an active seat is not refused.
JoinWhileSeated(u, m) ==
    /\ session[u] = "open"
    /\ UserFree(u)
    /\ entry' = [entry EXCEPT ![u] = [status |-> "QUEUED", mode |-> m, room |-> NoRoom]]
    /\ UNCHANGED <<room, row, settled, hubVars, presenceVars, opVars, crashes>>

\* joinMatchmaking: refused with an active seat, and a repeated call at most renews the entry.
\* A socket that closes before the commit is cleaned up behind after it.
Join(u, m) ==
    /\ session[u] = "open"
    /\ UserFree(u)
    /\ ~ActiveSeat(u)
    /\ entry' = [entry EXCEPT ![u] = [status |-> "QUEUED", mode |-> m, room |-> NoRoom]]
    /\ UNCHANGED <<room, row, settled, hubVars, presenceVars, opVars, crashes>>

\* leaveMatchmaking
LeaveQueue(u) ==
    /\ session[u] = "open"
    /\ UserFree(u)
    /\ entry[u].status = "QUEUED"
    /\ entry' = [entry EXCEPT ![u] = Closed]
    /\ UNCHANGED <<room, row, settled, hubVars, presenceVars, opVars, crashes>>

\* tryCreateMatch with the lock of the queue of m: the users who are online and
\* wait for m.  The code takes those who joined first; here any may be taken.
PickCandidates(m, us) ==
    /\ picked[m] = {}
    /\ Cardinality(us) = m
    /\ \A u \in us : /\ session[u] # "none"
                     /\ entry[u].status = "QUEUED" /\ entry[u].mode = m
    /\ picked' = [picked EXCEPT ![m] = us]
    /\ UNCHANGED <<dbVars, hubVars, presenceVars, accepting,
                   sweeping, crashes>>

\* What it checks again once it holds the locks of all candidates.
StillWaiting(u, m) ==
    /\ entry[u].status = "QUEUED" /\ entry[u].mode = m
    /\ session[u] # "none"
    /\ ~ActiveSeat(u)

\* A new room, any of which will do.
Unused == {r \in Rooms : room[r].status = "NONE"}
NewRoom == CHOOSE r \in Unused : TRUE

CreateMatchIn(m, r) ==
    /\ picked[m] # {}
    /\ \A u \in picked[m] : UserFree(u) /\ StillWaiting(u, m)
    /\ \E first \in picked[m] :
           room' = [room EXCEPT ![r] = [NoneYet EXCEPT !.status = "MATCHED", !.turn = first]]
    /\ row' = [row EXCEPT ![r] = [u \in Users |->
           IF u \in picked[m] THEN [Unseated EXCEPT !.status = "MATCHED", !.key = TRUE]
           ELSE Unseated]]
    /\ entry' = [u \in Users |-> IF u \in picked[m]
                                 THEN [entry[u] EXCEPT !.status = "MATCHED", !.room = r]
                                 ELSE entry[u]]
    /\ picked' = [picked EXCEPT ![m] = {}]
    /\ UNCHANGED <<settled, hubVars, presenceVars, accepting, sweeping, crashes>>

CreateMatch(m) == Unused # {} /\ CreateMatchIn(m, NewRoom)

\* One of them has gone, left the queue or sat down, plays Tic-tac-toe or is
\* blocked, or the transaction fails.
NoMatch(m) ==
    /\ picked[m] # {}
    /\ \A u \in picked[m] : UserFree(u)
    /\ picked' = [picked EXCEPT ![m] = {}]
    /\ UNCHANGED <<dbVars, hubVars, presenceVars, accepting, sweeping, crashes>>

----------------------------------------------------------------------------
(* The handshake                                                           *)

\* acceptMatch under the lock of the room: the deadline is read here.
AcceptBegin(u, r) ==
    /\ session[u] = "open"
    /\ RoomFree(r)
    /\ room[r].status \in PreGame /\ ~room[r].late
    /\ row[r][u].status = "MATCHED"
    /\ accepting' = [accepting EXCEPT ![r] = u]
    /\ UNCHANGED <<dbVars, hubVars, presenceVars, picked, sweeping, crashes>>

AcceptCommit(r) ==
    /\ accepting[r] # Nobody
    /\ row' = [row EXCEPT ![r][accepting[r]].status = "ACCEPTED"]
    /\ IF \A u \in Seated(r) \ {accepting[r]} : row[r][u].status # "MATCHED"
       THEN room' = [room EXCEPT ![r].version = @ + 1, ![r].status = "WAITING_READY",
                                 ![r].late = FALSE]
       ELSE room' = [room EXCEPT ![r].version = @ + 1]
    /\ accepting' = [accepting EXCEPT ![r] = Nobody]
    /\ UNCHANGED <<entry, settled, hubVars, presenceVars, picked, sweeping, crashes>>

\* readyRoom; the last one starts the game.
Ready(u, r) ==
    /\ session[u] = "open"
    /\ RoomFree(r)
    /\ room[r].status = "WAITING_READY" /\ ~room[r].late
    /\ row[r][u].status = "ACCEPTED"
    /\ IF \A v \in Seated(r) \ {u} : row[r][v].status = "READY"
       THEN /\ row' = [row EXCEPT ![r] = [v \in Users |->
                   IF v \in Seated(r) THEN [row[r][v] EXCEPT !.status = "ACTIVE"] ELSE row[r][v]]]
            /\ room' = [room EXCEPT ![r].version = @ + 1, ![r].status = "ACTIVE", ![r].late = FALSE]
       ELSE /\ row' = [row EXCEPT ![r][u].status = "READY"]
            /\ room' = [room EXCEPT ![r].version = @ + 1]
    /\ UNCHANGED <<entry, settled, hubVars, presenceVars, opVars, crashes>>

----------------------------------------------------------------------------
(* The game: every operation on a running room is one mutateActiveRoom.    *)

CanAct(u, r) ==
    /\ RoomFree(r)
    /\ room[r].status = "ACTIVE"
    /\ row[r][u].status \in {"ACTIVE", "DISCONNECTED"}

StillPlaying(rows) == {u \in Users : rows[u].status # "NONE" /\ rows[u].engine = "ACTIVE"}
Decided(rows) == Cardinality(StillPlaying(rows)) <= 1

\* settleCompletedRoom on the rows of a room.
SettledRows(rows) ==
    [u \in Users |-> IF rows[u].status = "NONE" THEN Unseated
        ELSE Past(IF rows[u].engine = "FORFEITED" THEN "FORFEITED" ELSE "FINISHED")]

\* A mutant of Mutate: the statistics are written after every step, not the last.
MutateSettling(r, rows, turns) ==
    /\ row' = [row EXCEPT ![r] = IF Decided(rows) THEN SettledRows(rows) ELSE rows]
    /\ IF Decided(rows)
       THEN room' = [room EXCEPT ![r] = Over("COMPLETED")]
       ELSE \E next \in turns :
               room' = [room EXCEPT ![r].version = @ + 1, ![r].turn = next,
                                    ![r].turnLate = FALSE]
    /\ settled' = [u \in Users |-> IF u \in Seated(r) THEN settled[u] + 1 ELSE settled[u]]
    /\ UNCHANGED entry

\* The rows after the engine's step, and whose turn it may be unless the game is over.
Mutate(r, rows, turns) ==
    /\ row' = [row EXCEPT ![r] = IF Decided(rows) THEN SettledRows(rows) ELSE rows]
    /\ IF Decided(rows)
       THEN room' = [room EXCEPT ![r] = Over("COMPLETED")]
       ELSE \E next \in turns :
               room' = [room EXCEPT ![r].version = @ + 1, ![r].turn = next,
                                    ![r].turnLate = FALSE]
    /\ settled' = [u \in Users |->
           IF Decided(rows) /\ u \in Seated(r) THEN settled[u] + 1 ELSE settled[u]]
    /\ UNCHANGED entry

\* A roll or a move of the user whose turn it is: the turn stays or passes, and a
\* move may bring the last pawn home.  Bound: MaxVersion.
Play(u, r) ==
    /\ session[u] = "open"
    /\ CanAct(u, r)
    /\ room[r].version < MaxVersion
    /\ ~room[r].turnLate
    /\ room[r].turn = u /\ row[r][u].engine = "ACTIVE"
    /\ \E outcome \in {"ACTIVE", "FINISHED"} :
           LET rows == [row[r] EXCEPT ![u].strikes = 0, ![u].engine = outcome]
           IN Mutate(r, rows, StillPlaying(rows))
    /\ UNCHANGED <<hubVars, presenceVars, opVars, crashes>>

ForfeitedRows(u, r) ==
    [row[r] EXCEPT ![u] = [@ EXCEPT !.engine = "FORFEITED", !.status = "FORFEITED",
                                    !.key = FALSE]]

\* Whose turn it may be when u is out or its time is up: the turn passes to
\* another player still in the game.
TurnsAfter(u, r, rows) ==
    IF room[r].turn = u THEN StillPlaying(rows) \ {u} ELSE {room[r].turn}

\* forfeit(): the player is still in the game.
ForfeitStep(u, r) ==
    /\ row[r][u].engine = "ACTIVE"
    /\ Mutate(r, ForfeitedRows(u, r), TurnsAfter(u, r, ForfeitedRows(u, r)))

Forfeit(u, r) ==
    /\ session[u] = "open"
    /\ CanAct(u, r)
    /\ ForfeitStep(u, r)
    /\ UNCHANGED <<hubVars, presenceVars, opVars, crashes>>

----------------------------------------------------------------------------
(* The sweeper looks for work, then does it on what it has read.  The items *)
(* of a sweep are independent of each other, so it carries one at a time.   *)

SweepFinds(item) ==
    /\ sweeping.kind = "idle"
    /\ sweeping' = item
    /\ UNCHANGED <<dbVars, hubVars, presenceVars, picked, accepting, crashes>>

FindPreGame(r) ==
    /\ room[r].status \in PreGame /\ room[r].late
    /\ SweepFinds([Waiting EXCEPT !.kind = "pregame", !.room = r])

\* A disconnected player, its reconnectDeadline passed, in a room of this version.
FindDisconnected(u, r) ==
    /\ room[r].status = "ACTIVE"
    /\ HoldsSeat(u, r) /\ row[r][u].status = "DISCONNECTED"
    /\ SweepFinds([Waiting EXCEPT !.kind = "absent", !.room = r, !.user = u,
                                  !.version = room[r].version])

\* A queue entry expires.  The update asks for the status again and not for the
\* time, so that an entry renewed meanwhile is closed as well.
SweepEntry(u) ==
    /\ entry[u].status = "QUEUED"
    /\ entry' = [entry EXCEPT ![u] = Closed]
    /\ UNCHANGED <<room, row, settled, hubVars, presenceVars, opVars, crashes>>

\* A mutant of CancelBegin: a room in which all have accepted is passed over.
CancelBeginMatched ==
    LET r == sweeping.room
    IN /\ sweeping.kind = "pregame"
       /\ RoomFree(r)
       /\ sweeping' = IF room[r].status = "MATCHED"
                      THEN [sweeping EXCEPT !.kind = "cancel",
                               !.users = {u \in Seated(r) : session[u] # "none"}]
                      ELSE Waiting
       /\ UNCHANGED <<dbVars, hubVars, presenceVars, picked, accepting, crashes>>

\* cancelPreGameRoom under the lock of the room: the status is asked for again,
\* and who is connected decides who goes back to the queue.
CancelBegin ==
    LET r == sweeping.room
    IN /\ sweeping.kind = "pregame"
       /\ RoomFree(r)
       /\ sweeping' = IF room[r].status \in PreGame
                      THEN [sweeping EXCEPT !.kind = "cancel",
                               !.users = {u \in Seated(r) : session[u] # "none"}]
                      ELSE Waiting
       /\ UNCHANGED <<dbVars, hubVars, presenceVars, picked, accepting, crashes>>

CancelCommit ==
    LET r == sweeping.room
    IN /\ sweeping.kind = "cancel"
       /\ room' = [room EXCEPT ![r] = Over("CANCELLED")]
       /\ row' = [row EXCEPT ![r] = [u \in Users |->
              IF u \in Seated(r) THEN Past("FORFEITED") ELSE Unseated]]
       /\ entry' = [u \in Users |->
              IF u \in Seated(r) /\ entry[u].room = r
              THEN IF u \in sweeping.users
                   THEN [entry[u] EXCEPT !.status = "QUEUED", !.room = NoRoom]
                   ELSE Closed
              ELSE entry[u]]
       /\ sweeping' = Waiting
       /\ UNCHANGED <<settled, hubVars, presenceVars, picked, accepting, crashes>>

\* An absent player is forfeited if nothing was played since (stateVersion); an
\* error, such as for a player who has finished, is dropped.
SweepAbsent ==
    LET u == sweeping.user
        r == sweeping.room
    IN /\ sweeping.kind = "absent"
       /\ RoomFree(r)
       /\ IF /\ CanAct(u, r)
             /\ room[r].version = sweeping.version
             /\ row[r][u].engine = "ACTIVE"
          THEN ForfeitStep(u, r)
          ELSE UNCHANGED dbVars
       /\ sweeping' = Waiting
       /\ UNCHANGED <<hubVars, presenceVars, picked, accepting, crashes>>

\* A turn ran out: the player gets a strike, and with StrikeLimit of them is out.
\* Version and deadline are asked for again under the lock, so that nothing done
\* since the sweeper read the room can matter.
SweepTurn(r) ==
    LET u == room[r].turn
        struck == [row[r] EXCEPT ![u].strikes = @ + 1]
    IN /\ room[r].turnLate
       /\ CanAct(u, r) /\ row[r][u].engine = "ACTIVE"
       /\ IF struck[u].strikes >= StrikeLimit
          THEN Mutate(r, [ForfeitedRows(u, r) EXCEPT ![u].strikes = @ + 1],
                      StillPlaying(struck) \ {u})
          ELSE Mutate(r, struck, StillPlaying(struck) \ {u})
       /\ UNCHANGED <<hubVars, presenceVars, opVars, crashes>>

----------------------------------------------------------------------------
(* Time passes, and the process may restart.                               *)

AcceptanceExpires(r) ==
    /\ room[r].status \in PreGame /\ ~room[r].late
    /\ room' = [room EXCEPT ![r].late = TRUE]
    /\ UNCHANGED <<entry, row, settled, hubVars, presenceVars, opVars, crashes>>

TurnExpires(r) ==
    /\ room[r].status = "ACTIVE" /\ ~room[r].turnLate
    /\ room' = [room EXCEPT ![r].turnLate = TRUE]
    /\ UNCHANGED <<entry, row, settled, hubVars, presenceVars, opVars, crashes>>

Crash ==
    /\ crashes < MaxCrashes
    /\ crashes' = crashes + 1
    /\ session' = [u \in Users |-> "none"]
    /\ picked' = [m \in Modes |-> {}]
    /\ accepting' = [r \in Rooms |-> Nobody]
    /\ resuming' = [u \in Users |-> Resting]
    /\ leaving' = [u \in Users |-> FALSE]
    /\ marking' = [u \in Users |-> NoRoom]
    /\ sweeping' = Waiting
    /\ UNCHANGED <<dbVars, connects>>

Next ==
    \/ \E u \in Users :
          \/ Connect(u) \/ ResumeWrite(u) \/ ResumeDone(u) \/ ResumeNothing(u) \/ ResumeFails(u)
          \/ Close(u) \/ CleanUp(u) \/ MarkDisconnected(u)
          \/ LeaveQueue(u) \/ SweepEntry(u)
          \/ \E m \in Modes : Join(u, m)
          \/ \E r \in Rooms : \/ ResumeRead(u, r) \/ AcceptBegin(u, r) \/ Ready(u, r)
                              \/ Play(u, r) \/ Forfeit(u, r)
                              \/ FindDisconnected(u, r)
    \/ \E m \in Modes : \/ \E us \in SUBSET Users : PickCandidates(m, us)
                        \/ CreateMatch(m) \/ NoMatch(m)
    \/ \E r \in Rooms : \/ AcceptCommit(r) \/ FindPreGame(r) \/ SweepTurn(r)
                        \/ AcceptanceExpires(r) \/ TurnExpires(r)
    \/ CancelBegin \/ CancelCommit \/ SweepAbsent
    \/ Crash

\* Deadlines pass, an operation under way ends, and every sweep (each 3 s) comes to
\* every room whose handshake has run out.
Fairness ==
    /\ \A r \in Rooms : /\ WF_vars(AcceptanceExpires(r)) /\ SF_vars(FindPreGame(r))
    /\ WF_vars(\E r \in Rooms : AcceptCommit(r))
    /\ WF_vars(CancelBegin \/ CancelCommit \/ SweepAbsent)

Spec == Init /\ [][Next]_vars /\ Fairness

----------------------------------------------------------------------------
TypeOK ==
    /\ entry \in [Users -> [status : EntryStatuses, mode : Modes \cup {NoMode},
                            room : Rooms \cup {NoRoom}]]
    /\ room \in [Rooms -> [status : RoomStatuses, turn : Users \cup {Nobody}, version : Nat,
                           late : BOOLEAN, turnLate : BOOLEAN]]
    /\ row \in [Rooms -> [Users -> [status : RowStatuses, key : BOOLEAN, engine : EngineStatuses,
                                    strikes : Nat]]]
    /\ settled \in [Users -> Nat]
    /\ session \in [Users -> {"none", "resuming", "open"}]
    /\ picked \in [Modes -> SUBSET Users]
    /\ accepting \in [Rooms -> Users \cup {Nobody}]
    /\ resuming \in [Users -> [step : {"idle", "called", "read", "written"},
                               room : Rooms \cup {NoRoom}]]
    /\ leaving \in [Users -> BOOLEAN]
    /\ marking \in [Users -> Rooms \cup {NoRoom}]
    /\ sweeping \in [kind : {"idle", "pregame", "cancel", "absent"},
                     room : Rooms \cup {NoRoom}, user : Users \cup {Nobody},
                     version : Nat, users : SUBSET Users]
    /\ connects \in [Users -> Nat]
    /\ crashes \in Nat

\* A user sits in one room at most, holds its seat as long as the room is live and
\* the engine has not written it off, and does not wait in a queue meanwhile.
OneSeat ==
    \A u \in Users : /\ \A r, s \in Rooms : HoldsSeat(u, r) /\ HoldsSeat(u, s) => r = s
                     /\ ActiveSeat(u) => entry[u].status # "QUEUED"
SeatsFollowRooms ==
    \A r \in Rooms, u \in Users :
        HoldsSeat(u, r) <=> /\ u \in Seated(r)
                            /\ room[r].status \in Live
                            /\ row[r][u].engine # "FORFEITED"
SeatedOnce == OneSeat /\ SeatsFollowRooms

\* The statistics of a player count each completed game exactly once.
SettledOnce ==
    \A u \in Users :
        settled[u] = Cardinality({r \in Rooms : room[r].status = "COMPLETED" /\ u \in Seated(r)})

\* A late clean-up never writes a successfully resumed player back offline.
ResumedStaysOnline ==
    \A u \in Users, r \in Rooms :
        session[u] = "open" /\ room[r].status = "ACTIVE" => row[r][u].status # "DISCONNECTED"

\* Two players never wait for a third for ever: a handshake ends in a game or in a
\* cancelled room.
HandshakeEnds ==
    \A r \in Rooms : room[r].status \in PreGame ~> room[r].status \notin PreGame
=============================================================================
