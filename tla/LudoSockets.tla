------------------------------ MODULE LudoSockets ------------------------------
(***************************************************************************)
(* Sockets and sessions of the realtime gateway (ludo-gateway.ts,            *)
(* ludo-hub.ts): how a socket authenticates while its timer runs, replaces    *)
(* another one of its user and is cleaned up behind, with the queue of Ludo   *)
(* (ludo.service.ts) for what a session is good for.                         *)
(*                                                                         *)
(* LudoRooms has one socket of a user at a time and all that a clean-up does   *)
(* to a seat; here any number of sockets of a user open, fail and close in     *)
(* any order.  Closing a socket and its close event are two steps: between    *)
(* them, and after, its messages go on being worked off.  What disconnecting   *)
(* does to a search for a tic-tac-toe match is in TicTacToeOnline.            *)
(***************************************************************************)
CONSTANTS
    Sockets, Players,
    TokenOf,       \* the user of the access token a socket presents, in [Sockets -> Players]
    NoSocket

VARIABLES
    readyState,    \* of each socket; CLOSED once its close handler has run
    stage,         \* of its authentication; userId is set while RESUMING and AUTHENTICATED
    sessions,      \* the hub's map: the socket of a user's session
    cleaning,      \* calls of markDisconnected under way: the socket, and what they follow
    locked,        \* the transaction that holds ludo:user:u
    queueEntry,         \* ludo_queue_entries, per user; RETURNING while cancelPreGameRoom has seen a session
    forgotten      \* ghost: users whose clean-up failed, or was over before they were put back

vars == <<readyState, stage, sessions, cleaning, locked, queueEntry, forgotten>>

CleanUps == Sockets \X {"close", "failure"}
Unlocked == <<NoSocket, "free">>
Joining == <<NoSocket, "join">>
ReadyStates == {"CONNECTING", "OPEN", "CLOSING", "CLOSED"}
Stages == {"UNKNOWN", "CHECKING", "RESUMING", "AUTHENTICATED", "FAILED"}
Entries == {"CLOSED", "QUEUED", "MATCHED", "RETURNING"}

Init ==
    /\ readyState = [s \in Sockets |-> "CONNECTING"]
    /\ stage = [s \in Sockets |-> "UNKNOWN"]
    /\ sessions = [u \in Players |-> NoSocket]
    /\ cleaning = {} /\ forgotten = {}
    /\ queueEntry = [u \in Players |-> "CLOSED"]
    /\ locked = [u \in Players |-> Unlocked]

hubVars == <<readyState, stage, sessions>>
queueVars == <<locked, queueEntry, forgotten>>

\* socket.close: nothing, unless the socket is open.
Closing(s) == IF readyState[s] = "OPEN" THEN [readyState EXCEPT ![s] = "CLOSING"] ELSE readyState
Identified(s) == stage[s] \in {"RESUMING", "AUTHENTICATED"}
Stays(s, next) == stage' = [stage EXCEPT ![s] = next]

Open(s) ==
    /\ readyState[s] = "CONNECTING"
    /\ readyState' = [readyState EXCEPT ![s] = "OPEN"]
    /\ UNCHANGED <<stage, sessions, cleaning, queueVars>>

-------------------------------------------------------------------------------
\* Sockets that are closed

Hangs(s) == readyState' = Closing(s) /\ UNCHANGED <<stage, sessions, cleaning, queueVars>>

\* The client goes, or sends what is too large.
HangUp(s) == readyState[s] = "OPEN" /\ Hangs(s)

\* Eight seconds are over, or the message was no authentication.
Reject(s) == stage[s] # "AUTHENTICATED" /\ readyState[s] = "OPEN" /\ Hangs(s)

\* closeStale, or a write to a client that is too slow: the session stays until the close event.
CloseStale(u) == sessions[u] # NoSocket /\ readyState[sessions[u]] = "OPEN" /\ Hangs(sessions[u])

\* A mutant of Without: whichever session the user has is removed.
WithoutAny(u, s) == [sessions EXCEPT ![u] = NoSocket]
\* unregister: only the session of this socket is removed.
Without(u, s) == IF sessions[u] = s THEN [sessions EXCEPT ![u] = NoSocket] ELSE sessions

\* The close handler: the owner of the session calls markDisconnected.
Close(s) ==
    LET u == TokenOf[s]
    IN  /\ readyState[s] = "CLOSING"
        /\ readyState' = [readyState EXCEPT ![s] = "CLOSED"]
        /\ sessions' = IF Identified(s) THEN Without(u, s) ELSE sessions
        /\ cleaning' = IF Identified(s) /\ sessions[u] = s
                       THEN cleaning \cup {<<s, "close">>} ELSE cleaning
        /\ UNCHANGED <<stage, queueVars>>

-------------------------------------------------------------------------------
\* socket.authenticate, once per socket

Authenticate(s) ==
    /\ stage[s] = "UNKNOWN" /\ readyState[s] # "CONNECTING"
    /\ Stays(s, "CHECKING")
    /\ UNCHANGED <<readyState, sessions, cleaning, queueVars>>

\* The token is no good, the account may not play, or the socket is no longer open.
CheckFails(s) ==
    /\ stage[s] = "CHECKING"
    /\ Stays(s, "FAILED")
    /\ readyState' = Closing(s)
    /\ UNCHANGED <<sessions, cleaning, queueVars>>

\* register: the socket of the session before is told and closed.
Register(s) ==
    LET u == TokenOf[s]
    IN  /\ stage[s] = "CHECKING" /\ readyState[s] = "OPEN"
        /\ Stays(s, "RESUMING")
        /\ readyState' = IF sessions[u] = NoSocket THEN readyState ELSE Closing(sessions[u])
        /\ sessions' = [sessions EXCEPT ![u] = s]
        /\ forgotten' = forgotten \ {u}
        /\ UNCHANGED <<cleaning, locked, queueEntry>>

Resume(s) ==
    /\ stage[s] = "RESUMING" /\ readyState[s] = "OPEN"
    /\ Stays(s, "AUTHENTICATED")
    /\ UNCHANGED <<readyState, sessions, cleaning, queueVars>>

\* resumeActive fails, or the socket was closed or replaced meanwhile.  The clean-up returns at
\* once when there is a session.
ResumeFails(s) ==
    LET u == TokenOf[s]
    IN  /\ stage[s] = "RESUMING"
        /\ Stays(s, "FAILED")
        /\ readyState' = Closing(s)
        /\ sessions' = Without(u, s)
        /\ cleaning' = IF sessions'[u] = NoSocket THEN cleaning \cup {<<s, "failure">>} ELSE cleaning
        /\ UNCHANGED queueVars

-------------------------------------------------------------------------------
\* What a session is good for: the queue, under the lock of the user

Free(u) == locked[u] = Unlocked
Locks(u, t) == locked' = [locked EXCEPT ![u] = t]
Goes(u, from, to) == queueEntry[u] \in from /\ queueEntry' = [queueEntry EXCEPT ![u] = to]
Pending(u) == \E c \in cleaning : TokenOf[c[1]] = u

\* joinMatchmaking looks the session up by user: a message of a socket that has been replaced
\* finds the session of its successor.
BeginJoin(s) ==
    LET u == TokenOf[s]
    IN  /\ stage[s] = "AUTHENTICATED"
        /\ sessions[u] # NoSocket
        /\ Free(u) /\ Locks(u, Joining)
        /\ UNCHANGED <<hubVars, cleaning, queueEntry, forgotten>>

EndJoin(u) ==
    /\ locked[u] = Joining
    /\ Locks(u, Unlocked)
    /\ Goes(u, {"CLOSED", "QUEUED"}, "QUEUED") \/ UNCHANGED queueEntry   \* refused, for a seat perhaps
    /\ UNCHANGED <<hubVars, cleaning, forgotten>>

\* leaveMatchmaking, or a match, which wants a session.
Leave(u) ==
    /\ Free(u)
    /\ \/ Goes(u, {"QUEUED"}, "CLOSED")
       \/ sessions[u] # NoSocket /\ Goes(u, {"QUEUED"}, "MATCHED")
    /\ UNCHANGED <<hubVars, cleaning, locked, forgotten>>

\* The time in the queue, or a room, is over: neither takes the lock of the user.
Expire(u) ==
    /\ Goes(u, {"QUEUED", "MATCHED"}, "CLOSED")
    /\ UNCHANGED <<hubVars, cleaning, locked, forgotten>>

\* cancelPreGameRoom puts back who has a session, without that lock: the session may be gone
\* before it commits, and the clean-up over.
SeeConnected(u) ==
    /\ sessions[u] # NoSocket
    /\ Goes(u, {"MATCHED"}, "RETURNING")
    /\ UNCHANGED <<hubVars, cleaning, locked, forgotten>>

PutBack(u) ==
    /\ Goes(u, {"RETURNING"}, "QUEUED")
    /\ forgotten' = IF sessions[u] = NoSocket /\ ~Pending(u) THEN forgotten \cup {u} ELSE forgotten
    /\ UNCHANGED <<hubVars, cleaning, locked>>

\* markDisconnected, with the lock: nothing if there is a session again.
BeginCleanUp(c) ==
    LET u == TokenOf[c[1]]
    IN  /\ c \in cleaning /\ Free(u)
        /\ IF sessions[u] = NoSocket
           THEN Locks(u, c) /\ UNCHANGED cleaning
           ELSE cleaning' = cleaning \ {c} /\ UNCHANGED locked
        /\ UNCHANGED <<hubVars, queueEntry, forgotten>>

EndCleanUp(c) ==
    LET u == TokenOf[c[1]]
    IN  /\ c \in cleaning /\ locked[u] = c
        /\ Locks(u, Unlocked)
        /\ cleaning' = cleaning \ {c}
        /\ queueEntry' = IF queueEntry[u] = "QUEUED" THEN [queueEntry EXCEPT ![u] = "CLOSED"] ELSE queueEntry
        /\ UNCHANGED <<hubVars, forgotten>>

\* Its failure is logged, and nobody calls it again.
CleanUpFails(c) ==
    LET u == TokenOf[c[1]]
    IN  /\ c \in cleaning /\ (Free(u) \/ locked[u] = c)
        /\ Locks(u, Unlocked)
        /\ cleaning' = cleaning \ {c}
        /\ forgotten' = IF sessions[u] = NoSocket THEN forgotten \cup {u} ELSE forgotten
        /\ UNCHANGED <<hubVars, queueEntry>>

-------------------------------------------------------------------------------
Next ==
    \/ \E s \in Sockets : \/ Open(s) \/ HangUp(s) \/ Reject(s) \/ Close(s)
                          \/ Authenticate(s) \/ CheckFails(s) \/ Register(s) \/ Resume(s) \/ ResumeFails(s)
                          \/ BeginJoin(s)
    \/ \E u \in Players : \/ CloseStale(u) \/ EndJoin(u) \/ Leave(u) \/ Expire(u)
                          \/ SeeConnected(u) \/ PutBack(u)
    \/ \E c \in cleaning : BeginCleanUp(c) \/ EndCleanUp(c) \/ CleanUpFails(c)

Spec == Init /\ [][Next]_vars

\* The types of the variables.
TypeOK ==
    /\ readyState \in [Sockets -> ReadyStates]
    /\ stage \in [Sockets -> Stages]
    /\ sessions \in [Players -> Sockets \cup {NoSocket}]
    /\ cleaning \subseteq CleanUps
    /\ locked \in [Players -> {Unlocked, Joining} \cup CleanUps]
    /\ queueEntry \in [Players -> Entries] /\ forgotten \subseteq Players

\* A session is one of its user's sockets whose close handler is still to run (register,
\* unregister, the check for a socket that closed while it was authenticated).
SessionsAreAlive ==
    \A u \in Players : sessions[u] # NoSocket =>
        /\ TokenOf[sessions[u]] = u
        /\ Identified(sessions[u]) /\ readyState[sessions[u]] # "CLOSED"

\* Who was told to be authenticated, and whose socket is open, gets what is sent to the user:
\* no late clean-up of another socket takes the session away (unregister).
AuthenticatedIsReached ==
    \A s \in Sockets :
        stage[s] = "AUTHENTICATED" /\ readyState[s] = "OPEN" => sessions[TokenOf[s]] = s

\* Who is queued without a session will be taken from the queue (markDisconnected), unless the
\* clean-up after the last session failed, or was over when a cancelled handshake put them back.
QueuedIsCleanedUp ==
    \A u \in Players : queueEntry[u] = "QUEUED" => sessions[u] # NoSocket \/ u \in forgotten \/ Pending(u)

\* Sessions, sockets and clean-ups agree: the three above.
SessionsFollowSockets == SessionsAreAlive /\ AuthenticatedIsReached /\ QueuedIsCleanedUp
===============================================================================
