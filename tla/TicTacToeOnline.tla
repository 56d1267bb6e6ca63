---------------------------- MODULE TicTacToeOnline ----------------------------
(***************************************************************************)
(* Tic-tac-toe between two users (game.service.ts: joinOnlineMatchmaking,    *)
(* leaveOnlineMatchmaking, disconnectOnline, sendOnlineState, onlineMove,    *)
(* leaveOnlineMatch) over the sessions of ludo-hub.ts, beside the Ludo       *)
(* matchmaking, which gives the same users seats of its own.                 *)
(*                                                                         *)
(* Pairing runs one operation at a time (runOnlineMatchmakingExclusive) and  *)
(* awaits the database inside; moves of one match run one at a time.         *)
(* Sessions change between any two steps.  Boards are left out: a move goes  *)
(* on or ends the match.                                                     *)
(***************************************************************************)
EXTENDS Naturals, Sequences, SequencesExt, FiniteSets

CONSTANTS
    Users, Nobody,
    MaxMatches,     \* bound: matches made
    MaxOps,         \* bound: matchmaking operations waiting at a time
    MaxCalls,       \* bound: sockets opened and calls made by clients
    MaxFaults       \* bound: failed statements and restarts

\* Matches are numbered as they are made.
Numbers == 1..MaxMatches
NoMatch == 0

VARIABLES
    session,     \* hub.sessions: up, gameId and ludoGameId of each user
    queue,       \* onlineQueue
    ops,         \* onlineMatchmakingTail: operations in order, the first one runs
    at, look, cand,   \* how far it is, the match it has read, the candidate it holds
    match,       \* game_matches: players, turn, status
    closing,     \* matches ended by an operation that has still to clear the routes
    leaving,     \* calls of leaveOnlineMatch that wait for their match
    asking,      \* calls of sendOnlineState that have read the row
    searching,   \* users whose session was last told that the search is on
    ludoQueue, seat, unpublished,   \* Ludo: waiting, seated, seated and not yet routed
    calls, faults

sessionVars == <<session, searching>>
opVars == <<queue, ops, at, look, cand>>
matchVars == <<match, closing, leaving>>
ludoVars == <<ludoQueue, seat, unpublished>>
vars == <<sessionVars, opVars, matchVars, asking, ludoVars, calls, faults>>

Away == [up |-> FALSE, game |-> NoMatch, ludo |-> FALSE]
Opened == [up |-> TRUE, game |-> NoMatch, ludo |-> FALSE]
Phases == {"begin", "looked", "cand", "candLooked", "create", "publish"}
NotAsking == [match |-> NoMatch, live |-> FALSE]

Init ==
    /\ session = [u \in Users |-> Away]
    /\ searching = {}
    /\ calls = 0
    /\ queue = <<>> /\ ops = <<>>
    /\ at = "begin" /\ look = NoMatch /\ cand = Nobody
    /\ match = [m \in Numbers |-> [players |-> {}, turn |-> Nobody, status |-> "NONE"]]
    /\ closing = {} /\ leaving = {}
    /\ asking = [u \in Users |-> NotAsking]
    /\ ludoQueue = {} /\ seat = {} /\ unpublished = {}
    /\ faults = 0

Live(u) == {m \in Numbers : match[m].status = "IN_PROGRESS" /\ u \in match[m].players}

\* activeOnlineMatch: the newest.
ActiveOf(u) == IF Live(u) = {} THEN NoMatch ELSE CHOOSE m \in Live(u) : \A n \in Live(u) : n <= m

Without(q, u) == RemoveFirst(q, u)
\* A user who is told of a match or of the end of the search.
Told(u) == searching' = searching \ {u}

Idle(u) == session[u].up /\ session[u].game = NoMatch /\ ~session[u].ludo

\* setGame does nothing for a user without a session.
SetGame(users, m) ==
    session' = [u \in Users |-> IF u \in users /\ session[u].up
                                THEN [session[u] EXCEPT !.game = m] ELSE session[u]]

-------------------------------------------------------------------------------
\* Sessions

Call == calls < MaxCalls /\ calls' = calls + 1

\* register: a new socket, in the place of the old one if there is one.
Connect(u) ==
    /\ Call
    /\ session' = [session EXCEPT ![u] = Opened]
    /\ searching' = searching \ {u}
    /\ UNCHANGED <<opVars, matchVars, asking, ludoVars, faults>>

\* resumeActive finds the seat and sets the route to it.
ResumeLudo(u) ==
    /\ session[u].up /\ ~session[u].ludo /\ u \in seat
    /\ session' = [session EXCEPT ![u].ludo = TRUE]
    /\ searching' = searching \ {u}
    /\ UNCHANGED <<opVars, matchVars, asking, ludoVars, faults, calls>>

\* The close handler of the session's socket.
Close(u) ==
    /\ session[u].up
    /\ Len(ops) < MaxOps
    /\ session' = [session EXCEPT ![u] = Away]
    /\ searching' = searching \ {u}
    /\ ops' = Append(ops, [op |-> "drop", user |-> u])
    /\ UNCHANGED <<queue, at, look, cand, matchVars, asking, ludoVars, faults, calls>>

Request(u, op) ==
    /\ Call
    /\ session[u].up
    /\ Len(ops) < MaxOps
    /\ ops' = Append(ops, [op |-> op, user |-> u])
    /\ UNCHANGED <<sessionVars, queue, at, look, cand, matchVars, asking, ludoVars, faults>>

-------------------------------------------------------------------------------
\* Matchmaking.  Only the first operation runs.

Running(op) == ops # <<>> /\ Head(ops).op = op
Actor == Head(ops).user

EndOp ==
    /\ ops' = Tail(ops)
    /\ at' = "begin" /\ look' = NoMatch /\ cand' = Nobody

Goto(phase, m, c) == at' = phase /\ look' = m /\ cand' = c /\ UNCHANGED ops

\* sendExistingOnlineMatch: without a free session it throws.
CanSend(u, m) == session[u].up /\ ~session[u].ludo /\ session[u].game \in {NoMatch, m}
SendExisting(u, m) == IF CanSend(u, m) THEN SetGame({u}, m) ELSE UNCHANGED session

JoinLook ==
    /\ Running("join") /\ at = "begin"
    /\ Goto("looked", ActiveOf(Actor), Nobody)
    /\ UNCHANGED <<sessionVars, queue, matchVars, asking, ludoVars, faults, calls>>

\* The user is in a match already.
JoinFound ==
    /\ Running("join") /\ at = "looked" /\ look # NoMatch
    /\ queue' = Without(queue, Actor)
    /\ SendExisting(Actor, look)
    /\ Told(Actor)
    /\ EndOp
    /\ UNCHANGED <<matchVars, asking, ludoVars, faults, calls>>

\* assertCanStart throws, or the session is gone or in another game.  The entry of
\* an earlier call stays.
JoinRefused ==
    /\ Running("join") /\ at = "looked" /\ look = NoMatch
    /\ EndOp
    /\ UNCHANGED <<sessionVars, queue, matchVars, asking, ludoVars, faults, calls>>

Candidates(q) == {i \in DOMAIN q : q[i] # Actor /\ session[q[i]].up}

\* The next round of the loop over the queue q: the first connected candidate is
\* taken out, or the user joins the end.
Scan(q) ==
    IF Candidates(q) = {}
    THEN /\ queue' = Append(Without(q, Actor), Actor)
         /\ searching' = IF session[Actor].up THEN searching \cup {Actor} ELSE searching
         /\ EndOp
    ELSE LET i == CHOOSE i \in Candidates(q) : \A j \in Candidates(q) : i <= j
         IN  /\ queue' = RemoveAt(q, i)
             /\ Goto("cand", NoMatch, q[i])
             /\ UNCHANGED searching

JoinScan ==
    /\ Running("join") /\ at = "looked" /\ look = NoMatch
    /\ Idle(Actor)
    /\ Scan(Without(queue, Actor))
    /\ UNCHANGED <<session, matchVars, asking, ludoVars, faults, calls>>

CandLook ==
    /\ Running("join") /\ at = "cand"
    /\ Goto("candLooked", ActiveOf(cand), cand)
    /\ UNCHANGED <<sessionVars, queue, matchVars, asking, ludoVars, faults, calls>>

\* The candidate is in a match already, is not allowed to start, has left or is in
\* another game: it is told, and the loop goes on.
CandPassed ==
    /\ Running("join") /\ at = "candLooked"
    /\ \/ look # NoMatch /\ SendExisting(cand, look)
       \/ look = NoMatch /\ UNCHANGED session
    /\ IF Candidates(queue) = {}
       THEN /\ queue' = Append(Without(queue, Actor), Actor)
            /\ searching' = (searching \ {cand}) \cup (IF session[Actor].up THEN {Actor} ELSE {})
            /\ EndOp
       ELSE /\ LET i == CHOOSE i \in Candidates(queue) : \A j \in Candidates(queue) : i <= j
               IN  queue' = RemoveAt(queue, i) /\ Goto("cand", NoMatch, queue[i])
            /\ Told(cand)
    /\ UNCHANGED <<matchVars, asking, ludoVars, faults, calls>>

\* The candidate may be taken.
CandFree == look = NoMatch /\ Idle(cand)

\* It is; the session of the joining user is looked at again.
CandTaken ==
    /\ Running("join") /\ at = "candLooked"
    /\ CandFree
    /\ IF Idle(Actor)
       THEN Goto("create", NoMatch, cand) /\ UNCHANGED queue
       ELSE queue' = <<cand>> \o Without(queue, cand) /\ EndOp
    /\ UNCHANGED <<sessionVars, matchVars, asking, ludoVars, faults, calls>>

NewMatch == Cardinality({m \in Numbers : match[m].status # "NONE"}) + 1

Insert(first) ==
    /\ NewMatch \in Numbers
    /\ match' = [match EXCEPT ![NewMatch] =
                    [players |-> {Actor, cand}, turn |-> first, status |-> "IN_PROGRESS"]]

\* The row commits.
Create ==
    /\ Running("join") /\ at = "create"
    /\ \E first \in {Actor, cand} : Insert(first)
    /\ Goto("publish", NewMatch, cand)
    /\ UNCHANGED <<sessionVars, queue, closing, leaving, asking, ludoVars, faults, calls>>

\* A mutant of Requeued: the candidate is forgotten.
RequeuedJoiner(q) == IF Idle(Actor) THEN Append(Without(q, Actor), Actor) ELSE q

\* After a failed insert both go back into the queue, the candidate in front.
Requeued(q) ==
    LET front == IF Idle(cand) THEN <<cand>> \o Without(q, cand) ELSE q
    IN  IF Idle(Actor) THEN Append(Without(front, Actor), Actor) ELSE front

\* The insert fails, or commits and its answer is lost.
CreateFails ==
    /\ Running("join") /\ at = "create"
    /\ faults < MaxFaults /\ faults' = faults + 1
    /\ \/ UNCHANGED match
       \/ Insert(Actor)
    /\ queue' = Requeued(queue)
    /\ EndOp
    /\ UNCHANGED <<sessionVars, closing, leaving, asking, ludoVars, calls>>

Publish ==
    /\ Running("join") /\ at = "publish"
    /\ SetGame({Actor, cand}, look)
    /\ searching' = searching \ {Actor, cand}
    /\ EndOp
    /\ UNCHANGED <<queue, matchVars, asking, ludoVars, faults, calls>>

LeaveLook ==
    /\ Running("leave") /\ at = "begin"
    /\ queue' = Without(queue, Actor)
    /\ Goto("looked", ActiveOf(Actor), Nobody)
    /\ Told(Actor)
    /\ UNCHANGED <<session, matchVars, asking, ludoVars, faults, calls>>

\* Matched before the lock was taken: that match is left.
LeaveDone ==
    /\ Running("leave") /\ at = "looked"
    /\ leaving' = IF look = NoMatch THEN leaving ELSE leaving \cup {<<Actor, look>>}
    /\ EndOp
    /\ UNCHANGED <<sessionVars, queue, match, closing, asking, ludoVars, faults, calls>>

\* disconnectOnline: not when a newer socket has taken over.
Drop ==
    /\ Running("drop")
    /\ queue' = IF session[Actor].up THEN queue ELSE Without(queue, Actor)
    /\ EndOp
    /\ UNCHANGED <<sessionVars, matchVars, asking, ludoVars, faults, calls>>

-------------------------------------------------------------------------------
\* Matches.  A match in closing is locked by the operation that ended it.

Playing(m) == match[m].status = "IN_PROGRESS" /\ m \notin closing

Other(m, u) == CHOOSE v \in match[m].players : v # u

OnlineMove(u, m) ==
    /\ session[u].up
    /\ Playing(m) /\ match[m].turn = u
    /\ match' = [match EXCEPT ![m].turn = Other(m, u)]
    /\ UNCHANGED <<sessionVars, opVars, closing, leaving, asking, ludoVars, faults, calls>>

End(m) ==
    /\ match' = [match EXCEPT ![m].status = "OVER"]
    /\ closing' = closing \cup {m}

LastMove(u, m) ==
    /\ session[u].up
    /\ Playing(m) /\ match[m].turn = u
    /\ End(m)
    /\ UNCHANGED <<sessionVars, opVars, leaving, asking, ludoVars, faults, calls>>

RequestLeave(u, m) ==
    /\ Call
    /\ session[u].up
    /\ u \in match[m].players
    /\ leaving' = leaving \cup {<<u, m>>}
    /\ UNCHANGED <<sessionVars, opVars, match, closing, asking, ludoVars, faults>>

LeaveMatch(u, m) ==
    /\ <<u, m>> \in leaving
    /\ m \notin closing
    /\ leaving' = leaving \ {<<u, m>>}
    /\ IF Playing(m) THEN End(m) /\ UNCHANGED session
       ELSE SetGame({u}, NoMatch) /\ UNCHANGED <<match, closing>>
    /\ UNCHANGED <<searching, opVars, asking, ludoVars, faults, calls>>

\* The snapshot has been read and sent.
ClearRoutes(m) ==
    /\ m \in closing
    /\ closing' = closing \ {m}
    /\ SetGame(match[m].players, NoMatch)
    /\ UNCHANGED <<searching, opVars, match, leaving, asking, ludoVars, faults, calls>>

\* The snapshot cannot be read: the routes stay.
SnapshotFails(m) ==
    /\ m \in closing
    /\ faults < MaxFaults /\ faults' = faults + 1
    /\ closing' = closing \ {m}
    /\ UNCHANGED <<sessionVars, opVars, match, leaving, asking, ludoVars, calls>>

\* sendOnlineState reads the row, and then sets the route by what it has read.
AskState(u, m) ==
    /\ Call
    /\ session[u].up
    /\ asking[u] = NotAsking
    /\ u \in match[m].players
    /\ asking' = [asking EXCEPT ![u] = [match |-> m, live |-> match[m].status = "IN_PROGRESS"]]
    /\ UNCHANGED <<sessionVars, opVars, matchVars, ludoVars, faults>>

SendState(u) ==
    /\ asking[u] # NotAsking
    /\ asking' = [asking EXCEPT ![u] = NotAsking]
    /\ IF CanSend(u, asking[u].match)
       THEN SetGame({u}, IF asking[u].live THEN asking[u].match ELSE NoMatch) /\ Told(u)
       ELSE UNCHANGED <<session, searching>>
    /\ UNCHANGED <<opVars, matchVars, ludoVars, faults, calls>>

\* The process starts again: what was in memory is gone.
Restart ==
    /\ faults < MaxFaults /\ faults' = faults + 1
    /\ session' = [u \in Users |-> Away]
    /\ searching' = {}
    /\ queue' = <<>> /\ ops' = <<>>
    /\ at' = "begin" /\ look' = NoMatch /\ cand' = Nobody
    /\ closing' = {} /\ leaving' = {}
    /\ asking' = [u \in Users |-> NotAsking]
    /\ unpublished' = {}
    /\ UNCHANGED <<match, ludoQueue, seat, calls>>

-------------------------------------------------------------------------------
\* Ludo, as far as it meets tic-tac-toe

\* joinMatchmaking: no tic-tac-toe by the session, nor by the table.
LudoJoin(u) ==
    /\ Call
    /\ session[u].up /\ session[u].game = NoMatch
    /\ Live(u) = {} /\ u \notin seat
    /\ ludoQueue' = ludoQueue \cup {u}
    /\ UNCHANGED <<sessionVars, opVars, matchVars, asking, seat, unpublished, faults>>

\* tryCreateMatch: the same is asked again in its transaction.
LudoSeat(pair) ==
    /\ pair \subseteq ludoQueue /\ pair \cap seat = {}
    /\ \A u \in pair : session[u].up /\ session[u].game = NoMatch /\ Live(u) = {}
    /\ ludoQueue' = ludoQueue \ pair
    /\ seat' = seat \cup pair
    /\ unpublished' = unpublished \cup pair
    /\ UNCHANGED <<sessionVars, opVars, matchVars, asking, faults, calls>>

LudoPublish ==
    /\ unpublished # {}
    /\ unpublished' = {}
    /\ session' = [u \in Users |-> IF u \in unpublished /\ session[u].up
                                   THEN [session[u] EXCEPT !.ludo = TRUE] ELSE session[u]]
    /\ searching' = searching \ unpublished
    /\ UNCHANGED <<opVars, matchVars, asking, ludoQueue, seat, faults, calls>>

LudoOver ==
    /\ seat # {} /\ unpublished = {}
    /\ seat' = {}
    /\ session' = [u \in Users |-> [session[u] EXCEPT !.ludo = FALSE]]
    /\ UNCHANGED <<searching, opVars, matchVars, asking, ludoQueue, unpublished, faults, calls>>

Next ==
    \/ \E u \in Users :
        \/ Connect(u) \/ ResumeLudo(u) \/ Close(u)
        \/ Request(u, "join") \/ Request(u, "leave")
        \/ SendState(u) \/ LudoJoin(u)
        \/ \E m \in Numbers : \/ OnlineMove(u, m) \/ LastMove(u, m)
                              \/ RequestLeave(u, m) \/ LeaveMatch(u, m) \/ AskState(u, m)
    \/ JoinLook \/ JoinFound \/ JoinRefused \/ JoinScan
    \/ CandLook \/ CandPassed \/ CandTaken
    \/ Create \/ CreateFails \/ Publish
    \/ LeaveLook \/ LeaveDone \/ Drop
    \/ \E m \in Numbers : ClearRoutes(m) \/ SnapshotFails(m)
    \/ Restart
    \/ \E pair \in SUBSET Users : Cardinality(pair) = 2 /\ LudoSeat(pair)
    \/ LudoPublish \/ LudoOver

Spec == Init /\ [][Next]_vars

-------------------------------------------------------------------------------
TypeOK ==
    /\ session \in [Users -> [up : BOOLEAN, game : Numbers \cup {NoMatch}, ludo : BOOLEAN]]
    /\ searching \subseteq Users
    /\ queue \in Seq(Users) /\ IsInjective(queue)
    /\ ops \in Seq([op : {"join", "leave", "drop"}, user : Users]) /\ Len(ops) <= MaxOps
    /\ at \in Phases /\ look \in Numbers \cup {NoMatch} /\ cand \in Users \cup {Nobody}
    /\ match \in [Numbers -> [players : SUBSET Users, turn : Users \cup {Nobody},
                              status : {"NONE", "IN_PROGRESS", "OVER"}]]
    /\ closing \subseteq Numbers /\ leaving \subseteq Users \X Numbers
    /\ asking \in [Users -> [match : Numbers \cup {NoMatch}, live : BOOLEAN]]
    /\ ludoQueue \subseteq Users /\ seat \subseteq Users /\ unpublished \subseteq seat
    /\ calls \in 0..MaxCalls /\ faults \in 0..MaxFaults

\* A user plays one online match at a time (joinOnlineMatchmaking), although the
\* pairing reads the table before it writes, sessions forget their match when a
\* socket is replaced, and an insert may have committed that was taken for failed.
OneOnlineMatch == \A u \in Users : Cardinality(Live(u)) <= 1

\* Whoever was told that the search is on, and is still on that session, is in the
\* queue or in the hands of the operation that runs: neither a failed insert nor
\* the late clean-up of a replaced socket drops a player (disconnectOnline).
SearchingIsQueued ==
    \A u \in searching :
        Contains(queue, u) \/ (ops # <<>> /\ Running("join") /\ u \in {cand, Actor})

\* "simultaneous games are still disallowed: a player cannot fairly participate in
\* both at once" (sendExistingOnlineMatch).
OneGameAtATime == \A u \in seat : Live(u) = {}
===============================================================================
