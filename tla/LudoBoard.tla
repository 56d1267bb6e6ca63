------------------------------- MODULE LudoBoard -------------------------------
(***************************************************************************)
(* The rules of Ludo (engine/ludo.ts): one room from its start to its last   *)
(* place.  A roll, a move, a turn that runs out and a forfeit are the        *)
(* engine's transitions; the service calls them one at a time (LudoRooms).   *)
(*                                                                         *)
(* The size of the board and of the dice are constants: in the code the      *)
(* track has 52 cells, home is at 57, the dice has six faces, and the        *)
(* largest lets a pawn out of the yard.                                      *)
(***************************************************************************)
EXTENDS Integers, Sequences, SequencesExt, FiniteSets

CONSTANTS
    Seats,              \* 0 .. number of players - 1
    Pawns,              \* pawns of a player
    TrackLast,          \* OUTER_TRACK_LAST: 51
    HOME,               \* 57
    StartOffset,        \* START_OFFSETS of the player's colour
    SafeCells,          \* SAFE_GLOBAL_CELLS
    Six,                \* the largest face
    extraTurnOnSix, extraTurnOnCapture, threeConsecutiveSixes,
    NoSeat, NoDice

\* What the module takes for granted of its constants: an assumption of its theorems,
\* not an ASSUME, so that the module can be instantiated.
BoardAssumption ==
    /\ IsFiniteSet(Seats) /\ Cardinality(Seats) >= 2 /\ Seats = 0..Cardinality(Seats) - 1
    /\ NoSeat \notin Seats
    /\ TrackLast \in Nat /\ HOME \in Nat /\ TrackLast < HOME
    /\ StartOffset \in [Seats -> 0..TrackLast]
    /\ \A s \in Seats : StartOffset[s] \in SafeCells
    /\ Six \in Nat \ {0}
    /\ NoDice \notin 1..Six
    /\ extraTurnOnSix \in BOOLEAN /\ extraTurnOnCapture \in BOOLEAN /\ threeConsecutiveSixes \in BOOLEAN

VARIABLES
    status,        \* WAITING, ACTIVE, COMPLETED
    phase,         \* AWAITING_ROLL, AWAITING_MOVE, COMPLETED
    currentTurnSeat,
    consecutiveSixes,
    dice,
    legalPawnIds,
    pawns,         \* progress of each pawn along its owner's route
    player,        \* ACTIVE, FINISHED or FORFEITED
    finishOrder, forfeitOrder,   \* seats
    finishedPosition

places == <<finishOrder, finishedPosition>>
turnVars == <<phase, currentTurnSeat, consecutiveSixes, dice, legalPawnIds>>
vars == <<status, turnVars, pawns, player, forfeitOrder, places>>

YARD == -1
Faces == 1..Six
Track == 0..TrackLast
NoCell == -1

Init ==
    /\ status = "WAITING"
    /\ phase = "AWAITING_ROLL"
    /\ currentTurnSeat \in Seats
    /\ consecutiveSixes = 0
    /\ dice = NoDice
    /\ legalPawnIds = {}
    /\ pawns = [s \in Seats |-> [i \in Pawns |-> YARD]]
    /\ player = [s \in Seats |-> "ACTIVE"]
    /\ finishOrder = <<>> /\ forfeitOrder = <<>>
    /\ finishedPosition = [s \in Seats |-> 0]

-------------------------------------------------------------------------------
\* Cells, legal moves, and whose turn it is

\* Where a pawn is on the shared track.
globalCellFor(s, progress) ==
    IF progress \in Track THEN (StartOffset[s] + progress) % (TrackLast + 1) ELSE NoCell

legalPawnIndices(s, d) ==
    {i \in Pawns : /\ pawns[s][i] # HOME
                   /\ IF pawns[s][i] = YARD THEN d = Six ELSE pawns[s][i] + d <= HOME}

Active(stat) == {s \in Seats : stat[s] = "ACTIVE"}
Ahead(s, offset) == (s + offset) % Cardinality(Seats)

\* The next active seat around the table, the seat itself at last.
nextActiveSeat(stat, s) ==
    IF Active(stat) = {} THEN NoSeat
    ELSE LET near == {k \in 1..Cardinality(Seats) : Ahead(s, k) \in Active(stat)}
         IN  Ahead(s, CHOOSE k \in near : \A j \in near : k <= j)

beginRoll(s, resetSixes) ==
    /\ phase' = "AWAITING_ROLL"
    /\ currentTurnSeat' = s
    /\ dice' = NoDice
    /\ legalPawnIds' = {}
    /\ IF resetSixes THEN consecutiveSixes' = 0 ELSE TRUE

\* appendOnce, for each of a list without repetitions: those already there are left out.
AppendNew(list, more) ==
    IF \E k \in DOMAIN more : Contains(list, more[k])
    THEN list \o SelectSeq(more, LAMBDA s : ~Contains(list, s))
    ELSE list \o more

\* active[0]
FirstActive(stat) == IF Active(stat) = {} THEN <<>> ELSE <<CHOOSE s \in Active(stat) : TRUE>>

\* A mutant of FinalOrder: forfeits in the order they happened.
FinalOrderForward(order, stat, forfeits) ==
    AppendNew(AppendNew(order, FirstActive(stat)), forfeits)

\* The places once at most one player is active: the one still playing, then who
\* forfeited, the latest first.
FinalOrder(order, stat, forfeits) ==
    AppendNew(AppendNew(order, FirstActive(stat)), Reverse(forfeits))

Decided(stat) == Cardinality(Active(stat)) <= 1

\* finalizeIfDecided with the places the transition itself has given.
Finalize(order, stat, forfeits) ==
    /\ Decided(stat)
    /\ finishOrder' = FinalOrder(order, stat, forfeits)
    /\ finishedPosition' = [s \in Seats |-> IF Contains(finishOrder', s)
            THEN CHOOSE k \in DOMAIN finishOrder' : finishOrder'[k] = s ELSE finishedPosition[s]]
    /\ status' = "COMPLETED" /\ phase' = "COMPLETED"
    /\ dice' = NoDice /\ legalPawnIds' = {}
    /\ UNCHANGED <<currentTurnSeat, consecutiveSixes>>

\* The turn goes to the next active player.
PassTurn == beginRoll(nextActiveSeat(player, currentTurnSeat), TRUE)

-------------------------------------------------------------------------------
\* Transitions

startGame ==
    /\ status = "WAITING"
    /\ status' = "ACTIVE"
    /\ UNCHANGED <<turnVars, pawns, player, forfeitOrder, places>>

\* The third six in a row is lost with its turn; a roll nothing can move with
\* passes the turn, or after a six repeats it.
applyRoll(d) ==
    LET sixes == IF d = Six THEN consecutiveSixes + 1 ELSE 0
        legal == legalPawnIndices(currentTurnSeat, d)
    IN  /\ status = "ACTIVE" /\ phase = "AWAITING_ROLL"
        /\ \/ /\ d = Six /\ threeConsecutiveSixes /\ sixes >= 3
              /\ PassTurn
           \/ /\ ~(d = Six /\ threeConsecutiveSixes /\ sixes >= 3)
              /\ \/ /\ legal # {}
                    /\ phase' = "AWAITING_MOVE"
                    /\ dice' = d
                    /\ legalPawnIds' = legal
                    /\ consecutiveSixes' = sixes
                    /\ UNCHANGED currentTurnSeat
                 \/ /\ legal = {} /\ d = Six /\ extraTurnOnSix
                    /\ beginRoll(currentTurnSeat, FALSE)
                    /\ consecutiveSixes' = sixes
                 \/ /\ legal = {} /\ ~(d = Six /\ extraTurnOnSix)
                    /\ PassTurn
        /\ UNCHANGED <<status, pawns, player, forfeitOrder, places>>

\* The pawns of the others on the cell a pawn comes to, unless it is safe.  Who
\* has forfeited leaves pawns that are in nobody's way.
Captures(s, cell) ==
    {c \in Seats \X Pawns :
        /\ c[1] # s /\ player[c[1]] # "FORFEITED"
        /\ cell # NoCell /\ cell \notin SafeCells
        /\ globalCellFor(c[1], pawns[c[1]][c[2]]) = cell}

Destination(from) == IF from = YARD THEN 0 ELSE from + dice

\* The pawns after the current player has moved pawn i.
Moved(i) ==
    LET s == currentTurnSeat
        to == Destination(pawns[s][i])
        captured == Captures(s, globalCellFor(s, to))
    IN  [q \in Seats |-> [j \in Pawns |->
            IF q = s /\ j = i THEN to
            ELSE IF <<q, j>> \in captured THEN YARD
            ELSE pawns[q][j]]]

KeepsTurn(finished, captured) ==
    /\ ~finished
    /\ \/ dice = Six /\ extraTurnOnSix
       \/ captured /\ extraTurnOnCapture

applyMove(i) ==
    LET s == currentTurnSeat
        captured == Captures(s, globalCellFor(s, Destination(pawns[s][i]))) # {}
        finished == \A j \in Pawns : Moved(i)[s][j] = HOME
        stat == [player EXCEPT ![s] = IF finished THEN "FINISHED" ELSE player[s]]
        order == IF finished THEN AppendNew(finishOrder, <<s>>) ELSE finishOrder
    IN  /\ status = "ACTIVE" /\ phase = "AWAITING_MOVE"
        /\ i \in legalPawnIds
        /\ pawns' = Moved(i)
        /\ player' = stat
        /\ \/ Finalize(order, stat, forfeitOrder)
           \/ /\ ~Decided(stat)
              /\ IF KeepsTurn(finished, captured)
                 THEN beginRoll(s, dice # Six) /\ (dice = Six => UNCHANGED consecutiveSixes)
                 ELSE beginRoll(nextActiveSeat(stat, s), TRUE)
              /\ finishOrder' = order
              /\ finishedPosition' = [finishedPosition EXCEPT ![s] = IF finished THEN Len(order) ELSE finishedPosition[s]]
              /\ UNCHANGED status
        /\ UNCHANGED forfeitOrder

\* The turn ran out, before or after its roll.
expireTurn ==
    /\ status = "ACTIVE"
    /\ PassTurn
    /\ UNCHANGED <<status, pawns, player, forfeitOrder, places>>

forfeitPlayer(s) ==
    LET stat == [player EXCEPT ![s] = "FORFEITED"]
    IN  /\ status = "ACTIVE" /\ player[s] = "ACTIVE"
        /\ player' = stat
        /\ forfeitOrder' = Append(forfeitOrder, s)
        /\ \/ Finalize(finishOrder, stat, forfeitOrder')
           \/ /\ ~Decided(stat)
              /\ IF s = currentTurnSeat THEN beginRoll(nextActiveSeat(stat, s), TRUE)
                 ELSE UNCHANGED turnVars
              /\ UNCHANGED <<status, places>>
        /\ UNCHANGED pawns

Next ==
    \/ startGame
    \/ \E d \in Faces : applyRoll(d)
    \/ \E i \in legalPawnIds : applyMove(i)
    \/ expireTurn
    \/ \E s \in Seats : forfeitPlayer(s)

Spec == Init /\ [][Next]_vars

-------------------------------------------------------------------------------
TypeOK ==
    /\ status \in {"WAITING", "ACTIVE", "COMPLETED"}
    /\ phase \in {"AWAITING_ROLL", "AWAITING_MOVE", "COMPLETED"}
    /\ currentTurnSeat \in Seats
    /\ consecutiveSixes \in Nat
    /\ dice \in Faces \cup {NoDice}
    /\ legalPawnIds \subseteq Pawns
    /\ pawns \in [Seats -> [Pawns -> (-1)..HOME]]
    /\ player \in [Seats -> {"ACTIVE", "FINISHED", "FORFEITED"}]
    /\ finishOrder \in Seq(Seats) /\ forfeitOrder \in Seq(Seats)
    /\ finishedPosition \in [Seats -> Nat]

\* Pawns of two players who have not forfeited share safe cells only (applyMove):
\* who comes to a cell sends the others home, by the cells of the shared track and
\* not by the progress along the routes.
NoSharedCell ==
    \A p, q \in Seats : \A i, j \in Pawns :
        /\ p # q
        /\ player[p] # "FORFEITED" /\ player[q] # "FORFEITED"
        /\ globalCellFor(p, pawns[p][i]) # NoCell
        /\ globalCellFor(p, pawns[p][i]) = globalCellFor(q, pawns[q][j])
        => globalCellFor(p, pawns[p][i]) \in SafeCells

\* Rolls, captures, timeouts and forfeits hand the turn on: while the game runs
\* at least two play, the turn is a player's who still plays, what may be moved is what the
\* dice allows at this moment, and no third six in a row waits for its move.
TurnCanBePlayed ==
    status = "ACTIVE" =>
        /\ ~Decided(player)
        /\ player[currentTurnSeat] = "ACTIVE"
        /\ threeConsecutiveSixes => consecutiveSixes < 3
        /\ phase = "AWAITING_MOVE" =>
            legalPawnIds = legalPawnIndices(currentTurnSeat, dice) /\ legalPawnIds # {}
        /\ phase = "AWAITING_ROLL" => dice = NoDice

\* Places are given for good: whoever came home keeps the place, forfeits rank
\* behind everyone who stayed, the later ahead of the earlier, and in the end every
\* player has one (finalizeIfDecided).
PlacesAreFair ==
    /\ IsInjective(finishOrder)
    /\ \A k \in DOMAIN finishOrder : finishedPosition[finishOrder[k]] = k
    /\ status = "COMPLETED" =>
        /\ {finishOrder[k] : k \in DOMAIN finishOrder} = Seats
        /\ \A p, q \in Seats : player[p] # "FORFEITED" /\ player[q] = "FORFEITED"
                                => finishedPosition[p] < finishedPosition[q]
        /\ \A i, j \in DOMAIN forfeitOrder : i < j
                => finishedPosition[forfeitOrder[j]] < finishedPosition[forfeitOrder[i]]
===============================================================================
