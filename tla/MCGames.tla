-------------------------------- MODULE MCGames --------------------------------
\* A TLC instance of Games, with one more part: the rules of tic-tac-toe and the search
\* for the computer's move, whose recursion the proofs of Games cannot reach.
EXTENDS Games, MCRouletteRounds

CONSTANTS u3, m1, m2, p1, d1, d2, d3

VARIABLES board, order, plies, mover, outcome      \* TicTacToeRules

\* Three positions in the middle of a game: X to move with six marks on the board, O
\* to move with six, and one ply each.  Every position of depth 4 is searched, these to the end.
MidGames == {[x |-> <<0, 5, 7>>, o |-> <<4, 2, 3>>, mover |-> "X"],
             [x |-> <<4, 1, 8>>, o |-> <<0, 7, 2>>, mover |-> "O"],
             [x |-> <<4>>, o |-> <<0>>, mover |-> "X"]}

Rules == INSTANCE TicTacToeRules WITH
    MaxPlies <- 8, Starts <- MidGames, ShallowDepth <- 4, FullDepth <- 8, status <- outcome

\* Ludo: three players on a track of six cells, home at 7, a dice of three.
EverySecond == [s \in {0, 1, 2} |-> 2 * s]

\* A table that leaves zero out and doubles 17, one of three numbers, and two that are refused.
Tables37 ==
    {[n \in 0..36 |-> CASE n = 17 -> 2 [] n = 0 -> 0 [] OTHER -> 1],
     [n \in 0..36 |-> CASE n = 17 -> 35 [] n \in {0, 36} -> 1 [] OTHER -> 0],
     [n \in 0..36 |-> 0],
     [n \in 0..36 |-> IF n = 3 THEN -1 ELSE 1]}

\* Of the bets on 17, one is above the limit of a game, one above what is left today.
Multipliers(number, even) ==
    [t \in {"ODD", "EVEN", "RED", "BLACK", "NUMBER"} |-> IF t = "NUMBER" THEN number ELSE even]
TwoPayouts == {Multipliers(35, 1), Multipliers(30, 2)}

\* One user says two things, a quick message twice, and another may not want to hear it.
SaidByU1 == [m \in {m1, m2} |-> u1]
QuickAndText == [m \in {m1, m2} |-> IF m = m1 THEN NoText ELSE m]
TwiceM1 == [c \in {d1, d2, d3} |-> IF c = d3 THEN m2 ELSE m1]

\* The voice is joined twice by one user and once by the other.
TwiceU1 == [c \in {d1, d2, d3} |-> IF c = d3 THEN u3 ELSE u1]

\* The schedules of roulette are alike, and so are two calls of the chat and of the voice.
Alike == Either \cup Permutations({d1, d2})

rulesVars == <<board, order, plies, mover, outcome>>
RulesRest ==
    /\ board = 0 /\ order = 0 /\ plies = 0 /\ mover = 0 /\ outcome = 0

PlayInit == GamesInit /\ IF part = "rules" THEN Rules!Init ELSE RulesRest

PlayNext ==
    \/ GamesNext /\ UNCHANGED rulesVars
    \/ part = "rules" /\ Rules!Next /\ UNCHANGED gamesVars

PlaySpec == PlayInit /\ [][PlayNext]_<<gamesVars, rulesVars>>

\* The board and the orders of a tic-tac-toe position tell the same, and the computer's move is
\* the one of plain minimax (applyMove, bestMove).
ComputerPlaysMinimax == part = "rules" => Rules!TypeOK /\ Rules!BestMoveIsMinimax
===============================================================================
