---------------------------- MODULE TicTacToeRules ----------------------------
(***************************************************************************)
(* The three-piece tic-tac-toe of engine/tictactoe.ts: a player keeps at   *)
(* most three marks, the fourth removes the oldest, and a line counts after *)
(* the removal.  A game is played from one of the positions Starts; every   *)
(* legal move may be made.  The search for the engine's move is here too,   *)
(* cut-offs and transposition table included, beside the plain minimax it   *)
(* abbreviates.                                                             *)
(***************************************************************************)
EXTENDS Integers, Sequences, SequencesExt, FiniteSets

CONSTANTS
    MaxPlies,      \* a game of this many plies is a draw (60 in the code)
    Starts,        \* positions to begin with: the orders of X and of O, and who moves
    ShallowDepth,  \* depth at which every position is searched
    FullDepth      \* depth at which the positions of Starts are searched

VARIABLES
    board,    \* board[c]: who has a mark on cell c
    order,    \* order[p]: the cells of p's marks, oldest first
    plies,
    mover,    \* whose move it is
    status    \* IN_PROGRESS, or how X has fared

vars == <<board, order, plies, mover, status>>

Players == {"X", "O"}
Cells == 0..8
Opponent(p) == IF p = "X" THEN "O" ELSE "X"

LINES == {{0, 1, 2}, {3, 4, 5}, {6, 7, 8}, {0, 3, 6}, {1, 4, 7}, {2, 5, 8}, {0, 4, 8}, {2, 4, 6}}
MOVE_ORDER == <<4, 0, 2, 6, 8, 1, 3, 5, 7>>
WIN_SCORE == 1000
Infinity == 1000000

-------------------------------------------------------------------------------
\* Rules.  A state of the engine is [board, order, plies].

legalMoves(b) == SelectSeq(MOVE_ORDER, LAMBDA c : b[c] = "none")

checkWin(b, p) == \E line \in LINES : \A c \in line : b[c] = p

applyMove(s, p, c) ==
    LET full == Len(s.order[p]) = 3
        removed == IF full THEN {Head(s.order[p])} ELSE {}
        kept == IF full THEN Tail(s.order[p]) ELSE s.order[p]
    IN  [board |-> [d \in Cells |-> IF d = c THEN p ELSE IF d \in removed THEN "none" ELSE s.board[d]],
         order |-> [s.order EXCEPT ![p] = Append(kept, c)],
         plies |-> s.plies + 1]

\* Where a position of Starts is on the board.
BoardOf(x, o) ==
    [c \in Cells |-> IF \E i \in DOMAIN x : x[i] = c THEN "X"
                     ELSE IF \E i \in DOMAIN o : o[i] = c THEN "O" ELSE "none"]

Init ==
    \E s \in Starts :
        /\ board = BoardOf(s.x, s.o)
        /\ order = [p \in Players |-> IF p = "X" THEN s.x ELSE s.o]
        /\ plies = Len(s.x) + Len(s.o)
        /\ mover = s.mover
        /\ status = "IN_PROGRESS"

Position == [board |-> board, order |-> order, plies |-> plies]

\* A move of either side; the side that has moved is the one that may have won.
Move(c) ==
    LET next == applyMove(Position, mover, c)
    IN  /\ status = "IN_PROGRESS"
        /\ board[c] = "none"
        /\ board' = next.board
        /\ order' = next.order
        /\ plies' = next.plies
        /\ mover' = Opponent(mover)
        /\ status' = IF checkWin(next.board, mover)
                     THEN IF mover = "X" THEN "WON" ELSE "LOST"
                     ELSE IF next.plies >= MaxPlies THEN "DRAW" ELSE "IN_PROGRESS"

Next == \E c \in Cells : Move(c)
Spec == Init /\ [][Next]_vars

-------------------------------------------------------------------------------
\* The search

\* Lines with two marks of a player and an empty cell.
Open(b, p) ==
    Cardinality({line \in LINES : /\ Cardinality({c \in line : b[c] = p}) = 2
                                  /\ \E c \in line : b[c] = "none"})

heuristic(b, me) == Open(b, me) - Open(b, Opponent(me))

WinScore(winner, me, ply) == IF winner = me THEN WIN_SCORE - ply ELSE ply - WIN_SCORE

\* The reference: every line of play of this depth.
RECURSIVE Minimax(_, _, _, _, _)
Minimax(s, me, toMove, depth, ply) ==
    IF checkWin(s.board, Opponent(toMove)) THEN WinScore(Opponent(toMove), me, ply)
    ELSE IF depth = 0 THEN heuristic(s.board, me)
    ELSE LET scores == {Minimax(applyMove(s, toMove, c), me, Opponent(toMove), depth - 1, ply + 1)
                        : c \in {d \in Cells : s.board[d] = "none"}}
         IN  IF toMove = me THEN CHOOSE v \in scores : \A w \in scores : w <= v
             ELSE CHOOSE v \in scores : \A w \in scores : v <= w

\* tt is a function from the keys of the positions seen to their entries.
stateKey(s, toMove) == <<s.order["X"], s.order["O"], toMove>>

\* An entry settles a call if it was searched deep enough and its bound is enough.
Answers(entry, depth, alpha, beta) ==
    /\ entry.depth >= depth
    /\ \/ entry.flag = "EXACT"
       \/ entry.flag = "LOWER" /\ entry.score >= beta
       \/ entry.flag = "UPPER" /\ entry.score <= alpha

MaxOf(x, y) == IF x >= y THEN x ELSE y
MinOf(x, y) == IF x <= y THEN x ELSE y

\* search() returns a score and leaves the table behind it.  The loop over the
\* moves carries the best score and both bounds, and skips the rest after a cut.
RECURSIVE search(_, _, _, _, _, _, _, _)
search(s, me, toMove, depth, alpha, beta, ply, tt) ==
    LET justMoved == Opponent(toMove)
        key == stateKey(s, toMove)
        maximizing == toMove = me
        Try(acc, c) ==
            IF acc.beta <= acc.alpha THEN acc
            ELSE LET r == search(applyMove(s, toMove, c), me, justMoved, depth - 1,
                                 acc.alpha, acc.beta, ply + 1, acc.tt)
                     best == IF maximizing THEN MaxOf(acc.best, r.score) ELSE MinOf(acc.best, r.score)
                 IN  [best |-> best, tt |-> r.tt,
                      alpha |-> IF maximizing THEN MaxOf(acc.alpha, best) ELSE acc.alpha,
                      beta |-> IF maximizing THEN acc.beta ELSE MinOf(acc.beta, best)]
    IN  IF checkWin(s.board, justMoved) THEN [score |-> WinScore(justMoved, me, ply), tt |-> tt]
        ELSE IF depth = 0 THEN [score |-> heuristic(s.board, me), tt |-> tt]
        ELSE IF key \in DOMAIN tt /\ Answers(tt[key], depth, alpha, beta)
             THEN [score |-> tt[key].score, tt |-> tt]
        ELSE LET end == FoldLeft(Try, [best |-> IF maximizing THEN -Infinity ELSE Infinity,
                                       alpha |-> alpha, beta |-> beta, tt |-> tt],
                                 legalMoves(s.board))
                 flag == IF end.best <= alpha THEN "UPPER" ELSE IF end.best >= end.beta THEN "LOWER" ELSE "EXACT"
                 entry == [depth |-> depth, score |-> end.best, flag |-> flag]
             IN  [score |-> end.best,
                  tt |-> [k \in DOMAIN end.tt \cup {key} |-> IF k = key THEN entry ELSE end.tt[k]]]

\* A mutant of bestMove: a move that only reaches the bound replaces the best.
bestMoveLast(s, player, depth) ==
    LET Try(acc, c) ==
            LET r == search(applyMove(s, player, c), player, Opponent(player), depth - 1,
                            acc.best, Infinity, 1, acc.tt)
            IN  IF r.score >= acc.best THEN [cell |-> c, best |-> r.score, tt |-> r.tt]
                ELSE [acc EXCEPT !.tt = r.tt]
    IN  FoldLeft(Try, [cell |-> legalMoves(s.board)[1], best |-> -Infinity, tt |-> [k \in {} |-> 0]],
                 legalMoves(s.board)).cell

\* The first cell with the best score, in the order of legalMoves.  The memo
\* only keeps the answer.
bestMove(s, player, depth) ==
    LET Try(acc, c) ==
            LET r == search(applyMove(s, player, c), player, Opponent(player), depth - 1,
                            acc.best, Infinity, 1, acc.tt)
            IN  IF r.score > acc.best THEN [cell |-> c, best |-> r.score, tt |-> r.tt]
                ELSE [acc EXCEPT !.tt = r.tt]
    IN  FoldLeft(Try, [cell |-> legalMoves(s.board)[1], best |-> -Infinity, tt |-> [k \in {} |-> 0]],
                 legalMoves(s.board)).cell

-------------------------------------------------------------------------------
\* The types, and how the parts of a state belong together: the board and the
\* two orders, which applyMove updates apart, have the same marks, three of a
\* player at most, and a game goes on only while no line stands and plies remain.
TypeOK ==
    /\ board \in [Cells -> Players \cup {"none"}]
    /\ \A p \in Players :
        /\ order[p] \in Seq(Cells) /\ Len(order[p]) <= 3 /\ IsInjective(order[p])
        /\ {c \in Cells : board[c] = p} = {order[p][i] : i \in DOMAIN order[p]}
    /\ plies \in 0..MaxPlies
    /\ mover \in Players
    /\ status \in {"IN_PROGRESS", "WON", "LOST", "DRAW"}
    /\ status = "WON" <=> checkWin(board, "X")
    /\ status = "LOST" <=> checkWin(board, "O")
    /\ status = "IN_PROGRESS" => plies < MaxPlies

\* The cut-offs and the table (search) lose nothing: bestMove plays the first of
\* the moves that are best when every line of play is looked at.
AgreesWithMinimax(s, player, depth) ==
    LET value == [c \in {d \in Cells : s.board[d] = "none"} |->
                    Minimax(applyMove(s, player, c), player, Opponent(player), depth - 1, 1)]
        best == SelectSeq(legalMoves(s.board), LAMBDA c : \A d \in DOMAIN value : value[d] <= value[c])
    IN  bestMove(s, player, depth) = best[1]

BestMoveIsMinimax ==
    status = "IN_PROGRESS" =>
        /\ AgreesWithMinimax(Position, mover, ShallowDepth)
        /\ (\E s \in Starts : order["X"] = s.x /\ order["O"] = s.o)
            => AgreesWithMinimax(Position, mover, FullDepth)
===============================================================================
