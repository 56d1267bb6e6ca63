--------------------------------- MODULE Games ---------------------------------
(***************************************************************************)
(* The games: roulette and its wheel, tic-tac-toe against the computer and   *)
(* online, the board of Ludo, and what is written and said in a Ludo room.   *)
(* They share no row (each keeps its own and credits under references of its *)
(* own), so a behaviour is a behaviour of one of them, chosen in the initial *)
(* state; in a behaviour of "rules" all of them rest.                        *)
(***************************************************************************)
EXTENDS RouletteRounds

CONSTANTS
    Matches, MaxPlies, CacheMax, DailyLimit, Reward, MaxFaults,    \* TicTacToeMatches
    Gamers, Nobody, MaxMatches, MaxOps, MaxCalls, MaxOutages,      \* TicTacToeOnline
    Seats, Pawns, TrackLast, HOME, StartOffset, SafeCells, Six,    \* LudoBoard
    extraTurnOnSix, extraTurnOnCapture, threeConsecutiveSixes, NoSeat, NoDice,
    Tables, Payouts, Stakes, Picked, Paid, Resolution, MaxEdits,   \* RouletteWheel
    maxPayoutPerGame, maxPayoutPerUserPerDay,
    Talkers, Messages, Sayer, Text, NoText, Sends, Says, Listeners,  \* LudoChat, LudoVoice
    RateLimit, Joiners, Joins, Caller, ChatChanges, VoiceChanges

VARIABLES
    part,      \* the game that is played
    row, aged, starting, cache, entry, inflight, progress, saving,      \* TicTacToeMatches
    result, shown, paid, upset, faults,
    session, queue, ops, phaseOfOp, look, cand, match, closing, leaving,    \* TicTacToeOnline
    asking, searching, ludoQueue, seat, unpublished, calls, outages,
    roomStatus, phase, currentTurnSeat, consecutiveSixes, dice, legalPawnIds,   \* LudoBoard
    pawns, player, finishOrder, forfeitOrder, finishedPosition,
    payouts, profiles, wheelPolicy, credited, spin, wheelRound, edits,      \* RouletteWheel
    over, talker, routed, silenced, changes,                                \* LudoTalk
    wishes, age, hiding, heard, told, call, view,                           \* LudoChat
    voice, talking, joining, parting, answered, offers                      \* LudoVoice

Solo == INSTANCE TicTacToeMatches WITH step <- progress
Online == INSTANCE TicTacToeOnline WITH
    Users <- Gamers, MaxFaults <- MaxOutages, at <- phaseOfOp, faults <- outages
Board == INSTANCE LudoBoard WITH status <- roomStatus
Wheel == INSTANCE RouletteWheel WITH policy <- wheelPolicy, round <- wheelRound
Chat == INSTANCE LudoChat WITH
    Users <- Talkers, MaxChanges <- ChatChanges, Calls <- Sends, player <- talker
Voice == INSTANCE LudoVoice WITH Users <- Talkers, MaxChanges <- VoiceChanges, player <- talker

\* The bounds are numbers; a match has a ply and the cache a place; a message has a sayer,
\* a call its message, and a join its caller.
ASSUME MatchBounds ==
    /\ {DailyLimit, Reward, MaxFaults} \subseteq Nat
    /\ {MaxPlies, CacheMax} \subseteq Nat \ {0}
ASSUME OnlineBounds == {MaxMatches, MaxOps, MaxCalls, MaxOutages} \subseteq Nat /\ Nobody \notin Gamers
ASSUME BoardBounds == Board!BoardAssumption
\* What the settings allow: integers from 0, stakes from 1; the day so far is within its limit.
\* Tables give each pocket an integer, and the rolls divide evenly by every total they may have.
ASSUME WheelBounds ==
    /\ {maxPayoutPerGame, maxPayoutPerUserPerDay, Resolution, MaxEdits} \subseteq Nat
    /\ Payouts \subseteq [Wheel!EvenMoney \cup {"NUMBER"} -> Nat]
    /\ Stakes \subseteq Nat \ {0} /\ Paid \subseteq 0..maxPayoutPerUserPerDay
    /\ Tables \subseteq [Wheel!Pockets -> Int]
    /\ Resolution % Wheel!WHEEL_SIZE = 0
    /\ \A w \in Tables : Wheel!validateWeights(w) => Resolution % Wheel!Total(w) = 0
ASSUME TalkBounds ==
    /\ {RateLimit, ChatChanges, VoiceChanges} \subseteq Nat
    /\ IsFiniteSet(Messages) /\ Sayer \in [Messages -> Talkers] /\ Says \in [Sends -> Messages]
    /\ Listeners \subseteq Talkers
    /\ Caller \in [Joins -> Talkers]

soloVars == <<row, aged, starting, cache, entry, inflight, progress, saving, result, shown, paid, upset, faults>>
onlineVars == <<session, queue, ops, phaseOfOp, look, cand, match, closing, leaving, asking, searching,
                ludoQueue, seat, unpublished, calls, outages>>
boardVars == <<roomStatus, phase, currentTurnSeat, consecutiveSixes, dice, legalPawnIds, pawns, player,
               finishOrder, forfeitOrder, finishedPosition>>
wheelVars == <<payouts, profiles, wheelPolicy, credited, spin, wheelRound, edits>>
roomVars == <<over, talker, routed, silenced, changes>>
chatVars == <<wishes, age, hiding, heard, told, call, view>>
voiceVars == <<voice, talking, joining, parting, answered, offers>>
gamesVars == <<part, vars, soloVars, onlineVars, boardVars, wheelVars, roomVars, chatVars, voiceVars>>

\* The variables of the games that are not played stay at 0; roulette rests in an
\* initial state.
SoloRests ==
    /\ row = 0 /\ aged = 0 /\ starting = 0 /\ cache = 0 /\ entry = 0 /\ inflight = 0 /\ progress = 0
    /\ saving = 0 /\ result = 0 /\ shown = 0 /\ paid = 0 /\ upset = 0 /\ faults = 0
OnlineRests ==
    /\ session = 0 /\ queue = 0 /\ ops = 0 /\ phaseOfOp = 0 /\ look = 0 /\ cand = 0 /\ match = 0
    /\ closing = 0 /\ leaving = 0 /\ asking = 0 /\ searching = 0 /\ ludoQueue = 0 /\ seat = 0
    /\ unpublished = 0 /\ calls = 0 /\ outages = 0
BoardRests ==
    /\ roomStatus = 0 /\ phase = 0 /\ currentTurnSeat = 0 /\ consecutiveSixes = 0 /\ dice = 0
    /\ legalPawnIds = 0 /\ pawns = 0 /\ player = 0 /\ finishOrder = 0 /\ forfeitOrder = 0
    /\ finishedPosition = 0
WheelRests ==
    /\ payouts = 0 /\ profiles = 0 /\ wheelPolicy = 0 /\ credited = 0 /\ spin = 0
    /\ wheelRound = 0 /\ edits = 0
ChatRests ==
    /\ wishes = 0 /\ age = 0 /\ hiding = 0 /\ heard = 0 /\ told = 0 /\ call = 0 /\ view = 0
VoiceRests ==
    /\ voice = 0 /\ talking = 0 /\ joining = 0 /\ parting = 0 /\ answered = 0 /\ offers = 0
RoomRests ==
    /\ over = 0 /\ talker = 0 /\ routed = 0 /\ silenced = 0 /\ changes = 0

GamesInit ==
    /\ part \in {"roulette", "solo", "online", "board", "wheel", "chat", "voice", "rules"}
    /\ Init /\ (part # "roulette" => balance = [u \in Users |-> 0])
    /\ IF part = "solo" THEN Solo!Init ELSE SoloRests
    /\ IF part = "online" THEN Online!Init ELSE OnlineRests
    /\ IF part = "board" THEN Board!Init ELSE BoardRests
    /\ IF part = "wheel" THEN Wheel!Init ELSE WheelRests
    /\ IF part = "chat" THEN Chat!Init ELSE ChatRests
    /\ IF part = "voice" THEN Voice!Init ELSE VoiceRests
    /\ part \notin {"chat", "voice"} => RoomRests

GamesNext ==
    \/ /\ part = "roulette" /\ Next
       /\ UNCHANGED <<part, soloVars, onlineVars, boardVars, wheelVars, roomVars, chatVars, voiceVars>>
    \/ /\ part = "solo" /\ Solo!Next
       /\ UNCHANGED <<part, vars, onlineVars, boardVars, wheelVars, roomVars, chatVars, voiceVars>>
    \/ /\ part = "online" /\ Online!Next
       /\ UNCHANGED <<part, vars, soloVars, boardVars, wheelVars, roomVars, chatVars, voiceVars>>
    \/ /\ part = "board" /\ Board!Next
       /\ UNCHANGED <<part, vars, soloVars, onlineVars, wheelVars, roomVars, chatVars, voiceVars>>
    \/ /\ part = "wheel" /\ Wheel!Next
       /\ UNCHANGED <<part, vars, soloVars, onlineVars, boardVars, roomVars, chatVars, voiceVars>>
    \/ /\ part = "chat" /\ Chat!Next
       /\ UNCHANGED <<part, vars, soloVars, onlineVars, boardVars, wheelVars, voiceVars>>
    \/ /\ part = "voice" /\ Voice!Next
       /\ UNCHANGED <<part, vars, soloVars, onlineVars, boardVars, wheelVars, chatVars>>

GamesSpec == GamesInit /\ [][GamesNext]_gamesVars

\* The types of every game.
TypesOK ==
    /\ part = "roulette" => TypeOK
    /\ part = "solo" => Solo!TypeOK
    /\ part = "online" => Online!TypeOK
    /\ part = "board" => Board!TypeOK
    /\ part = "wheel" => Wheel!TypeOK
    /\ part = "chat" => Chat!TypeOK
    /\ part = "voice" => Voice!TypeOK

\* A move goes on from the position the client was shown, and a win is paid once,
\* with its row (move, persist).
PlayedAsShownAndPaid == part = "solo" => Solo!ContinuesFromShown /\ Solo!PaidWithTheWin

\* A user plays one online match at a time, and whoever was told that the search is on
\* is searched for (joinOnlineMatchmaking, disconnectOnline).
SearchedAndMatchedOnce == part = "online" => Online!OneOnlineMatch /\ Online!SearchingIsQueued

\* At Ludo two players share safe cells only, the turn is always one that can be played,
\* and places are given for good and by merit (applyMove, finalizeIfDecided).
BoardIsFair == part = "board" => Board!NoSharedCell /\ Board!TurnCanBePlayed /\ Board!PlacesAreFair

\* The wheel draws by the weights in force and pays on the average what its estimate says; a
\* stored round is verified as it was played whatever changes later, and was paid in full or
\* not at all, within its limits (pickWinningNumber, estimateRtp, verifyRound,
\* evaluatePayoutCapacity).
WheelIsFair == part = "wheel" => Wheel!PaysAsEstimated /\ Wheel!RoundVerifies

\* What is said is told once at most, never to whoever keeps its sayer on the list of mutes or
\* on the list of blocks, and at no more than the allowed rate (sendQuickChat, sendTextChat,
\* getSnapshot); of two players who were each told of their voice join on the socket they still
\* have, one is told to call the other (joinVoice).
TalkReachesWhomItMay ==
    /\ part = "chat" => Chat!HiddenIsNotHeard /\ Chat!ToldOnceAtMost /\ Chat!RateKept
    /\ part = "voice" => Voice!PairsAreOffered
===============================================================================
