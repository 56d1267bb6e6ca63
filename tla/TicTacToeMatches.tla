--------------------------- MODULE TicTacToeMatches ---------------------------
(***************************************************************************)
(* Matches against the engine (game.service.ts: startMatch, move, persist). *)
(*                                                                         *)
(* A move is answered from a cache in memory and its row is written behind  *)
(* the answer; the match stays locked until that write has settled.  The    *)
(* last move writes row and reward in one transaction before it is          *)
(* answered.  The cache has a capacity, entries age, writes fail, and the   *)
(* process dies.  Of a position the number of plies is kept; how a move     *)
(* comes out is free, within the rules.                                     *)
(***************************************************************************)
EXTENDS Integers, Sequences, SequencesExt, FiniteSets

CONSTANTS
    Matches,
    MaxPlies,      \* plies of a draw (60 in the code)
    CacheMax,      \* MATCH_CACHE_MAX
    DailyLimit,    \* the user's limit; all matches are one user's, of one day
    Reward,        \* winCoins, or hintWinCoins for a match with hints
    MaxFaults      \* bound: failed writes and crashes

VARIABLES
    row,        \* game_matches: plies and status
    aged,       \* matches begun more than ten minutes ago
    starting,   \* calls of startMatch that have passed assertCanStart
    cache,      \* matchCache, as the sequence of its keys in order of insertion
    entry,      \* the entry of each key
    inflight,   \* matches whose move is under way
    step,       \* how far that move is
    saving,     \* positions on their way to the row, behind an answer
    result,     \* position and outcome the last move wants to write
    shown,      \* plies of the position the client was last given
    paid,       \* coins credited under game-ttt:<match>
    upset,      \* matches a fault has touched
    faults

rows == <<row, aged, paid>>
vars == <<row, aged, starting, cache, entry, inflight, step, saving, result, shown, paid, upset, faults>>

Ended == {"WON", "LOST", "DRAW"}
Steps == {"idle", "load", "reward", "persist"}
Position == [plies : 0..MaxPlies, status : {"NONE", "IN_PROGRESS"} \cup Ended]
Absent == [plies |-> 0, status |-> "NONE"]

Cached(m) == Contains(cache, m)

Init ==
    /\ row = [m \in Matches |-> Absent]
    /\ aged = {}
    /\ starting = {}
    /\ cache = <<>>
    /\ entry = [m \in Matches |-> Absent]
    /\ inflight = {}
    /\ step = [m \in Matches |-> "idle"]
    /\ saving = [m \in Matches |-> {}]
    /\ result = [m \in Matches |-> Absent]
    /\ shown = [m \in Matches |-> 0]
    /\ paid = [m \in Matches |-> 0]
    /\ upset = {}
    /\ faults = 0

-------------------------------------------------------------------------------
\* The cache.  A Map keeps the place of a key that is set again.

CacheSet(m, e) ==
    /\ cache' = IF Cached(m) THEN cache
                ELSE Append(IF Len(cache) >= CacheMax THEN Tail(cache) ELSE cache, m)
    /\ entry' = [k \in Matches |-> IF k = m THEN e
                                   ELSE IF Contains(cache', k) THEN entry[k] ELSE Absent]

CacheDelete(m) ==
    /\ cache' = RemoveFirst(cache, m)
    /\ entry' = [entry EXCEPT ![m] = Absent]

\* The sweep: an entry was not touched for an hour.  A move that is being saved
\* has touched its entry a moment ago.
Sweep(m) ==
    /\ Cached(m)
    /\ saving[m] = {}
    /\ CacheDelete(m)
    /\ UNCHANGED <<rows, starting, inflight, step, saving, result, shown, upset, faults>>

-------------------------------------------------------------------------------
\* startMatch

\* Matches nobody moved in for ten minutes do not count.
playedToday == Cardinality({m \in Matches :
    /\ row[m].status # "NONE"
    /\ ~(row[m] = [plies |-> 0, status |-> "IN_PROGRESS"] /\ m \in aged)})

BeginStart(m) ==
    /\ row[m].status = "NONE" /\ m \notin starting
    /\ playedToday < DailyLimit
    /\ starting' = starting \cup {m}
    /\ UNCHANGED <<rows, cache, entry, inflight, step, saving, result, shown, upset, faults>>

EndStart(m) ==
    /\ m \in starting
    /\ starting' = starting \ {m}
    /\ row' = [row EXCEPT ![m] = [plies |-> 0, status |-> "IN_PROGRESS"]]
    /\ CacheSet(m, [plies |-> 0, status |-> "IN_PROGRESS"])
    /\ UNCHANGED <<aged, inflight, step, saving, result, shown, paid, upset, faults>>

Age(m) ==
    /\ row[m].status # "NONE" /\ m \notin aged
    /\ aged' = aged \cup {m}
    /\ UNCHANGED <<row, starting, cache, entry, inflight, step, saving, result, shown, paid, upset, faults>>

-------------------------------------------------------------------------------
\* move

Release(m) == inflight' = inflight \ {m} /\ step' = [step EXCEPT ![m] = "idle"]

\* How a move from a position may come out: X moves, then the engine, unless the
\* match is over in between.
Outcomes(plies) ==
    {[plies |-> plies + 1, status |-> "WON"]}
    \cup (IF plies + 1 >= MaxPlies THEN {[plies |-> plies + 1, status |-> "DRAW"]}
          ELSE {[plies |-> plies + 2, status |-> "LOST"],
                [plies |-> plies + 2, status |-> IF plies + 2 >= MaxPlies THEN "DRAW" ELSE "IN_PROGRESS"]})

\* A mutant of Answer: the lock is given back with the answer.
AnswerUnlocked(m, o) ==
    /\ CacheSet(m, o)
    /\ saving' = [saving EXCEPT ![m] = @ \cup {o.plies}]
    /\ shown' = [shown EXCEPT ![m] = o.plies]
    /\ Release(m)
    /\ UNCHANGED result

\* The hot path: the answer and the cache first, the row later.  The lock is
\* handed to the write.
Answer(m, o) ==
    /\ CacheSet(m, o)
    /\ saving' = [saving EXCEPT ![m] = @ \cup {o.plies}]
    /\ shown' = [shown EXCEPT ![m] = o.plies]
    /\ inflight' = inflight \cup {m}
    /\ step' = [step EXCEPT ![m] = "idle"]
    /\ UNCHANGED result

\* The last move waits for the settings of the reward, or for the transaction.
GoPersist(m, o) ==
    /\ result' = [result EXCEPT ![m] = o]
    /\ step' = [step EXCEPT ![m] = IF o.status = "WON" THEN "reward" ELSE "persist"]
    /\ inflight' = inflight \cup {m}
    /\ UNCHANGED <<saving, shown>>

Play(m, e) ==
    \/ /\ e.status \in Ended        \* "Match is already finished"
       /\ Release(m)
       /\ UNCHANGED <<cache, entry, saving, result, shown>>
    \/ /\ e.status = "IN_PROGRESS"
       /\ \E o \in Outcomes(e.plies) :
            \/ o.status = "IN_PROGRESS" /\ Answer(m, o)
            \/ o.status \in Ended /\ GoPersist(m, o) /\ UNCHANGED <<cache, entry>>

MoveCached(m) ==
    /\ m \notin inflight
    /\ Cached(m)
    /\ Play(m, entry[m])
    /\ UNCHANGED <<rows, starting, upset, faults>>

\* Not in the cache: the row is read under the lock.
MoveUncached(m) ==
    /\ m \notin inflight
    /\ ~Cached(m)
    /\ row[m].status # "NONE"
    /\ inflight' = inflight \cup {m}
    /\ step' = [step EXCEPT ![m] = "load"]
    /\ UNCHANGED <<rows, starting, cache, entry, saving, result, shown, upset, faults>>

\* The row enters the cache whatever its status; a move on it is Play.  When the
\* row has ended the entry stays and answers the next calls.
Load(m) ==
    /\ step[m] = "load"
    /\ \/ /\ row[m].status \in Ended
          /\ CacheSet(m, row[m])
          /\ Release(m)
          /\ UNCHANGED <<saving, result, shown>>
       \/ /\ row[m].status = "IN_PROGRESS"
          /\ \E o \in Outcomes(row[m].plies) :
                \/ o.status = "IN_PROGRESS" /\ Answer(m, o)
                \/ o.status \in Ended /\ GoPersist(m, o) /\ CacheSet(m, row[m])
    /\ UNCHANGED <<rows, starting, upset, faults>>

\* The write behind the answer settles.  It does not ask for the row's status.
Save(m, n) ==
    /\ n \in saving[m]
    /\ row' = [row EXCEPT ![m] = [plies |-> n, status |-> row[m].status]]
    /\ saving' = [saving EXCEPT ![m] = @ \ {n}]
    /\ Release(m)
    /\ UNCHANGED <<aged, starting, cache, entry, result, shown, paid, upset, faults>>

Fault(m) ==
    /\ faults < MaxFaults
    /\ faults' = faults + 1
    /\ upset' = upset \cup {m}

\* It fails: the error is logged, nothing else.
SaveFails(m, n) ==
    /\ n \in saving[m]
    /\ Fault(m)
    /\ saving' = [saving EXCEPT ![m] = @ \ {n}]
    /\ Release(m)
    /\ UNCHANGED <<rows, starting, cache, entry, result, shown>>

ReadReward(m) ==
    /\ step[m] = "reward"
    /\ step' = [step EXCEPT ![m] = "persist"]
    /\ UNCHANGED <<rows, starting, cache, entry, inflight, saving, result, shown, upset, faults>>

\* The transaction of persist(): the row while it is in progress, and the reward.
Finish(m) ==
    /\ row[m].status = "IN_PROGRESS"
    /\ row' = [row EXCEPT ![m] = result[m]]
    /\ paid' = [paid EXCEPT ![m] = IF result[m].status = "WON" THEN @ + Reward ELSE @]

Persist(m) ==
    /\ step[m] = "persist"
    /\ Finish(m)
    /\ CacheDelete(m)
    /\ shown' = [shown EXCEPT ![m] = result[m].plies]
    /\ Release(m)
    /\ UNCHANGED <<aged, starting, saving, result, upset, faults>>

\* The row had ended: the call is refused and the cache keeps its entry.
PersistRefused(m) ==
    /\ step[m] = "persist"
    /\ row[m].status \in Ended
    /\ Release(m)
    /\ UNCHANGED <<rows, starting, cache, entry, saving, result, shown, upset, faults>>

\* The transaction is rolled back, or commits and its answer is lost: for the
\* code the same error, and the cache keeps its entry.
PersistFails(m) ==
    /\ step[m] = "persist"
    /\ Fault(m)
    /\ \/ UNCHANGED <<row, paid>>
       \/ Finish(m)
    /\ Release(m)
    /\ UNCHANGED <<aged, starting, cache, entry, saving, result, shown>>

\* The process dies.  Of the writes behind answers some have reached the database.
Crash ==
    /\ faults < MaxFaults
    /\ faults' = faults + 1
    /\ \E done \in SUBSET {m \in Matches : saving[m] # {}} :
        row' = [m \in Matches |-> IF m \in done
                    THEN [plies |-> CHOOSE n \in saving[m] : TRUE, status |-> row[m].status]
                    ELSE row[m]]
    /\ upset' = upset \cup {m \in Matches : saving[m] # {}}
    /\ starting' = {}
    /\ cache' = <<>>
    /\ entry' = [m \in Matches |-> Absent]
    /\ inflight' = {}
    /\ step' = [m \in Matches |-> "idle"]
    /\ saving' = [m \in Matches |-> {}]
    /\ UNCHANGED <<aged, result, shown, paid>>

Next ==
    \/ \E m \in Matches :
        \/ Sweep(m) \/ BeginStart(m) \/ EndStart(m) \/ Age(m)
        \/ MoveCached(m) \/ MoveUncached(m) \/ Load(m)
        \/ \E n \in saving[m] : Save(m, n) \/ SaveFails(m, n)
        \/ ReadReward(m) \/ Persist(m) \/ PersistRefused(m) \/ PersistFails(m)
    \/ Crash

Spec == Init /\ [][Next]_vars

-------------------------------------------------------------------------------
TypeOK ==
    /\ row \in [Matches -> Position]
    /\ aged \subseteq Matches /\ starting \subseteq Matches
    /\ cache \in Seq(Matches) /\ Len(cache) <= CacheMax /\ IsInjective(cache)
    /\ entry \in [Matches -> Position]
    /\ inflight \subseteq Matches
    /\ step \in [Matches -> Steps]
    /\ saving \in [Matches -> SUBSET (0..MaxPlies)]
    /\ result \in [Matches -> Position]
    /\ shown \in [Matches -> 0..MaxPlies]
    /\ paid \in [Matches -> Nat]
    /\ upset \subseteq Matches
    /\ faults \in 0..MaxFaults

\* Where the next move of a match would start.
Base(m) == IF Cached(m) THEN entry[m] ELSE row[m]

\* The next move goes on from the position the client has been shown, wherever it
\* is found: in the cache, or in the row when the entry was evicted, swept away or
\* has died with the process (the hot path of move and its lock).  Only a write
\* that failed, or was lost in a crash, takes a match back.
ContinuesFromShown ==
    \A m \in Matches \ upset :
        m \notin inflight \/ step[m] = "load" => Base(m).plies = shown[m]

\* A win is paid once, with its row, and whatever the cache replays afterwards
\* (persist): after a commit whose answer was lost the match goes on in the cache.
PaidWithTheWin ==
    \A m \in Matches : paid[m] = IF row[m].status = "WON" THEN Reward ELSE 0
===============================================================================
