----------------------------- MODULE RouletteRounds -----------------------------
(***************************************************************************)
(* Roulette spins and the schedules of their probability profiles          *)
(* (roulette.service.ts, engine/roulette.ts).                              *)
(*                                                                         *)
(* play() is one transaction that takes two advisory locks: the user's, so *)
(* that the limits of a user are decided one spin at a time, and the       *)
(* policy lock in shared mode, so that a spin and a change of a schedule   *)
(* are ordered by the database clock each of them reads under it.          *)
(* Schedule changes take the policy lock exclusively.  Who holds a lock    *)
(* follows from how far each transaction is.                               *)
(***************************************************************************)
EXTENDS Integers, FiniteSets, FiniteSetsExt

CONSTANTS
    Calls,            \* calls of play()
    Users, User,      \* User[c]: who makes call c
    Keys, Key,        \* Key[c]: its idempotency key
    Free,             \* Free[c]: it asks for a free game
    Stake, Win,       \* Stake[c], Win[c]: the bet, and what it returns if won
    Schedules,        \* rows of roulette_probability_schedules
    Fair,             \* the policy where no schedule is in force
    Windows,          \* the windows [start, end) an admin may ask for
    Cooldown, MaxGames, MaxPaid, FreePerDay, MaxPayout,   \* game.roulette.* settings
    DayLength,        \* instants of a day
    MaxTime,          \* bound: the last instant
    MaxBalance        \* bound: coins the rest of the system leaves in a wallet

ASSUME ConstantsAssumption ==
    /\ User \in [Calls -> Users]
    /\ Key \in [Calls -> Keys]
    /\ Free \in [Calls -> BOOLEAN]
    /\ Stake \in [Calls -> Nat \ {0}]
    /\ Win \in [Calls -> Nat \ {0}]
    /\ Fair \notin Schedules
    /\ Windows \subseteq (0..MaxTime) \X (0..MaxTime)
    /\ {Cooldown, MaxGames, MaxPaid, FreePerDay, MaxPayout, MaxTime, MaxBalance} \subseteq Nat
    /\ DayLength \in Nat \ {0}

VARIABLES
    clock,            \* the database clock
    balance,          \* wallets.balance of each user
    rounds,           \* the calls whose round is stored
    policy, won,      \* the round's schedule, or Fair, and its outcome
    step, at,         \* progress of each call, and the instant it read under its locks
    planned, starts, ends,      \* the stored schedules and their windows
    cancelled, cancelledAt,     \* those cancelled, and when
    writing, noted    \* schedules a transaction is changing, and the instant it read

playVars == <<balance, rounds, policy, won, step, at>>
scheduleVars == <<planned, starts, ends, cancelled, cancelledAt, writing, noted>>
vars == <<clock, playVars, scheduleVars>>

Instants == 0..MaxTime
Steps == {"idle", "ready", "locked", "timed", "over"}

Init ==
    /\ clock = 0
    /\ balance \in [Users -> 0..MaxBalance]
    /\ rounds = {}
    /\ policy = [c \in Calls |-> Fair]
    /\ won = [c \in Calls |-> FALSE]
    /\ step = [c \in Calls |-> "idle"]
    /\ at = [c \in Calls |-> 0]
    /\ planned = {}
    /\ starts = [s \in Schedules |-> 0]
    /\ ends = [s \in Schedules |-> 0]
    /\ cancelled = {}
    /\ cancelledAt = [s \in Schedules |-> 0]
    /\ writing = {}
    /\ noted = [s \in Schedules |-> 0]

-------------------------------------------------------------------------------
\* The two advisory locks

HoldsUserLock(c) == step[c] \in {"locked", "timed"}

\* A mutant of UserFree: only repetitions of a call exclude each other.
KeyFree(c) ==
    \A d \in Calls : User[d] = User[c] /\ Key[d] = Key[c] => ~HoldsUserLock(d)

UserFree(c) == \A d \in Calls : User[d] = User[c] => ~HoldsUserLock(d)

\* A mutant of MayRead: a spin takes no policy lock.
MayReadUnlocked == writing \subseteq Schedules

\* The policy lock: spins that have read the clock share it.
MayRead == writing = {}

MayWrite == writing = {} /\ \A c \in Calls : step[c] # "timed"

-------------------------------------------------------------------------------
\* Which policy is in force at an instant (resolveProbabilityPolicyAt)

InForce(s, t) ==
    /\ s \in planned
    /\ starts[s] <= t /\ t < ends[s]
    /\ s \in cancelled => t < cancelledAt[s]

PolicyAt(t) ==
    LET live == {s \in Schedules : InForce(s, t)}
    IN  IF live = {} THEN Fair
        ELSE CHOOSE s \in live : \A r \in live : starts[r] <= starts[s]

-------------------------------------------------------------------------------
\* play()

Advance(c, next) == step' = [step EXCEPT ![c] = next]

DayStart(t) == (t \div DayLength) * DayLength

\* The row under the unique key (userId, idempotencyKey).
RoundOf(c) == {d \in rounds : User[d] = User[c] /\ Key[d] = Key[c]}

\* The fast path for a repeated key, or the settings are read and the bet
\* accepted for the transaction.
Start(c) ==
    /\ step[c] = "idle"
    /\ Advance(c, IF RoundOf(c) # {} THEN "over" ELSE "ready")
    /\ UNCHANGED <<clock, balance, rounds, policy, won, at, scheduleVars>>

\* lockUserPlay, then the duplicate check under the lock.
LockUser(c) ==
    /\ step[c] = "ready"
    /\ UserFree(c)
    /\ Advance(c, IF RoundOf(c) # {} THEN "over" ELSE "locked")
    /\ UNCHANGED <<clock, balance, rounds, policy, won, at, scheduleVars>>

Today(c) == {d \in rounds : User[d] = User[c] /\ at[d] >= DayStart(clock)}
Credited(calls) == MapThenSumSet(LAMBDA d : IF won[d] THEN Win[d] ELSE 0, calls)

\* The cooldown since the user's last round.
Rested(c) == \A d \in rounds : User[d] = User[c] => at[d] + Cooldown <= clock

\* Games, free and paid, and the full win within what is left to pay today.
WithinLimits(c) ==
    /\ Cardinality(Today(c)) < MaxGames
    /\ Cardinality({d \in Today(c) : Free[d] = Free[c]}) < IF Free[c] THEN FreePerDay ELSE MaxPaid
    /\ Credited(Today(c)) + Win[c] <= MaxPayout

\* lockProbabilityPolicyRead, the clock under both locks, and what is decided
\* from the user's rounds at that instant.
Admit(c) ==
    /\ step[c] = "locked"
    /\ MayRead
    /\ Rested(c)
    /\ WithinLimits(c)
    /\ Advance(c, "timed")
    /\ at' = [at EXCEPT ![c] = clock]
    /\ UNCHANGED <<clock, balance, rounds, policy, won, scheduleVars>>

\* A mutant of Affordable: the debit is not guarded.
AffordableUnguarded(c) == TRUE

\* The guarded debit of a paid game.
Affordable(c) == Free[c] \/ balance[User[c]] >= Stake[c]

\* The round, its debit and its credit, one commit.
Settle(c, win) ==
    LET paid == IF Free[c] THEN 0 ELSE Stake[c]
        back == IF win THEN Win[c] ELSE 0
    IN  /\ step[c] = "timed"
        /\ RoundOf(c) = {}
        /\ Affordable(c)
        /\ rounds' = rounds \cup {c}
        /\ policy' = [policy EXCEPT ![c] = PolicyAt(at[c])]
        /\ won' = [won EXCEPT ![c] = win]
        /\ balance' = [balance EXCEPT ![User[c]] = @ - paid + back]
        /\ Advance(c, "over")
        /\ UNCHANGED <<clock, at, scheduleVars>>

\* A check refuses the call, the transaction times out or the process dies.
StopPlay(c) ==
    /\ step[c] \in {"ready", "locked", "timed"}
    /\ Advance(c, "over")
    /\ at' = [at EXCEPT ![c] = 0]
    /\ UNCHANGED <<clock, balance, rounds, policy, won, scheduleVars>>

-------------------------------------------------------------------------------
\* createProbabilitySchedule and cancelProbabilitySchedule

\* Either of them, up to the clock read under the exclusive lock.
BeginWrite(s) ==
    /\ MayWrite
    /\ s \notin cancelled
    /\ writing' = writing \cup {s}
    /\ noted' = [noted EXCEPT ![s] = clock]
    /\ UNCHANGED <<clock, playVars, planned, starts, ends, cancelled, cancelledAt>>

\* "Start now" arrives a little late.
EffectiveStart(start, now) == IF start < now THEN now ELSE start

Overlaps(s, start, end) == s \in planned \ cancelled /\ starts[s] < end /\ ends[s] > start

EndWrite(s) == writing' = writing \ {s}

CommitCreate(s, start, end) ==
    LET from == EffectiveStart(start, noted[s])
    IN  /\ s \in writing \ planned
        /\ start < end
        /\ end > noted[s]
        /\ \A r \in Schedules : ~Overlaps(r, from, end)
        /\ planned' = planned \cup {s}
        /\ starts' = [starts EXCEPT ![s] = from]
        /\ ends' = [ends EXCEPT ![s] = end]
        /\ EndWrite(s)
        /\ UNCHANGED <<clock, playVars, cancelled, cancelledAt, noted>>

CommitCancel(s) ==
    /\ s \in (writing \cap planned) \ cancelled
    /\ ends[s] > noted[s]
    /\ cancelled' = cancelled \cup {s}
    /\ cancelledAt' = [cancelledAt EXCEPT ![s] = noted[s]]
    /\ EndWrite(s)
    /\ UNCHANGED <<clock, playVars, planned, starts, ends, noted>>

\* Refused, or rolled back.
AbandonWrite(s) ==
    /\ s \in writing
    /\ EndWrite(s)
    /\ UNCHANGED <<clock, playVars, planned, starts, ends, cancelled, cancelledAt, noted>>

-------------------------------------------------------------------------------
\* The rest of the system

Tick ==
    /\ clock < MaxTime
    /\ clock' = clock + 1
    /\ UNCHANGED <<playVars, scheduleVars>>

\* Other components credit a wallet, or debit it as far as it goes.
OtherMove(u, b) ==
    /\ balance' = [balance EXCEPT ![u] = b]
    /\ UNCHANGED <<clock, rounds, policy, won, step, at, scheduleVars>>

PlayStep(c) ==
    \/ Start(c)
    \/ LockUser(c)
    \/ Admit(c)
    \/ \E win \in BOOLEAN : Settle(c, win)
    \/ StopPlay(c)

WriteStep(s) ==
    \/ BeginWrite(s)
    \/ \E w \in Windows : CommitCreate(s, w[1], w[2])
    \/ CommitCancel(s)
    \/ AbandonWrite(s)

Next ==
    \/ \E c \in Calls : PlayStep(c)
    \/ \E s \in Schedules : WriteStep(s)
    \/ \E u \in Users, b \in 0..MaxBalance : OtherMove(u, b)
    \/ Tick

Spec == Init /\ [][Next]_vars

-------------------------------------------------------------------------------
\* Properties

TypeOK ==
    /\ clock \in Instants
    /\ balance \in [Users -> Nat]
    /\ rounds \subseteq Calls
    /\ policy \in [Calls -> Schedules \cup {Fair}]
    /\ won \in [Calls -> BOOLEAN]
    /\ step \in [Calls -> Steps]
    /\ at \in [Calls -> Instants]
    /\ cancelled \subseteq planned /\ planned \subseteq Schedules
    /\ starts \in [Schedules -> Instants]
    /\ ends \in [Schedules -> Instants]
    /\ cancelledAt \in [Schedules -> Instants]
    /\ writing \subseteq Schedules
    /\ noted \in [Schedules -> Instants]

\* "same key => same round": however often a call is repeated, and across
\* midnight, a user's key stands for one round, hence for one bet (play).
OneRoundPerKey ==
    \A c, d \in rounds : User[c] = User[d] /\ Key[c] = Key[d] => c = d

RoundsOn(u, day) == {c \in rounds : User[c] = u /\ at[c] \div DayLength = day}

\* Games of a day, free ones and paid ones, stay within their limits.
GamesWithinDay ==
    \A u \in Users, t \in Instants :
        LET day == RoundsOn(u, t \div DayLength)
        IN  /\ Cardinality(day) <= MaxGames
            /\ Cardinality({c \in day : Free[c]}) <= FreePerDay
            /\ Cardinality({c \in day : ~Free[c]}) <= MaxPaid

\* A user's rounds of one day respect every daily limit, also that of what they pay, whatever
\* spins overlap and whichever of them wait for a lock over midnight (play, dailyUsage).
WithinDailyLimits ==
    /\ GamesWithinDay
    /\ \A u \in Users, t \in Instants : Credited(RoundsOn(u, t \div DayLength)) <= MaxPayout

\* Two rounds of a user are a cooldown apart, also over midnight.
CooldownKept ==
    \A c, d \in rounds :
        c # d /\ User[c] = User[d] => at[c] + Cooldown <= at[d] \/ at[d] + Cooldown <= at[c]

\* No instant has two policies, cancelled schedules included: the overlap check
\* of createProbabilitySchedule looks at the others only.
OnePolicyAtATime ==
    \A s, r \in Schedules, t \in Instants : InForce(s, t) /\ InForce(r, t) => s = r

\* The policy a stored round was played under is the one in force at its
\* createdAt, and stays so whatever schedules are made or cancelled later.  The
\* instant of a change itself belongs to both policies.
RoundUsesPolicyInForce ==
    \A c \in rounds :
        /\ policy[c] # Fair =>
               /\ starts[policy[c]] <= at[c] /\ at[c] < ends[policy[c]]
               /\ policy[c] \in cancelled => at[c] <= cancelledAt[policy[c]]
        /\ \A s \in Schedules : InForce(s, at[c]) /\ starts[s] < at[c] => policy[c] = s
===============================================================================
