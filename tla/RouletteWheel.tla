----------------------------- MODULE RouletteWheel -----------------------------
(***************************************************************************)
(* The wheel of roulette: which pocket a roll draws, what a bet returns,     *)
(* what the odds are said to be, and how a stored round is verified          *)
(* (engine/roulette.ts, engine/probability-policy.ts, and of                 *)
(* roulette.service.ts createProfile, the outcome in play, verifyRound).     *)
(*                                                                         *)
(* A roll, a number in [0, 1), is one of Resolution equal steps; the seeds    *)
(* it is hashed from are the roll itself.  RTPs are fractions over the        *)
(* table's total.  The locks, limits and schedules of play() are those of     *)
(* RouletteRounds; here one round is played after others of the day.          *)
(***************************************************************************)
EXTENDS Integers, FiniteSets, FiniteSetsExt

CONSTANTS
    Tables,                    \* tables of weights an admin may enter, in [Pockets -> Int]
    Payouts,                   \* multipliers the settings may have, of EvenMoney and "NUMBER"
    Stakes, Picked,            \* stakes, and the numbers bet on
    maxPayoutPerGame, maxPayoutPerUserPerDay,
    Resolution,                \* rolls are 0, 1/Resolution, ...: a multiple of every total
    Paid,                      \* what the user's earlier rounds of the day may have paid: no more than the limit
    MaxEdits                   \* bound: changes of settings, profiles and policies

WHEEL_SIZE == 37
Pockets == 0..WHEEL_SIZE - 1
RED_NUMBERS == {1, 3, 5, 7, 9, 12, 14, 16, 18, 19, 21, 23, 25, 27, 30, 32, 34, 36}
EvenMoney == {"ODD", "EVEN", "RED", "BLACK"}
NoNumber == WHEEL_SIZE

VARIABLES
    payouts,      \* game.roulette.payout.* settings
    profiles,     \* weights of the stored WEIGHTED profiles
    policy,       \* the policy in force: mode and weights
    credited,     \* paid to the user today
    spin,         \* a call of play that has read its settings
    round,        \* the stored round
    edits

vars == <<payouts, profiles, policy, credited, spin, round, edits>>

-------------------------------------------------------------------------------
\* Bets

colourOf(n) == IF n = 0 THEN "GREEN" ELSE IF n \in RED_NUMBERS THEN "RED" ELSE "BLACK"
parityOf(n) == IF n = 0 THEN "NONE" ELSE IF n % 2 = 1 THEN "ODD" ELSE "EVEN"

Bets == [type : EvenMoney, number : {NoNumber}] \cup [type : {"NUMBER"}, number : Picked]

Wins(bet, n) == n = bet.number \/ bet.type \in {colourOf(n), parityOf(n)}

FullPayout(bet, stake, m) == stake * (m[bet.type] + 1)
settleBet(bet, stake, n, m) == IF Wins(bet, n) THEN FullPayout(bet, stake, m) ELSE 0

\* evaluatePayoutCapacity
Eligible(bet, stake, m) ==
    LET full == FullPayout(bet, stake, m)
    IN  full <= maxPayoutPerGame /\ full <= maxPayoutPerUserPerDay - credited

-------------------------------------------------------------------------------
\* Draws

SumOf(f) ==
    LET upto[n \in Pockets] == IF n = 0 THEN f[0] ELSE upto[n - 1] + f[n]
    IN  upto[WHEEL_SIZE - 1]
Total(w) == SumOf(w)
MAX_TOTAL == 1000000
validateWeights(w) == (\A n \in Pockets : w[n] >= 0) /\ Total(w) \in 1..MAX_TOTAL

\* The weights are taken from the target until it falls below zero.
pickWinningNumber(roll, p) ==
    LET scan[at \in Pockets \X Int] ==    \* a pocket, and the target before its weight
            LET rest == at[2] - p.weights[at[1]] * Resolution
            IN  IF rest < 0 \/ at[1] = WHEEL_SIZE - 1 THEN at[1] ELSE scan[<<at[1] + 1, rest>>]
    IN  IF p.mode = "WEIGHTED" THEN scan[<<0, roll * Total(p.weights)>>]
        ELSE (roll * WHEEL_SIZE) \div Resolution

Even == [n \in Pockets |-> 1]
FairPolicy == [mode |-> "FAIR", weights |-> Even]
Weighted(w) == [mode |-> "WEIGHTED", weights |-> w]

\* estimateRtp of an even-money category, times the total of the weights; of a number picked
\* with equal chances, times the size of the wheel; and of one number, times the total.
CategoryRtp(type, p, m) ==
    LET wins(n) == Wins([type |-> type, number |-> NoNumber], n)
    IN  (m[type] + 1) * SumOf([n \in Pockets |-> IF wins(n) THEN p.weights[n] ELSE 0])
NumberRtp(m) == m["NUMBER"] + 1
MaxNumberRtp(p, m) == (m["NUMBER"] + 1) * Max({p.weights[n] : n \in Pockets})

-------------------------------------------------------------------------------
NoSpin == [bet |-> "none"]
NoRound == [bet |-> "none"]

Init ==
    /\ payouts \in Payouts
    /\ profiles = {} /\ policy = FairPolicy
    /\ credited \in Paid
    /\ spin = NoSpin /\ round = NoRound
    /\ edits = 0

Edit == edits < MaxEdits /\ edits' = edits + 1

SetPayouts(m) ==
    /\ Edit
    /\ payouts' = m
    /\ UNCHANGED <<profiles, policy, credited, spin, round>>

CreateProfile(w) ==
    /\ Edit
    /\ validateWeights(w)
    /\ profiles' = profiles \cup {w}
    /\ UNCHANGED <<payouts, policy, credited, spin, round>>

\* A schedule starts, or ends.
ChangePolicy(p) ==
    /\ Edit
    /\ policy' = p
    /\ UNCHANGED <<payouts, profiles, credited, spin, round>>

\* play: the settings are read before the transaction,
AcceptBet(bet, stake) ==
    /\ spin = NoSpin /\ round = NoRound
    /\ spin' = [bet |-> bet, stake |-> stake, payouts |-> payouts]
    /\ UNCHANGED <<payouts, profiles, policy, credited, round, edits>>

\* the policy in it; the round keeps what it was played under.
Settle(roll) ==
    LET n == pickWinningNumber(roll, policy)
    IN  /\ spin # NoSpin
        /\ Eligible(spin.bet, spin.stake, spin.payouts)
        /\ round' = [bet |-> spin.bet, stake |-> spin.stake, seed |-> roll,
                     mode |-> policy.mode, weights |-> policy.weights, payouts |-> spin.payouts,
                     number |-> n, paid |-> settleBet(spin.bet, spin.stake, n, spin.payouts)]
        /\ credited' = credited + round'.paid
        /\ spin' = NoSpin
        /\ UNCHANGED <<payouts, profiles, policy, edits>>

Refuse ==
    /\ spin # NoSpin
    /\ ~Eligible(spin.bet, spin.stake, spin.payouts)
    /\ spin' = NoSpin
    /\ UNCHANGED <<payouts, profiles, policy, credited, round, edits>>

Next ==
    \/ \E m \in Payouts : SetPayouts(m)
    \/ \E w \in Tables : CreateProfile(w)
    \/ \E w \in profiles : ChangePolicy(Weighted(w))
    \/ ChangePolicy(FairPolicy)
    \/ \E bet \in Bets, stake \in Stakes : AcceptBet(bet, stake)
    \/ \E roll \in 0..Resolution - 1 : Settle(roll)
    \/ Refuse

Spec == Init /\ [][Next]_vars

\* A mutant of Verified: it takes the policy of today for the one in the row.
VerifiedToday(r) == pickWinningNumber(r.seed, policy)

\* verifyRound's answer, from the row alone.
Verified(r) ==
    pickWinningNumber(r.seed, IF r.mode = "WEIGHTED" THEN Weighted(r.weights) ELSE FairPolicy)

-------------------------------------------------------------------------------
\* The types of the variables.
TypeOK ==
    /\ payouts \in Payouts /\ profiles \subseteq Tables
    /\ policy = FairPolicy \/ policy \in {Weighted(w) : w \in profiles}
    /\ credited \in 0..maxPayoutPerUserPerDay
    /\ spin = NoSpin \/ spin \in [bet : Bets, stake : Stakes, payouts : Payouts]
    /\ round = NoRound \/ round.bet \in Bets
    /\ edits \in 0..MaxEdits

\* What the rolls that draw each pocket return of a bet, and what that should be.
Draws(n) == {roll \in 0..Resolution - 1 : pickWinningNumber(roll, policy) = n}
Returned(drawn, bet) == SumOf([n \in Pockets |-> drawn[n] * settleBet(bet, 1, n, payouts)])
AsEstimated(drawn) ==
    LET total == Total(policy.weights)
        picked == [n \in Pockets |-> Returned(drawn, [type |-> "NUMBER", number |-> n])]
    IN  /\ \A n \in Pockets : drawn[n] * total = policy.weights[n] * Resolution
        /\ \A bet \in Bets : bet.type \in EvenMoney =>
               Returned(drawn, bet) * total = CategoryRtp(bet.type, policy, payouts) * Resolution
        /\ SumOf(picked) = NumberRtp(payouts) * Resolution
        /\ Max({picked[n] : n \in Pockets}) * total = MaxNumberRtp(policy, payouts) * Resolution

\* Each pocket is drawn as often as its weight says (pickWinningNumber), and a bet pays on the
\* average what the estimate says (estimateRtp), a number picked with equal chances the same
\* whatever the weights, and no number more than the estimate's worst case.
PaysAsEstimated ==
    spin = NoSpin /\ round = NoRound => AsEstimated([n \in Pockets |-> Cardinality(Draws(n))])

\* Whatever changes later, a stored round is verified as it was played, and paid in full or
\* not at all, within both limits (verifyRound, evaluatePayoutCapacity).
RoundVerifies ==
    round # NoRound =>
        /\ Verified(round) = round.number
        /\ round.paid \in {0, FullPayout(round.bet, round.stake, round.payouts)}
        /\ round.paid > 0 <=> Wins(round.bet, round.number)
        /\ round.paid <= maxPayoutPerGame /\ credited <= maxPayoutPerUserPerDay
===============================================================================
