------------------------------ MODULE GamesProofs ------------------------------
(***************************************************************************)
(* Theorems about the games, for every value of their constants: an          *)
(* inductive invariant of each, and what follows for all of them at the end.  *)
(***************************************************************************)
EXTENDS Games, SequenceTheorems, FiniteSetTheorems, WellFoundedInduction, TLAPS

-------------------------------------------------------------------------------
\* Roulette.

\* A call is served once; spins of a user that hold the lock are one, and what
\* it was admitted on stays true until it settles.
PlayInv ==
    /\ \A c \in rounds : step[c] = "over"
    /\ \A c, d \in Calls : User[c] = User[d] /\ HoldsUserLock(c) /\ HoldsUserLock(d) => c = d
    /\ \A c \in Calls : at[c] <= clock
    /\ \A c \in Calls, d \in rounds :
          step[c] = "timed" /\ User[d] = User[c] => at[d] + Cooldown <= at[c]

\* The exclusive policy lock has one holder, and everything stored is no later
\* than the instant it has read.
ScheduleInv ==
    /\ \A s, r \in writing : s = r
    /\ \A s \in writing : noted[s] <= clock
    /\ \A s \in writing, r \in cancelled : cancelledAt[r] <= noted[s]
    /\ \A s \in writing, c \in rounds : at[c] <= noted[s]
    /\ \A s \in writing, c \in Calls : step[c] # "timed"
    /\ \A r \in cancelled : cancelledAt[r] <= clock
    /\ \A c \in rounds : policy[c] \in planned \cup {Fair}

IInv ==
    /\ TypeOK
    /\ PlayInv
    /\ ScheduleInv
    /\ OneRoundPerKey
    /\ CooldownKept
    /\ OnePolicyAtATime
    /\ RoundUsesPolicyInForce

-------------------------------------------------------------------------------

\* PolicyAt returns the schedule in force, and Fair where none is.
LEMMA PolicyAtInstant ==
    ASSUME TypeOK, OnePolicyAtATime, NEW t \in Instants
    PROVE  /\ \A s \in Schedules : InForce(s, t) => PolicyAt(t) = s
           /\ (\A s \in Schedules : ~InForce(s, t)) => PolicyAt(t) = Fair
<1> DEFINE live == {s \in Schedules : InForce(s, t)}
<1>1. ASSUME NEW s \in Schedules, InForce(s, t)
      PROVE  PolicyAt(t) = s
  <2>1. live = {s}
        BY <1>1 DEF OnePolicyAtATime
  <2>2. starts[s] <= starts[s]
        BY DEF TypeOK, Instants
  <2>3. \A q : q \in live /\ (\A r \in live : starts[r] <= starts[q]) <=> q = s
        BY <2>1, <2>2
  <2>4. (CHOOSE q \in live : \A r \in live : starts[r] <= starts[q]) = s
        BY <2>3
  <2>5. QED BY <2>1, <2>4 DEF PolicyAt
<1>2. ASSUME \A s \in Schedules : ~InForce(s, t)
      PROVE  PolicyAt(t) = Fair
  <2>1. live = {}
        BY <1>2
  <2>2. QED BY <2>1 DEF PolicyAt
<1>3. QED BY <1>1, <1>2

\* Every field keeps its type.
LEMMA TypePreserved ==
    ASSUME TypeOK, OnePolicyAtATime, [Next]_vars
    PROVE  TypeOK'
<1> USE ConstantsAssumption DEF TypeOK, Instants, Steps, Advance
<1>1. ASSUME NEW c \in Calls, Start(c) \/ LockUser(c) \/ StopPlay(c) \/ Admit(c)
      PROVE  TypeOK'
  <2>1. UNCHANGED <<clock, balance, rounds, policy, won, scheduleVars>>
        BY <1>1 DEF Start, LockUser, StopPlay, Admit
  <2>2. step' \in [Calls -> Steps] /\ at' \in [Calls -> Instants]
        BY <1>1 DEF Start, LockUser, StopPlay, Admit
  <2>3. QED BY <2>1, <2>2 DEF scheduleVars
<1>2. ASSUME NEW c \in Calls, NEW win \in BOOLEAN, Settle(c, win)
      PROVE  TypeOK'
  <2> DEFINE due == IF Free[c] THEN 0 ELSE Stake[c]
             back == IF win THEN Win[c] ELSE 0
  <2>1. /\ rounds' = rounds \cup {c}
        /\ policy' = [policy EXCEPT ![c] = PolicyAt(at[c])]
        /\ won' = [won EXCEPT ![c] = win]
        /\ balance' = [balance EXCEPT ![User[c]] = @ - due + back]
        /\ step' = [step EXCEPT ![c] = "over"]
        /\ UNCHANGED <<clock, at, scheduleVars>>
        BY <1>2 DEF Settle
  <2>2. PolicyAt(at[c]) \in Schedules \cup {Fair}
        BY PolicyAtInstant
  <2>3. policy' \in [Calls -> Schedules \cup {Fair}]
        BY <2>1, <2>2
  <2>4. due \in Nat /\ back \in Nat /\ balance[User[c]] - due >= 0
        BY <1>2 DEF Settle, Affordable
  <2>5. balance[User[c]] - due + back \in Nat
        BY <2>4
  <2>6. balance' \in [Users -> Nat]
        BY <2>1, <2>5
  <2>7. QED BY <2>1, <2>3, <2>6 DEF scheduleVars
<1>3. ASSUME NEW s \in Schedules, BeginWrite(s) \/ CommitCancel(s) \/ AbandonWrite(s)
      PROVE  TypeOK'
  <2>1. UNCHANGED <<clock, playVars, planned, starts, ends>>
        BY <1>3 DEF BeginWrite, CommitCancel, AbandonWrite
  <2>2. /\ writing' \subseteq Schedules /\ noted' \in [Schedules -> Instants]
        /\ cancelled' \subseteq planned /\ cancelledAt' \in [Schedules -> Instants]
        BY <1>3 DEF BeginWrite, CommitCancel, AbandonWrite, EndWrite
  <2>3. QED BY <2>1, <2>2 DEF playVars
<1>4. ASSUME NEW s \in Schedules, NEW w \in Windows, CommitCreate(s, w[1], w[2])
      PROVE  TypeOK'
  <2>1. UNCHANGED <<clock, playVars, cancelled, cancelledAt, noted>>
        BY <1>4 DEF CommitCreate
  <2>2. w[1] \in Instants /\ w[2] \in Instants
        OBVIOUS
  <2>3. EffectiveStart(w[1], noted[s]) \in Instants
        BY <2>2 DEF EffectiveStart
  <2>4. /\ planned' \subseteq Schedules /\ writing' \subseteq Schedules
        /\ starts' \in [Schedules -> Instants] /\ ends' \in [Schedules -> Instants]
        /\ cancelled' \subseteq planned'
        BY <1>4, <2>2, <2>3 DEF CommitCreate, EndWrite
  <2>5. QED BY <2>1, <2>4 DEF playVars
<1>5. ASSUME NEW u \in Users, NEW b \in 0..MaxBalance, OtherMove(u, b)
      PROVE  TypeOK'
      BY <1>5 DEF OtherMove, scheduleVars
<1>6. CASE Tick
      BY <1>6 DEF Tick, playVars, scheduleVars
<1>7. CASE UNCHANGED vars
      BY <1>7 DEF vars, playVars, scheduleVars
<1>8. QED BY <1>1, <1>2, <1>3, <1>4, <1>5, <1>6, <1>7 DEF Next, PlayStep, WriteStep

\* Steps of the schedules, the other components and the clock.
Aside ==
    /\ UNCHANGED <<rounds, policy, won, step, at>>
    /\ clock' \in Instants /\ clock <= clock'

LEMMA StepKinds ==
    ASSUME TypeOK, [Next]_vars
    PROVE  \/ \E c \in Calls : Start(c) \/ LockUser(c) \/ Admit(c) \/ StopPlay(c)
           \/ \E c \in Calls, win \in BOOLEAN : Settle(c, win)
           \/ Aside
<1> USE DEF Aside, TypeOK, Instants
<1>1. ASSUME NEW s \in Schedules, WriteStep(s)
      PROVE  Aside
      BY <1>1 DEF WriteStep, BeginWrite, CommitCreate, CommitCancel, AbandonWrite, playVars
<1>2. ASSUME NEW u \in Users, NEW b \in 0..MaxBalance, OtherMove(u, b)
      PROVE  Aside
      BY <1>2 DEF OtherMove
<1>3. CASE Tick
      BY <1>3, ConstantsAssumption DEF Tick, playVars
<1>4. CASE UNCHANGED vars
      BY <1>4 DEF vars, playVars
<1>5. QED BY <1>1, <1>2, <1>3, <1>4 DEF Next, PlayStep

\* The locks of the users keep their spins apart.
LEMMA PlayPreserved ==
    ASSUME TypeOK, PlayInv, [Next]_vars
    PROVE  PlayInv'
<1> USE ConstantsAssumption DEF TypeOK, Instants, Steps, Advance
<1>1. ASSUME NEW c \in Calls, Start(c)
      PROVE  PlayInv'
  <2>1. /\ step[c] = "idle" /\ step' = [step EXCEPT ![c] = step'[c]]
        /\ step'[c] \in {"over", "ready"} /\ UNCHANGED <<clock, rounds, at>>
        BY <1>1 DEF Start
  <2>2. QED BY <2>1 DEF PlayInv, HoldsUserLock
<1>2. ASSUME NEW c \in Calls, LockUser(c)
      PROVE  PlayInv'
  <2>1. /\ step[c] = "ready" /\ step' = [step EXCEPT ![c] = step'[c]]
        /\ step'[c] \in {"over", "locked"} /\ UNCHANGED <<clock, rounds, at>>
        /\ \A d \in Calls : User[d] = User[c] => ~HoldsUserLock(d)
        BY <1>2 DEF LockUser, UserFree
  <2>2. \A d \in Calls : HoldsUserLock(d)' => d = c \/ HoldsUserLock(d)
        BY <2>1 DEF HoldsUserLock
  <2>3. \A d \in Calls : step'[d] = "timed" => step[d] = "timed"
        BY <2>1
  <2>4. \A d \in rounds : step'[d] = "over"
        BY <2>1 DEF PlayInv
  <2>5. \A d, e \in Calls :
            User[d] = User[e] /\ HoldsUserLock(d)' /\ HoldsUserLock(e)' => d = e
        BY <2>1, <2>2 DEF PlayInv
  <2>6. QED BY <2>1, <2>3, <2>4, <2>5 DEF PlayInv
<1>3. ASSUME NEW c \in Calls, Admit(c)
      PROVE  PlayInv'
  <2>1. /\ step[c] = "locked" /\ step' = [step EXCEPT ![c] = "timed"]
        /\ at' = [at EXCEPT ![c] = clock] /\ UNCHANGED <<clock, rounds>>
        /\ \A d \in rounds : User[d] = User[c] => at[d] + Cooldown <= clock
        BY <1>3 DEF Admit, Rested
  <2>2. c \notin rounds
        BY <2>1 DEF PlayInv
  <2>3. \A d \in Calls : HoldsUserLock(d)' <=> HoldsUserLock(d)
        BY <2>1 DEF HoldsUserLock
  <2>4. \A d \in Calls : at'[d] <= clock
        BY <2>1 DEF PlayInv
  <2>5. \A d \in Calls, e \in rounds :
            step'[d] = "timed" /\ User[e] = User[d] => at'[e] + Cooldown <= at'[d]
        BY <2>1, <2>2 DEF PlayInv
  <2>6. \A d \in rounds : step'[d] = "over"
        BY <2>1, <2>2 DEF PlayInv
  <2>7. QED BY <2>1, <2>3, <2>4, <2>5, <2>6 DEF PlayInv
<1>4. ASSUME NEW c \in Calls, StopPlay(c)
      PROVE  PlayInv'
  <2>1. /\ step[c] # "over" /\ step' = [step EXCEPT ![c] = "over"]
        /\ at' = [at EXCEPT ![c] = 0] /\ UNCHANGED <<clock, rounds>>
        BY <1>4 DEF StopPlay
  <2>2. c \notin rounds
        BY <2>1 DEF PlayInv
  <2>3. QED BY <2>1, <2>2 DEF PlayInv, HoldsUserLock
<1>5. ASSUME NEW c \in Calls, NEW win \in BOOLEAN, Settle(c, win)
      PROVE  PlayInv'
  <2>1. /\ step[c] = "timed" /\ step' = [step EXCEPT ![c] = "over"]
        /\ rounds' = rounds \cup {c} /\ UNCHANGED <<clock, at>>
        BY <1>5 DEF Settle
  <2>2. \A d \in Calls : step'[d] = "timed" => step[d] = "timed" /\ User[d] # User[c]
        BY <2>1 DEF PlayInv, HoldsUserLock
  <2>3. \A d \in Calls : HoldsUserLock(d)' => HoldsUserLock(d)
        BY <2>1 DEF HoldsUserLock
  <2>4. QED BY <2>1, <2>2, <2>3 DEF PlayInv
<1>6. CASE Aside
      BY <1>6 DEF Aside, PlayInv, HoldsUserLock
<1>7. QED BY <1>1, <1>2, <1>3, <1>4, <1>5, <1>6, StepKinds

\* A new round is the first under its key and a cooldown after the others.
LEMMA RoundsPreserved ==
    ASSUME TypeOK, PlayInv, OneRoundPerKey, CooldownKept, [Next]_vars
    PROVE  OneRoundPerKey' /\ CooldownKept'
<1> USE ConstantsAssumption DEF TypeOK, Instants
<1>1. ASSUME NEW c \in Calls, NEW win \in BOOLEAN, Settle(c, win)
      PROVE  OneRoundPerKey' /\ CooldownKept'
  <2>1. /\ step[c] = "timed" /\ RoundOf(c) = {}
        /\ rounds' = rounds \cup {c} /\ UNCHANGED at
        BY <1>1 DEF Settle
  <2>2. \A d \in rounds : ~(User[d] = User[c] /\ Key[d] = Key[c])
        BY <2>1 DEF RoundOf
  <2>3. \A d \in rounds : User[d] = User[c] => at[d] + Cooldown <= at[c]
        BY <2>1 DEF PlayInv
  <2>4. OneRoundPerKey'
        BY <2>1, <2>2 DEF OneRoundPerKey
  <2>5. CooldownKept'
        BY <2>1, <2>3 DEF CooldownKept
  <2>6. QED BY <2>4, <2>5
<1>2. ASSUME UNCHANGED rounds, \A d \in rounds : at'[d] = at[d]
      PROVE  OneRoundPerKey' /\ CooldownKept'
      BY <1>2 DEF OneRoundPerKey, CooldownKept
<1>3. ASSUME NEW c \in Calls, Start(c) \/ LockUser(c) \/ Admit(c) \/ StopPlay(c)
      PROVE  OneRoundPerKey' /\ CooldownKept'
  <2>1. UNCHANGED rounds /\ (at' = at \/ at' = [at EXCEPT ![c] = at'[c]])
        BY <1>3 DEF Start, LockUser, Admit, StopPlay
  <2>2. step[c] # "over"
        BY <1>3 DEF Start, LockUser, Admit, StopPlay
  <2>3. c \notin rounds
        BY <2>2 DEF PlayInv
  <2>4. QED BY <1>2, <2>1, <2>3
<1>4. CASE Aside
      BY <1>2, <1>4 DEF Aside
<1>5. QED BY <1>1, <1>3, <1>4, StepKinds

\* Steps that leave the schedules, and what the rounds say of them, alone.
LEMMA ScheduleFrame ==
    ASSUME TypeOK, [Next]_vars,
           ~ \E c \in Calls, win \in BOOLEAN : Settle(c, win),
           ~ \E s \in Schedules : WriteStep(s)
    PROVE  /\ UNCHANGED <<rounds, policy, scheduleVars>>
           /\ clock <= clock' /\ \A c \in Calls : step[c] = "over" => at'[c] = at[c]
           /\ \A c \in Calls : step'[c] = "timed" => step[c] = "timed" \/ writing = {}
<1> USE DEF TypeOK, Instants, Steps, Advance
<1>1. ASSUME NEW c \in Calls, Start(c) \/ LockUser(c) \/ Admit(c) \/ StopPlay(c)
      PROVE  /\ UNCHANGED <<clock, rounds, policy, scheduleVars>>
             /\ \A d \in Calls : step[d] = "over" => at'[d] = at[d]
             /\ \A d \in Calls : step'[d] = "timed" => step[d] = "timed" \/ writing = {}
  <2>1. UNCHANGED <<clock, rounds, policy, scheduleVars>>
        BY <1>1 DEF Start, LockUser, Admit, StopPlay
  <2>2. step[c] # "over" /\ (at' = at \/ at' = [at EXCEPT ![c] = at'[c]])
        BY <1>1 DEF Start, LockUser, Admit, StopPlay
  <2>3. /\ step' = [step EXCEPT ![c] = step'[c]]
        /\ step'[c] = "timed" => writing = {}
        BY <1>1 DEF Start, LockUser, Admit, StopPlay, MayRead
  <2>4. QED BY <2>1, <2>2, <2>3
<1>2. ASSUME NEW u \in Users, NEW b \in 0..MaxBalance, OtherMove(u, b)
      PROVE  UNCHANGED <<clock, rounds, policy, step, at, scheduleVars>>
      BY <1>2 DEF OtherMove
<1>3. CASE Tick
      BY <1>3 DEF Tick, playVars
<1>4. CASE UNCHANGED vars
      BY <1>4 DEF vars, playVars
<1>5. QED BY <1>1, <1>2, <1>3, <1>4 DEF Next, PlayStep

\* The exclusive lock keeps schedule changes in the order of their instants.
LEMMA SchedulePreserved ==
    ASSUME TypeOK, OnePolicyAtATime, PlayInv, ScheduleInv, [Next]_vars
    PROVE  ScheduleInv'
<1> USE ConstantsAssumption DEF TypeOK, Instants
<1>1. ASSUME NEW s \in Schedules, BeginWrite(s)
      PROVE  ScheduleInv'
  <2>1. /\ writing = {} /\ writing' = {s} /\ \A c \in Calls : step[c] # "timed"
        /\ noted' = [noted EXCEPT ![s] = clock]
        /\ UNCHANGED <<clock, rounds, policy, step, at, planned, cancelled, cancelledAt>>
        BY <1>1 DEF BeginWrite, MayWrite, playVars
  <2>2. noted'[s] = clock
        BY <2>1
  <2>3. QED BY <2>1, <2>2 DEF ScheduleInv, PlayInv
<1>2. ASSUME NEW s \in Schedules, NEW w \in Windows, CommitCreate(s, w[1], w[2])
      PROVE  ScheduleInv'
      BY <1>2 DEF CommitCreate, EndWrite, ScheduleInv, playVars
<1>3. ASSUME NEW s \in Schedules, CommitCancel(s)
      PROVE  ScheduleInv'
  <2>1. /\ s \in writing /\ writing' = writing \ {s}
        /\ cancelled' = cancelled \cup {s}
        /\ cancelledAt' = [cancelledAt EXCEPT ![s] = noted[s]]
        /\ UNCHANGED <<clock, rounds, policy, step, at, planned, noted>>
        BY <1>3 DEF CommitCancel, EndWrite, playVars
  <2>2. writing' = {}
        BY <2>1 DEF ScheduleInv
  <2>3. \A r \in cancelled' : cancelledAt'[r] <= clock
        BY <2>1 DEF ScheduleInv
  <2>4. QED BY <2>1, <2>2, <2>3 DEF ScheduleInv
<1>4. ASSUME NEW s \in Schedules, AbandonWrite(s)
      PROVE  ScheduleInv'
      BY <1>4 DEF AbandonWrite, EndWrite, ScheduleInv, playVars
<1>5. ASSUME NEW c \in Calls, NEW win \in BOOLEAN, Settle(c, win)
      PROVE  ScheduleInv'
  <2>1. /\ step[c] = "timed" /\ step' = [step EXCEPT ![c] = "over"]
        /\ rounds' = rounds \cup {c}
        /\ policy' = [policy EXCEPT ![c] = PolicyAt(at[c])]
        /\ UNCHANGED <<clock, at, scheduleVars>>
        BY <1>5 DEF Settle, Advance
  <2>2. writing = {}
        BY <2>1 DEF ScheduleInv
  <2>3. PolicyAt(at[c]) \in planned \cup {Fair}
        BY PolicyAtInstant DEF InForce
  <2>4. QED BY <2>1, <2>2, <2>3 DEF ScheduleInv, scheduleVars
<1>6. CASE ~ (\E c \in Calls, win \in BOOLEAN : Settle(c, win)) /\ ~ \E s \in Schedules : WriteStep(s)
  <2>1. /\ UNCHANGED <<rounds, policy, scheduleVars>>
        /\ clock <= clock' /\ \A c \in Calls : step[c] = "over" => at'[c] = at[c]
        /\ \A c \in Calls : step'[c] = "timed" => step[c] = "timed" \/ writing = {}
        BY <1>6, ScheduleFrame
  <2>2. \A c \in rounds : at'[c] = at[c]
        BY <2>1 DEF PlayInv
  <2>3. clock' \in Nat
        BY <1>6, TypePreserved
  <2>4. QED BY <2>1, <2>2, <2>3 DEF ScheduleInv, scheduleVars
<1>7. QED BY <1>1, <1>2, <1>3, <1>4, <1>5, <1>6 DEF WriteStep

\* A schedule starts no earlier than now, where every cancelled one has ended.
LEMMA PolicyPreserved ==
    ASSUME TypeOK, ScheduleInv, OnePolicyAtATime, [Next]_vars
    PROVE  OnePolicyAtATime'
<1> USE ConstantsAssumption DEF TypeOK, Instants
<1>1. ASSUME NEW s \in Schedules, NEW w \in Windows, CommitCreate(s, w[1], w[2])
      PROVE  OnePolicyAtATime'
  <2> DEFINE from == EffectiveStart(w[1], noted[s])
  <2>1. /\ s \in writing /\ s \notin planned
        /\ planned' = planned \cup {s}
        /\ starts' = [starts EXCEPT ![s] = from] /\ ends' = [ends EXCEPT ![s] = w[2]]
        /\ UNCHANGED <<cancelled, cancelledAt>>
        /\ \A r \in Schedules : ~Overlaps(r, from, w[2])
        BY <1>1 DEF CommitCreate
  <2>2. from \in Nat /\ w[2] \in Nat /\ from >= noted[s]
        BY DEF EffectiveStart
  <2>3. \A r \in Schedules, t \in Instants : r # s => (InForce(r, t)' <=> InForce(r, t))
        BY <2>1 DEF InForce
  <2>4. \A t \in Instants : InForce(s, t)' => from <= t /\ t < w[2]
        BY <2>1 DEF InForce
  <2>5. ASSUME NEW r \in Schedules, r # s, NEW t \in Instants, InForce(s, t)', InForce(r, t)
        PROVE  FALSE
    <3>1. from <= t /\ t < w[2]
          BY <2>4, <2>5
    <3>2. CASE r \in cancelled
          BY <2>1, <2>2, <2>5, <3>1, <3>2 DEF ScheduleInv, InForce
    <3>3. CASE r \notin cancelled
          BY <2>1, <2>2, <2>5, <3>1, <3>3 DEF InForce, Overlaps
    <3>4. QED BY <3>2, <3>3
  <2>6. QED BY <2>3, <2>5 DEF OnePolicyAtATime
<1>2. ASSUME NEW s \in Schedules, CommitCancel(s)
      PROVE  OnePolicyAtATime'
  <2>1. /\ s \notin cancelled /\ cancelled' = cancelled \cup {s}
        /\ cancelledAt' = [cancelledAt EXCEPT ![s] = noted[s]]
        /\ UNCHANGED <<planned, starts, ends>>
        BY <1>2 DEF CommitCancel
  <2>2. \A r \in Schedules, t \in Instants : InForce(r, t)' => InForce(r, t)
        BY <2>1 DEF InForce
  <2>3. QED BY <2>2 DEF OnePolicyAtATime
<1>3. ASSUME UNCHANGED <<planned, starts, ends, cancelled, cancelledAt>>
      PROVE  OnePolicyAtATime'
      BY <1>3 DEF OnePolicyAtATime, InForce
<1>4. ASSUME NEW s \in Schedules, BeginWrite(s) \/ AbandonWrite(s)
      PROVE  OnePolicyAtATime'
      BY <1>3, <1>4 DEF BeginWrite, AbandonWrite
<1>5. ASSUME NEW c \in Calls, NEW win \in BOOLEAN, Settle(c, win)
      PROVE  OnePolicyAtATime'
      BY <1>3, <1>5 DEF Settle, scheduleVars
<1>6. CASE ~ (\E c \in Calls, win \in BOOLEAN : Settle(c, win)) /\ ~ \E s \in Schedules : WriteStep(s)
      BY <1>3, <1>6, ScheduleFrame DEF scheduleVars
<1>7. QED BY <1>1, <1>2, <1>4, <1>5, <1>6 DEF WriteStep

\* One round's share of RoundUsesPolicyInForce.
Justified(c) ==
    /\ policy[c] # Fair =>
           /\ starts[policy[c]] <= at[c] /\ at[c] < ends[policy[c]]
           /\ policy[c] \in cancelled => at[c] <= cancelledAt[policy[c]]
    /\ \A s \in Schedules : InForce(s, at[c]) /\ starts[s] < at[c] => policy[c] = s

\* A change of the schedules is later than every stored round.
LEMMA JustifiedPreserved ==
    ASSUME TypeOK, PlayInv, ScheduleInv, OnePolicyAtATime, RoundUsesPolicyInForce, [Next]_vars
    PROVE  RoundUsesPolicyInForce'
<1> USE ConstantsAssumption DEF TypeOK, Instants
<1>1. ASSUME NEW c \in rounds
      PROVE  Justified(c)
      BY <1>1 DEF RoundUsesPolicyInForce, Justified
<1>2. ASSUME UNCHANGED <<rounds, policy>>, \A c \in rounds : at'[c] = at[c],
             UNCHANGED <<planned, starts, ends, cancelled, cancelledAt>>
      PROVE  RoundUsesPolicyInForce'
      BY <1>2 DEF RoundUsesPolicyInForce, InForce
<1>3. ASSUME NEW c \in Calls, NEW win \in BOOLEAN, Settle(c, win)
      PROVE  RoundUsesPolicyInForce'
  <2>1. /\ rounds' = rounds \cup {c} /\ step[c] = "timed"
        /\ policy' = [policy EXCEPT ![c] = PolicyAt(at[c])]
        /\ UNCHANGED <<at, planned, starts, ends, cancelled, cancelledAt>>
        BY <1>3 DEF Settle, scheduleVars
  <2>2. PICK p \in Schedules \cup {Fair} : p = PolicyAt(at[c])
        BY PolicyAtInstant
  <2>3. policy'[c] = p
        BY <2>1, <2>2
  <2>4. p # Fair => InForce(p, at[c])
        BY <2>2, PolicyAtInstant
  <2>5. p # Fair =>
            /\ starts[p] <= at[c] /\ at[c] < ends[p]
            /\ p \in cancelled => at[c] <= cancelledAt[p]
        BY <2>2, <2>4 DEF InForce
  <2>6. \A s \in Schedules : InForce(s, at[c]) => p = s
        BY <2>2, PolicyAtInstant
  <2>7. Justified(c)'
        BY <2>1, <2>3, <2>5, <2>6 DEF Justified, InForce
  <2>8. ASSUME NEW d \in rounds, d # c
        PROVE  Justified(d)'
    <3>1. policy'[d] = policy[d]
          BY <2>1, <2>8
    <3>2. QED BY <1>1, <2>1, <3>1 DEF Justified, InForce
  <2>9. QED BY <2>1, <2>7, <2>8 DEF RoundUsesPolicyInForce, Justified
<1>4. ASSUME NEW s \in Schedules, NEW w \in Windows, CommitCreate(s, w[1], w[2]),
             NEW c \in rounds
      PROVE  Justified(c)'
  <2> DEFINE from == EffectiveStart(w[1], noted[s])
  <2>1. /\ s \in writing /\ s \notin planned
        /\ planned' = planned \cup {s}
        /\ starts' = [starts EXCEPT ![s] = from] /\ ends' = [ends EXCEPT ![s] = w[2]]
        /\ UNCHANGED <<cancelled, cancelledAt, policy, at>>
        BY <1>4 DEF CommitCreate, playVars
  <2>2. from \in Nat /\ from >= noted[s]
        BY DEF EffectiveStart
  <2>3. at[c] <= noted[s]
        BY <2>1 DEF ScheduleInv
  <2>4. starts'[s] = from /\ ~(from < at[c])
        BY <2>1, <2>2, <2>3
  <2>5. policy[c] # s
        BY <2>1 DEF ScheduleInv
  <2>6. PICK p \in Schedules \cup {Fair} : p = policy[c]
        OBVIOUS
  <2>7. p # Fair => starts'[p] = starts[p] /\ ends'[p] = ends[p]
        BY <2>1, <2>5, <2>6
  <2>8. \A r \in Schedules : r # s =>
            (InForce(r, at[c])' <=> InForce(r, at[c])) /\ starts'[r] = starts[r]
        BY <2>1 DEF InForce
  <2>9. QED BY <1>1, <2>1, <2>4, <2>6, <2>7, <2>8 DEF Justified
<1>5. ASSUME NEW s \in Schedules, CommitCancel(s), NEW c \in rounds
      PROVE  Justified(c)'
  <2>1. /\ s \in writing /\ s \notin cancelled /\ cancelled' = cancelled \cup {s}
        /\ cancelledAt' = [cancelledAt EXCEPT ![s] = noted[s]]
        /\ UNCHANGED <<planned, starts, ends, policy, at>>
        BY <1>5 DEF CommitCancel, playVars
  <2>2. at[c] <= noted[s] /\ cancelledAt'[s] = noted[s]
        BY <2>1 DEF ScheduleInv
  <2>3. \A r \in Schedules : InForce(r, at[c])' => InForce(r, at[c])
        BY <2>1 DEF InForce
  <2>4. \A r \in cancelled : cancelledAt'[r] = cancelledAt[r]
        BY <2>1
  <2>5. QED BY <1>1, <2>1, <2>2, <2>3, <2>4 DEF Justified
<1>6. ASSUME NEW s \in Schedules, WriteStep(s)
      PROVE  RoundUsesPolicyInForce'
  <2>1. UNCHANGED <<rounds, policy, at>>
        BY <1>6 DEF WriteStep, BeginWrite, CommitCreate, CommitCancel, AbandonWrite, playVars
  <2>2. CASE BeginWrite(s) \/ AbandonWrite(s)
        BY <1>2, <2>1, <2>2 DEF BeginWrite, AbandonWrite
  <2>3. CASE ~(BeginWrite(s) \/ AbandonWrite(s))
        BY <1>4, <1>5, <1>6, <2>1, <2>3 DEF WriteStep, RoundUsesPolicyInForce, Justified
  <2>4. QED BY <2>2, <2>3
<1>7. CASE ~ (\E c \in Calls, win \in BOOLEAN : Settle(c, win)) /\ ~ \E s \in Schedules : WriteStep(s)
  <2>1. /\ UNCHANGED <<rounds, policy, scheduleVars>>
        /\ \A c \in Calls : step[c] = "over" => at'[c] = at[c]
        BY <1>7, ScheduleFrame
  <2>2. QED BY <1>2, <2>1 DEF PlayInv, scheduleVars
<1>8. QED BY <1>3, <1>6, <1>7

LEMMA InitInvariant == Init => IInv
  BY ConstantsAssumption
     DEF Init, IInv, TypeOK, PlayInv, ScheduleInv, OneRoundPerKey, CooldownKept,
         OnePolicyAtATime, RoundUsesPolicyInForce, InForce, Instants, Steps, HoldsUserLock

\* A day is the time from its start (dailyUsage).
LEMMA SameDay ==
    ASSUME NEW a \in Nat, NEW t \in Nat, a <= t, NEW n \in Nat \ {0}
    PROVE  a >= (t \div n) * n <=> a \div n = t \div n
<1> DEFINE q == t \div n
           p == a \div n
<1>1. q \in Int /\ p \in Int /\ t = q * n + (t % n) /\ t % n \in 0..n - 1 /\ a = p * n + (a % n) /\ a % n \in 0..n - 1
      OBVIOUS
<1> DEFINE r == t % n
           s == a % n
<1>2. q \in Int /\ p \in Int /\ t = q * n + r /\ a = p * n + s /\ r \in 0..n - 1 /\ s \in 0..n - 1
      BY <1>1
<1> HIDE DEF p, q, r, s
<1>3. CASE p = q
      BY <1>2, <1>3 DEF p, q
<1>4. CASE p < q
  <2>1. p + 1 <= q /\ (p + 1) * n <= q * n
        BY <1>2, <1>4
  <2>2. (p + 1) * n = p * n + n
        BY <1>2
  <2>3. p * n \in Int /\ q * n \in Int /\ n \in Int
        BY <1>2
  <2>4. a < q * n
        BY <1>2, <2>1, <2>2, <2>3
  <2>5. QED BY <1>2, <1>4, <2>3, <2>4 DEF p, q
<1>5. CASE p > q
  <2>1. q + 1 <= p /\ (q + 1) * n <= p * n
        BY <1>2, <1>5
  <2>2. (q + 1) * n = q * n + n
        BY <1>2
  <2>3. p * n \in Int /\ q * n \in Int /\ n \in Int
        BY <1>2
  <2>4. t < a
        BY <1>2, <2>1, <2>2, <2>3
  <2>5. QED BY <1>2, <2>4
<1>6. QED BY <1>2, <1>3, <1>4, <1>5

-------------------------------------------------------------------------------
\* What is credited to a set of rounds.  The sum is a recursive function under CHOOSE; it is
\* the number of coins the rounds pay, so that facts about cardinalities are facts about it.

\* Induction over the subsets of a finite set.
LEMMA SubsetInduction ==
    ASSUME NEW S, IsFiniteSet(S), NEW G,
           \A T \in SUBSET S : (\A U \in (SUBSET T) \ {T} : U \in G) => T \in G
    PROVE  \A T \in SUBSET S : T \in G
<1> DEFINE Bad == (SUBSET S) \ G
           R == StrictSubsetOrdering(S)
<1> SUFFICES ASSUME Bad # {} PROVE FALSE
    OBVIOUS
<1>1. IsWellFoundedOn(R, SUBSET S)
  <2>1. FiniteSubsetsOf(S) = SUBSET S
        BY FS_Subset DEF FiniteSubsetsOf
  <2>2. IsWellFoundedOn(StrictSubsetOrdering(S), FiniteSubsetsOf(S))
        BY FS_StrictSubsetOrderingWellFounded
  <2>3. QED BY <2>1, <2>2, Zenon
<1>2. PICK T \in Bad : \A U \in Bad : ~ (<<U, T>> \in R)
  <2>1. Bad \subseteq SUBSET S
        OBVIOUS
  <2> HIDE DEF Bad, R
  <2>2. QED BY <1>1, <2>1, WFMin
<1>3. \A U \in (SUBSET T) \ {T} : U \in G
      BY <1>2 DEF StrictSubsetOrdering
<1>4. QED BY <1>2, <1>3

Pays(w, d) == IF w[d] THEN Win[d] ELSE 0
CreditedBy(w, T) == MapThenSumSet(LAMBDA d : IF w[d] THEN Win[d] ELSE 0, T)
Coins(w, T) == {p \in T \X Nat : p[2] >= 1 /\ p[2] <= Pays(w, p[1])}

LEMMA CoinsMore ==
    ASSUME NEW w, NEW T, IsFiniteSet(Coins(w, T)), NEW x, x \notin T, Pays(w, x) \in Nat
    PROVE  IsFiniteSet(Coins(w, T \cup {x})) /\ Cardinality(Coins(w, T \cup {x})) = Cardinality(Coins(w, T)) + Pays(w, x)
<1> DEFINE New == {x} \X (1..Pays(w, x))
<1>1. Coins(w, T \cup {x}) = Coins(w, T) \cup New /\ Coins(w, T) \cap New = {}
      BY DEF Coins
<1>2. IsFiniteSet(1..Pays(w, x)) /\ Cardinality(1..Pays(w, x)) = Pays(w, x)
      BY FS_Interval
<1>3. IsFiniteSet({x}) /\ Cardinality({x}) = 1
      BY FS_Singleton
<1>4. IsFiniteSet(New) /\ Cardinality(New) = Pays(w, x)
      BY <1>2, <1>3, FS_Product
<1> HIDE DEF New
<1>5. Cardinality({}) = 0 /\ Cardinality(Coins(w, T)) \in Nat
      BY FS_EmptySet, FS_CardinalityType
<1>6. /\ IsFiniteSet(Coins(w, T) \cup New)
      /\ Cardinality(Coins(w, T) \cup New) = Cardinality(Coins(w, T)) + Pays(w, x) - Cardinality(Coins(w, T) \cap New)
      BY <1>4, FS_Union
<1>7. Cardinality(Coins(w, T) \cap New) = 0
      BY <1>1, <1>5, Zenon
<1>8. Cardinality(Coins(w, T) \cup New) = Cardinality(Coins(w, T)) + Pays(w, x)
      BY <1>5, <1>6, <1>7
<1>9. QED BY <1>1, <1>6, <1>8, Zenon

\* The sum is well defined, whichever round it takes first.
LEMMA CreditedIs ==
    ASSUME NEW w, NEW S, IsFiniteSet(S), \A d \in S : Pays(w, d) \in Nat
    PROVE  IsFiniteSet(Coins(w, S)) /\ CreditedBy(w, S) = Cardinality(Coins(w, S))
<1> DEFINE G == {T \in SUBSET S : IsFiniteSet(Coins(w, T))}
           chosen(s) == CHOOSE x \in s : TRUE
           F == [s \in SUBSET S |-> Cardinality(Coins(w, s))]
           Rec(f) == [s \in SUBSET S |-> IF s = {} THEN 0 ELSE Pays(w, chosen(s)) + f[s \ {chosen(s)}]]
           sum == CHOOSE f : f = Rec(f)
           H == {T \in SUBSET S : sum[T] = Cardinality(Coins(w, T))}
<1>1. IsFiniteSet(Coins(w, {})) /\ Cardinality(Coins(w, {})) = 0
      BY FS_EmptySet DEF Coins
<1>2. ASSUME NEW s \in SUBSET S, s # {}
      PROVE  /\ chosen(s) \in s
             /\ s \ {chosen(s)} \in (SUBSET s) \ {s}
             /\ s \ {chosen(s)} \in SUBSET S
             /\ s = (s \ {chosen(s)}) \cup {chosen(s)}
      BY <1>2
<1>3. \A T \in SUBSET S : T \in G
  <2> SUFFICES ASSUME NEW T \in SUBSET S, \A U \in (SUBSET T) \ {T} : U \in G
               PROVE  T \in G
      <3> HIDE DEF G
      <3> QED BY SubsetInduction
  <2>1. CASE T = {}
        BY <1>1, <2>1
  <2>2. CASE T # {}
    <3>1. IsFiniteSet(Coins(w, T \ {chosen(T)}))
          BY <1>2, <2>2
    <3> HIDE DEF chosen
    <3>2. IsFiniteSet(Coins(w, (T \ {chosen(T)}) \cup {chosen(T)}))
          BY <1>2, <2>2, <3>1, CoinsMore
    <3>3. QED BY <1>2, <2>2, <3>2
  <2>3. QED BY <2>1, <2>2
<1>4. ASSUME NEW s \in SUBSET S, s # {}
      PROVE  Cardinality(Coins(w, s)) = Pays(w, chosen(s)) + Cardinality(Coins(w, s \ {chosen(s)}))
  <2>1. IsFiniteSet(Coins(w, s \ {chosen(s)})) /\ Cardinality(Coins(w, s \ {chosen(s)})) \in Nat
        BY <1>2, <1>3, <1>4, FS_CardinalityType
  <2> HIDE DEF chosen
  <2>2. Cardinality(Coins(w, (s \ {chosen(s)}) \cup {chosen(s)})) = Cardinality(Coins(w, s \ {chosen(s)})) + Pays(w, chosen(s))
        BY <1>2, <1>4, <2>1, CoinsMore
  <2>3. Coins(w, s) = Coins(w, (s \ {chosen(s)}) \cup {chosen(s)}) /\ Pays(w, chosen(s)) \in Nat
        BY <1>2, <1>4, Zenon
  <2>4. QED BY <2>1, <2>2, <2>3
<1>5. F = Rec(F)
  <2> HIDE DEF chosen
  <2>1. ASSUME NEW s \in SUBSET S
        PROVE  F[s] = IF s = {} THEN 0 ELSE Pays(w, chosen(s)) + F[s \ {chosen(s)}]
    <3>1. CASE s = {}
          BY <1>1, <3>1
    <3>2. CASE s # {}
          BY <1>2, <1>4, <3>2
    <3>3. QED BY <3>1, <3>2
  <2>2. QED BY <2>1
<1>6. sum = Rec(sum)
      BY <1>5
<1>7. \A T \in SUBSET S : T \in H
  <2> HIDE DEF sum, chosen
  <2> SUFFICES ASSUME NEW T \in SUBSET S, \A U \in (SUBSET T) \ {T} : U \in H
               PROVE  T \in H
      <3> HIDE DEF H
      <3> QED BY SubsetInduction
  <2>1. sum[T] = IF T = {} THEN 0 ELSE Pays(w, chosen(T)) + sum[T \ {chosen(T)}]
        BY <1>6
  <2>2. CASE T = {}
        BY <1>1, <2>1, <2>2
  <2>3. CASE T # {}
        BY <1>2, <1>4, <2>1, <2>3
  <2>4. QED BY <2>2, <2>3
<1>8. CreditedBy(w, S) = sum[S]
      BY DEF CreditedBy, MapThenSumSet, MapThenFoldSet, Pays
<1>9. QED BY <1>3, <1>7, <1>8

\* A round more adds what it pays; outcomes that stay the same pay the same.
LEMMA CreditedMore ==
    ASSUME NEW w, NEW day, IsFiniteSet(day), NEW c, c \notin day, \A d \in day \cup {c} : Pays(w, d) \in Nat
    PROVE  CreditedBy(w, day \cup {c}) = CreditedBy(w, day) + Pays(w, c) /\ CreditedBy(w, day) \in Nat
<1>1. IsFiniteSet(day \cup {c})
      BY FS_AddElement
<1>2. IsFiniteSet(Coins(w, day)) /\ CreditedBy(w, day) = Cardinality(Coins(w, day))
      BY CreditedIs
<1>3. CreditedBy(w, day \cup {c}) = Cardinality(Coins(w, day \cup {c}))
      BY <1>1, CreditedIs
<1>4. Cardinality(Coins(w, day \cup {c})) = Cardinality(Coins(w, day)) + Pays(w, c)
      BY <1>2, CoinsMore
<1>5. QED BY <1>2, <1>3, <1>4, FS_CardinalityType

LEMMA CreditedSame ==
    ASSUME NEW w, NEW v, NEW day, IsFiniteSet(day), \A d \in day : Pays(w, d) \in Nat,
           \A d \in day : v[d] = w[d]
    PROVE  CreditedBy(v, day) = CreditedBy(w, day)
<1>1. \A d \in day : Pays(v, d) = Pays(w, d)
      BY DEF Pays
<1>2. Coins(v, day) = Coins(w, day)
      BY <1>1 DEF Coins
<1>3. QED BY <1>1, <1>2, CreditedIs

LEMMA CreditedMeans ==
    ASSUME TypeOK
    PROVE  /\ \A S : Credited(S) = CreditedBy(won, S)
           /\ \A d \in Calls : Pays(won, d) \in Nat /\ Pays(won, d) <= Win[d] /\ Win[d] \in Nat
<1>1. \A S : Credited(S) = CreditedBy(won, S)
      BY Zenon DEF Credited, CreditedBy
<1>2. QED BY <1>1, ConstantsAssumption DEF TypeOK, Pays

\* The limits of games, of the one day that counts.
DayOf(c) == RoundsOn(User[c], at[c] \div DayLength)
Like(c, day) == {d \in day : Free[d] = Free[c]}
LimitOf(c) == IF Free[c] THEN FreePerDay ELSE MaxPaid

\* What a spin was admitted on is still so when it settles: its user's lock keeps the
\* others out.
DayInv ==
    /\ IsFiniteSet(rounds)
    /\ GamesWithinDay
    /\ \A c \in Calls : step[c] = "timed" =>
           Cardinality(DayOf(c)) < MaxGames /\ Cardinality(Like(c, DayOf(c))) < LimitOf(c)

\* A set of rounds keeps its limits with one round more.
WithinDay(day) ==
    /\ Cardinality(day) <= MaxGames
    /\ Cardinality({c \in day : Free[c]}) <= FreePerDay
    /\ Cardinality({c \in day : ~Free[c]}) <= MaxPaid

LEMMA GamesMeans == GamesWithinDay <=> \A u \in Users, t \in Instants : WithinDay(RoundsOn(u, t \div DayLength))
BY DEF GamesWithinDay, WithinDay

LEMMA GamesMeansNext == GamesWithinDay' <=> \A u \in Users, t \in Instants : WithinDay(RoundsOn(u, t \div DayLength)')
BY DEF GamesWithinDay, WithinDay

LEMMA OneMore ==
    ASSUME NEW S, IsFiniteSet(S), NEW x
    PROVE  Cardinality(S \cup {x}) <= Cardinality(S) + 1 /\ Cardinality(S) \in Nat /\ Cardinality(S \cup {x}) \in Nat
<1>1. Cardinality(S) \in Nat /\ IsFiniteSet(S \cup {x})
      BY FS_CardinalityType, FS_AddElement
<1>2. Cardinality(S \cup {x}) = IF x \in S THEN Cardinality(S) ELSE Cardinality(S) + 1
  <2>1. CASE x \in S
    <3>1. S \cup {x} = S
          BY <2>1
    <3>2. QED BY <2>1, <3>1
  <2>2. CASE x \notin S
        BY <2>2, FS_AddElement
  <2>3. QED BY <2>1, <2>2
<1>3. QED BY <1>1, <1>2

LEMMA OneRoundMore ==
    ASSUME NEW day, IsFiniteSet(day), day \subseteq Calls, NEW c \in Calls, WithinDay(day),
           Cardinality(day) < MaxGames, Cardinality(Like(c, day)) < LimitOf(c)
    PROVE  WithinDay(day \cup {c})
<1> DEFINE free == {d \in day : Free[d]}
           charged == {d \in day : ~Free[d]}
<1>1. /\ MaxGames \in Nat /\ FreePerDay \in Nat /\ MaxPaid \in Nat /\ Free[c] \in BOOLEAN
      /\ \A d \in day : Free[d] \in BOOLEAN
      BY ConstantsAssumption
<1>2. IsFiniteSet(free) /\ IsFiniteSet(charged)
  <2>1. free \subseteq day /\ charged \subseteq day
        OBVIOUS
  <2>2. QED BY <2>1, FS_Subset, Zenon
<1>3. /\ Cardinality(day \cup {c}) <= Cardinality(day) + 1 /\ Cardinality(day) \in Nat /\ Cardinality(day \cup {c}) \in Nat
      /\ Cardinality(free \cup {c}) <= Cardinality(free) + 1 /\ Cardinality(free) \in Nat /\ Cardinality(free \cup {c}) \in Nat
      /\ Cardinality(charged \cup {c}) <= Cardinality(charged) + 1 /\ Cardinality(charged) \in Nat /\ Cardinality(charged \cup {c}) \in Nat
      BY <1>2, OneMore, Zenon
<1>4. /\ Cardinality(day) <= MaxGames /\ Cardinality(free) <= FreePerDay /\ Cardinality(charged) <= MaxPaid
      BY DEF WithinDay
<1>5. Cardinality(day \cup {c}) <= MaxGames
      BY <1>1, <1>3
<1>6. CASE Free[c]
  <2>1. Like(c, day) = free
        BY <1>1, <1>6 DEF Like
  <2>2. {d \in day \cup {c} : Free[d]} = free \cup {c} /\ {d \in day \cup {c} : ~Free[d]} = charged
        BY <1>6
  <2>3. Cardinality(free) < FreePerDay
        BY <1>6, <2>1 DEF LimitOf
  <2> HIDE DEF free, charged
  <2>4. Cardinality(free \cup {c}) <= FreePerDay
        BY <1>1, <1>3, <2>3
  <2>5. QED BY <1>4, <1>5, <2>2, <2>4 DEF WithinDay
<1>7. CASE ~Free[c]
  <2>1. Like(c, day) = charged
        BY <1>1, <1>7 DEF Like
  <2>2. {d \in day \cup {c} : ~Free[d]} = charged \cup {c} /\ {d \in day \cup {c} : Free[d]} = free
        BY <1>7
  <2>3. Cardinality(charged) < MaxPaid
        BY <1>7, <2>1 DEF LimitOf
  <2> HIDE DEF free, charged
  <2>4. Cardinality(charged \cup {c}) <= MaxPaid
        BY <1>1, <1>3, <2>3
  <2>5. QED BY <1>4, <1>5, <2>2, <2>4 DEF WithinDay
<1>8. QED BY <1>6, <1>7

\* Steps that store no round and admit no spin.
LEMMA DayKept ==
    ASSUME DayInv, rounds' = rounds, \A d \in rounds : at'[d] = at[d],
           \A d \in Calls : step'[d] = "timed" => step[d] = "timed" /\ at'[d] = at[d]
    PROVE  DayInv'
<1>1. \A u, day : RoundsOn(u, day)' = RoundsOn(u, day)
      BY DEF RoundsOn
<1>2. GamesWithinDay'
      BY <1>1, GamesMeans, GamesMeansNext DEF DayInv
<1>3. \A c \in Calls : step'[c] = "timed" => DayOf(c)' = DayOf(c)
      BY <1>1 DEF DayOf
<1>4. \A c, day : Like(c, day)' = Like(c, day)
      BY DEF Like
<1>5. QED BY <1>2, <1>3, <1>4 DEF DayInv, Like, LimitOf

\* What an admission and a settlement leave of the days of the users.
LEMMA AdmittedDay ==
    ASSUME TypeOK, PlayInv, NEW c \in Calls, Admit(c)
    PROVE  /\ \A u, day : RoundsOn(u, day)' = RoundsOn(u, day)
           /\ DayOf(c)' = Today(c)
<1> USE ConstantsAssumption
<1>1. /\ rounds \subseteq Calls /\ at \in [Calls -> Nat] /\ clock \in Nat /\ DayLength \in Nat \ {0}
      BY DEF TypeOK, Instants
<1>2. step[c] = "locked" /\ at' = [at EXCEPT ![c] = clock] /\ rounds' = rounds
      BY DEF Admit
<1>3. c \notin rounds
      BY <1>2 DEF PlayInv
<1>4. \A d \in rounds : at'[d] = at[d]
      BY <1>1, <1>2, <1>3
<1>5. \A u, day : RoundsOn(u, day)' = RoundsOn(u, day)
      BY <1>2, <1>4 DEF RoundsOn
<1>6. \A d \in rounds : at[d] \in Nat /\ at[d] <= clock
      BY <1>1 DEF PlayInv
<1>7. \A d \in rounds : at[d] >= DayStart(clock) <=> at[d] \div DayLength = clock \div DayLength
      BY <1>1, <1>6, SameDay DEF DayStart
<1>8. DayOf(c)' = RoundsOn(User[c], clock \div DayLength)
      BY <1>1, <1>2, <1>5 DEF DayOf
<1>9. QED BY <1>5, <1>7, <1>8 DEF RoundsOn, Today

LEMMA SettledDay ==
    ASSUME NEW c \in Calls, NEW win \in BOOLEAN, Settle(c, win), NEW u, NEW day
    PROVE  RoundsOn(u, day)' = IF u = User[c] /\ day = at[c] \div DayLength THEN RoundsOn(u, day) \cup {c} ELSE RoundsOn(u, day)
BY DEF Settle, Advance, RoundsOn

LEMMA DayPreserved ==
    ASSUME TypeOK, PlayInv, DayInv, [Next]_vars
    PROVE  DayInv'
<1> USE ConstantsAssumption
<1>1. /\ rounds \subseteq Calls /\ at \in [Calls -> Nat] /\ clock \in Nat /\ step \in [Calls -> Steps]
      /\ DayLength \in Nat \ {0}
      BY DEF TypeOK, Instants
<1>2. ASSUME NEW c \in Calls, Start(c) \/ LockUser(c) \/ StopPlay(c) PROVE DayInv'
  <2>1. /\ rounds' = rounds /\ step[c] # "over" /\ step' = [step EXCEPT ![c] = step'[c]] /\ step'[c] # "timed"
        /\ at' = at \/ at' = [at EXCEPT ![c] = 0]
        BY <1>1, <1>2 DEF Start, LockUser, StopPlay, Advance
  <2>2. c \notin rounds
        BY <2>1 DEF PlayInv
  <2>3. QED BY <1>1, <2>1, <2>2, DayKept
<1>3. CASE Aside
      BY <1>3, DayKept DEF Aside
<1>4. ASSUME NEW c \in Calls, Admit(c) PROVE DayInv'
  <2>1. /\ step[c] = "locked" /\ step' = [step EXCEPT ![c] = "timed"] /\ WithinLimits(c)
        /\ at' = [at EXCEPT ![c] = clock] /\ rounds' = rounds
        BY <1>4 DEF Admit, Advance
  <2>4. \A u, day : RoundsOn(u, day)' = RoundsOn(u, day)
        BY <1>4, AdmittedDay
  <2>5. GamesWithinDay'
        BY <2>4, GamesMeans, GamesMeansNext DEF DayInv
  <2>6. DayOf(c)' = Today(c)
        BY <1>4, AdmittedDay
  <2>7. Cardinality(DayOf(c)') < MaxGames /\ Cardinality(Like(c, DayOf(c)')) < LimitOf(c)
        BY <2>1, <2>6, Zenon DEF WithinLimits, Like, LimitOf
  <2>8. ASSUME NEW d \in Calls, step'[d] = "timed"
        PROVE  Cardinality(DayOf(d)') < MaxGames /\ Cardinality(Like(d, DayOf(d)')) < LimitOf(d)
    <3>1. CASE d = c
          BY <2>7, <3>1
    <3>2. CASE d # c
      <4>1. step[d] = "timed" /\ at'[d] = at[d]
            BY <1>1, <2>1, <2>8, <3>2
      <4>2. DayOf(d)' = DayOf(d)
            BY <2>4, <4>1 DEF DayOf
      <4>3. QED BY <4>1, <4>2 DEF DayInv
    <3>3. QED BY <3>1, <3>2
  <2>9. QED BY <2>1, <2>5, <2>8 DEF DayInv, Like, LimitOf
<1>5. ASSUME NEW c \in Calls, NEW win \in BOOLEAN, Settle(c, win) PROVE DayInv'
  <2>1. /\ step[c] = "timed" /\ step' = [step EXCEPT ![c] = "over"]
        /\ rounds' = rounds \cup {c} /\ at' = at
        BY <1>5 DEF Settle, Advance
  <2>2. ASSUME NEW u, NEW day
        PROVE  RoundsOn(u, day)' = IF u = User[c] /\ day = at[c] \div DayLength THEN RoundsOn(u, day) \cup {c} ELSE RoundsOn(u, day)
        BY <1>5, SettledDay
  <2>3. Cardinality(DayOf(c)) < MaxGames /\ Cardinality(Like(c, DayOf(c))) < LimitOf(c)
        BY <2>1 DEF DayInv
  <2>4. IsFiniteSet(rounds') /\ \A u, day : RoundsOn(u, day) \subseteq Calls /\ IsFiniteSet(RoundsOn(u, day))
    <3>1. IsFiniteSet(rounds \cup {c})
          BY FS_AddElement DEF DayInv
    <3>2. \A u, day : RoundsOn(u, day) \subseteq rounds
          BY DEF RoundsOn
    <3>3. QED BY <1>1, <2>1, <3>1, <3>2, FS_Subset DEF DayInv
  <2>5. ASSUME NEW u \in Users, NEW t \in Instants
        PROVE  WithinDay(RoundsOn(u, t \div DayLength)')
    <3>1. WithinDay(RoundsOn(u, t \div DayLength))
          BY GamesMeans DEF DayInv
    <3>2. CASE u = User[c] /\ t \div DayLength = at[c] \div DayLength
      <4>1. RoundsOn(u, t \div DayLength)' = DayOf(c) \cup {c} /\ WithinDay(DayOf(c))
            BY <2>2, <3>1, <3>2 DEF DayOf
      <4>2. DayOf(c) \subseteq Calls /\ IsFiniteSet(DayOf(c))
            BY <2>4 DEF DayOf
      <4>3. QED BY <2>3, <4>1, <4>2, OneRoundMore
    <3>3. CASE ~(u = User[c] /\ t \div DayLength = at[c] \div DayLength)
      <4>1. RoundsOn(u, t \div DayLength)' = RoundsOn(u, t \div DayLength)
            BY <2>2, <3>3
      <4>2. QED BY <3>1, <4>1
    <3>4. QED BY <3>2, <3>3
  <2>6. GamesWithinDay'
        BY <2>5, GamesMeansNext
  <2>7. ASSUME NEW d \in Calls, step'[d] = "timed"
        PROVE  Cardinality(DayOf(d)') < MaxGames /\ Cardinality(Like(d, DayOf(d)')) < LimitOf(d)
    <3>1. step[d] = "timed" /\ d # c
          BY <1>1, <2>1, <2>7
    <3>2. User[d] # User[c]
          BY <2>1, <3>1 DEF PlayInv, HoldsUserLock
    <3>3. DayOf(d)' = DayOf(d)
          BY <2>1, <2>2, <3>2 DEF DayOf
    <3>4. QED BY <3>1, <3>3 DEF DayInv
  <2>8. QED BY <2>4, <2>6, <2>7 DEF DayInv, Like, LimitOf
<1>6. QED BY <1>2, <1>3, <1>4, <1>5, StepKinds, Zenon

LEMMA DayInitially ==
    ASSUME Init
    PROVE  DayInv
<1>1. rounds = {} /\ step = [c \in Calls |-> "idle"]
      BY DEF Init
<1>2. IsFiniteSet({}) /\ Cardinality({}) = 0
      BY FS_EmptySet
<1>3. \A u, day : RoundsOn(u, day) = {}
      BY <1>1 DEF RoundsOn
<1>4. WithinDay({})
      BY <1>2, ConstantsAssumption DEF WithinDay
<1>5. GamesWithinDay
      BY <1>3, <1>4, GamesMeans
<1>6. QED BY <1>1, <1>2, <1>5 DEF DayInv

\* What the rounds of a day pay, and what a spin was admitted on: the full win it may yet
\* bring is still free when it settles.
PaidInv ==
    /\ \A u \in Users, t \in Instants : Credited(RoundsOn(u, t \div DayLength)) <= MaxPayout
    /\ \A c \in Calls : step[c] = "timed" => Credited(DayOf(c)) + Win[c] <= MaxPayout

LEMMA CreditedNext ==
    ASSUME NEW u, NEW day
    PROVE  Credited(RoundsOn(u, day))' = CreditedBy(won', RoundsOn(u, day)')
BY DEF Credited, CreditedBy, MapThenSumSet, MapThenFoldSet

LEMMA CreditedDay ==
    ASSUME NEW c
    PROVE  Credited(DayOf(c))' = CreditedBy(won', DayOf(c)')
BY DEF Credited, CreditedBy, MapThenSumSet, MapThenFoldSet

\* Steps that store no round and admit no spin; only outcomes of stored rounds count.
LEMMA PaidKept ==
    ASSUME TypeOK, IsFiniteSet(rounds), PaidInv, rounds' = rounds, \A d \in rounds : at'[d] = at[d] /\ won'[d] = won[d],
           \A d \in Calls : step'[d] = "timed" => step[d] = "timed" /\ at'[d] = at[d]
    PROVE  PaidInv'
<1>1. \A u, day : RoundsOn(u, day)' = RoundsOn(u, day)
      BY DEF RoundsOn
<1>2. \A u, day : Credited(RoundsOn(u, day))' = CreditedBy(won', RoundsOn(u, day))
      BY <1>1, CreditedNext
<1>3. \A u, day : CreditedBy(won', RoundsOn(u, day)) = Credited(RoundsOn(u, day))
  <2> SUFFICES ASSUME NEW u, NEW day
               PROVE  CreditedBy(won', RoundsOn(u, day)) = CreditedBy(won, RoundsOn(u, day))
      BY CreditedMeans
  <2>1. RoundsOn(u, day) \subseteq rounds /\ rounds \subseteq Calls
        BY DEF RoundsOn, TypeOK
  <2>2. IsFiniteSet(RoundsOn(u, day))
        BY <2>1, FS_Subset
  <2>3. QED BY <2>1, <2>2, CreditedMeans, CreditedSame
<1>4. \A c \in Calls : step'[c] = "timed" => Credited(DayOf(c))' = Credited(DayOf(c))
      BY <1>1, <1>2, <1>3, CreditedDay DEF DayOf
<1>5. QED BY <1>2, <1>3, <1>4 DEF PaidInv

LEMMA PaidPreserved ==
    ASSUME TypeOK, PlayInv, DayInv, PaidInv, [Next]_vars
    PROVE  PaidInv'
<1> USE ConstantsAssumption
<1>1. /\ rounds \subseteq Calls /\ at \in [Calls -> Nat] /\ step \in [Calls -> Steps] /\ won \in [Calls -> BOOLEAN]
      /\ IsFiniteSet(rounds)
      BY DEF TypeOK, Instants, DayInv
<1>2. ASSUME NEW c \in Calls, Start(c) \/ LockUser(c) \/ StopPlay(c) PROVE PaidInv'
  <2>1. /\ rounds' = rounds /\ step[c] # "over" /\ step' = [step EXCEPT ![c] = step'[c]] /\ step'[c] # "timed"
        /\ at' = at \/ at' = [at EXCEPT ![c] = 0]
        /\ won' = won
        BY <1>1, <1>2 DEF Start, LockUser, StopPlay, Advance
  <2>2. c \notin rounds
        BY <2>1 DEF PlayInv
  <2>3. QED BY <1>1, <2>1, <2>2, PaidKept
<1>3. CASE Aside
      BY <1>1, <1>3, PaidKept DEF Aside
<1>4. ASSUME NEW c \in Calls, Admit(c) PROVE PaidInv'
  <2>1. /\ step' = [step EXCEPT ![c] = "timed"] /\ WithinLimits(c)
        /\ at' = [at EXCEPT ![c] = clock] /\ won' = won
        BY <1>4 DEF Admit, Advance
  <2>2. (\A u, day : RoundsOn(u, day)' = RoundsOn(u, day)) /\ DayOf(c)' = Today(c)
        BY <1>4, AdmittedDay
  <2>3. \A u, day : Credited(RoundsOn(u, day))' = Credited(RoundsOn(u, day))
        BY <2>1, <2>2, CreditedMeans, CreditedNext
  <2>4. Credited(DayOf(c))' = Credited(Today(c))
    <3>1. Credited(DayOf(c))' = CreditedBy(won', Today(c))
          BY <2>2, CreditedDay
    <3>2. QED BY <2>1, <3>1, CreditedMeans
  <2>5. ASSUME NEW d \in Calls, step'[d] = "timed"
        PROVE  Credited(DayOf(d))' + Win[d] <= MaxPayout
    <3>1. CASE d = c
          BY <2>1, <2>4, <3>1, Zenon DEF WithinLimits
    <3>2. CASE d # c
      <4>1. step[d] = "timed" /\ at'[d] = at[d]
            BY <1>1, <2>1, <2>5, <3>2
      <4>2. Credited(DayOf(d))' = Credited(DayOf(d))
            BY <2>3, <4>1 DEF DayOf
      <4>3. QED BY <4>1, <4>2 DEF PaidInv
    <3>3. QED BY <3>1, <3>2
  <2>6. QED BY <2>3, <2>5 DEF PaidInv
<1>5. ASSUME NEW c \in Calls, NEW win \in BOOLEAN, Settle(c, win) PROVE PaidInv'
  <2>1. /\ step[c] = "timed" /\ step' = [step EXCEPT ![c] = "over"]
        /\ at' = at /\ won' = [won EXCEPT ![c] = win]
        BY <1>5 DEF Settle, Advance
  <2>2. \A u, day : RoundsOn(u, day)' = IF u = User[c] /\ day = at[c] \div DayLength THEN RoundsOn(u, day) \cup {c} ELSE RoundsOn(u, day)
        BY <1>5, SettledDay
  <2>3. c \notin rounds
        BY <2>1 DEF PlayInv
  <2>4. ASSUME NEW u, NEW day
        PROVE  /\ c \notin RoundsOn(u, day) /\ RoundsOn(u, day) \subseteq Calls /\ IsFiniteSet(RoundsOn(u, day))
               /\ \A d \in RoundsOn(u, day) \cup {c} : Pays(won', d) \in Nat
               /\ CreditedBy(won', RoundsOn(u, day)) = Credited(RoundsOn(u, day))
    <3>1. RoundsOn(u, day) \subseteq rounds
          BY DEF RoundsOn
    <3>2. IsFiniteSet(RoundsOn(u, day))
          BY <1>1, <3>1, FS_Subset
    <3>3. \A d \in RoundsOn(u, day) : won'[d] = won[d]
          BY <1>1, <2>1, <2>3, <3>1
    <3>4. \A d \in Calls : Pays(won', d) \in Nat
          BY DEF Pays
    <3>5. CreditedBy(won', RoundsOn(u, day)) = CreditedBy(won, RoundsOn(u, day))
          BY <1>1, <3>1, <3>2, <3>3, CreditedMeans, CreditedSame
    <3>6. QED BY <1>1, <2>3, <3>1, <3>2, <3>4, <3>5, CreditedMeans
  <2>5. Pays(won', c) <= Win[c] /\ Pays(won', c) \in Nat /\ Win[c] \in Nat
        BY DEF Pays
  <2>6. ASSUME NEW u \in Users, NEW t \in Instants
        PROVE  Credited(RoundsOn(u, t \div DayLength))' <= MaxPayout
    <3>1. Credited(RoundsOn(u, t \div DayLength))' = CreditedBy(won', RoundsOn(u, t \div DayLength)')
          BY CreditedNext
    <3>2. CASE u = User[c] /\ t \div DayLength = at[c] \div DayLength
      <4>1. RoundsOn(u, t \div DayLength)' = DayOf(c) \cup {c}
            BY <2>2, <3>2 DEF DayOf
      <4>2. /\ c \notin DayOf(c) /\ IsFiniteSet(DayOf(c)) /\ \A d \in DayOf(c) \cup {c} : Pays(won', d) \in Nat
            /\ CreditedBy(won', DayOf(c)) = Credited(DayOf(c))
            BY <2>4 DEF DayOf
      <4>3. CreditedBy(won', DayOf(c) \cup {c}) = Credited(DayOf(c)) + Pays(won', c) /\ Credited(DayOf(c)) \in Nat
            BY <4>2, CreditedMore
      <4>4. Credited(DayOf(c)) + Win[c] <= MaxPayout /\ MaxPayout \in Nat
            BY <2>1 DEF PaidInv
      <4>5. Credited(RoundsOn(u, t \div DayLength))' = Credited(DayOf(c)) + Pays(won', c)
            BY <3>1, <4>1, <4>3, Zenon
      <4>6. QED BY <2>5, <4>3, <4>4, <4>5
    <3>3. CASE ~(u = User[c] /\ t \div DayLength = at[c] \div DayLength)
      <4>1. RoundsOn(u, t \div DayLength)' = RoundsOn(u, t \div DayLength)
            BY <2>2, <3>3
      <4>2. QED BY <2>4, <3>1, <4>1 DEF PaidInv
    <3>4. QED BY <3>2, <3>3
  <2>7. ASSUME NEW d \in Calls, step'[d] = "timed"
        PROVE  Credited(DayOf(d))' + Win[d] <= MaxPayout
    <3>1. step[d] = "timed" /\ d # c
          BY <1>1, <2>1, <2>7
    <3>2. User[d] # User[c]
          BY <2>1, <3>1 DEF PlayInv, HoldsUserLock
    <3>3. DayOf(d)' = DayOf(d)
          BY <2>1, <2>2, <3>2 DEF DayOf
    <3>4. Credited(DayOf(d))' = CreditedBy(won', DayOf(d))
          BY <3>3, CreditedDay
    <3>5. CreditedBy(won', DayOf(d)) = Credited(DayOf(d))
          BY <2>4 DEF DayOf
    <3>6. QED BY <3>1, <3>4, <3>5 DEF PaidInv
  <2>8. QED BY <2>6, <2>7 DEF PaidInv
<1>6. QED BY <1>2, <1>3, <1>4, <1>5, StepKinds, Zenon

LEMMA PaidInitially ==
    ASSUME Init
    PROVE  PaidInv
<1>1. rounds = {} /\ step = [c \in Calls |-> "idle"]
      BY DEF Init
<1>2. \A u, day : RoundsOn(u, day) = {}
      BY <1>1 DEF RoundsOn
<1>3. Credited({}) = 0
  <2>1. IsFiniteSet({}) /\ \A d \in {} : Pays(won, d) \in Nat
        BY FS_EmptySet
  <2>2. CreditedBy(won, {}) = Cardinality(Coins(won, {}))
        BY <2>1, CreditedIs
  <2>3. Coins(won, {}) = {}
        BY DEF Coins
  <2>4. Credited({}) = CreditedBy(won, {})
        BY DEF Credited, CreditedBy
  <2>5. QED BY <2>2, <2>3, <2>4, FS_EmptySet
<1>4. 0 <= MaxPayout
      BY ConstantsAssumption
<1>5. \A c \in Calls : step[c] # "timed"
      BY <1>1
<1>6. QED BY <1>2, <1>3, <1>4, <1>5 DEF PaidInv

-------------------------------------------------------------------------------
\* The chat of a Ludo room.

CallRecord == [step : {"idle", "asked", "allowed", "written", "done"}, unread : SUBSET Chat!Lists,
               excluded : SUBSET Talkers, beside : BOOLEAN]
ViewRecord == [step : {"idle", "asked", "shown"}, unread : SUBSET Chat!Lists, hidden : SUBSET Talkers,
               since : [Chat!Lists -> SUBSET Talkers], shows : SUBSET Messages]

Active(c) == call[c].step \in {"asked", "allowed", "written"}
Delivering(c) == call[c].step = "written"
HasRead(c, l) == call[c].step = "written" /\ l \notin call[c].unread

\* Who has a sayer on a list all the time is there when the list is read, and left out from
\* then on; and so with a snapshot.
ChatHides ==
    /\ \A m \in Messages, l \in Chat!Lists : hiding[m][l] \subseteq Chat!HidFrom(Sayer[m], l)
    /\ \A c \in Sends, l \in Chat!Lists : HasRead(c, l) => hiding[Says[c]][l] \subseteq call[c].excluded
    /\ \A u \in Listeners, l \in Chat!Lists : view[u].step = "asked" =>
          /\ view[u].since[l] \subseteq Chat!Hidden(u, l)
          /\ l \notin view[u].unread => view[u].since[l] \subseteq view[u].hidden

\* A message without a row was told to nobody; one call alone has written it, and tells
\* it then.
ChatTells ==
    /\ \A m \in Messages : age[m] = "none" => told[m] = 0 /\ heard[m] = {}
    /\ \A c \in Sends : Delivering(c) => age[Says[c]] # "none" /\ told[Says[c]] = 0
    /\ \A c, d \in Sends : Delivering(c) /\ Delivering(d) /\ Says[c] = Says[d] => c = d

\* Calls of a user that run at the same time know of one another, and a call that runs
\* alone was counted against what is there.
ChatRates ==
    /\ \A c, d \in Sends :
          c # d /\ Active(c) /\ Active(d) /\ Sayer[Says[c]] = Sayer[Says[d]] => call[c].beside
    /\ \A c \in Sends : call[c].step = "idle" => ~call[c].beside
    /\ \A c \in Sends : call[c].step = "allowed" /\ ~call[c].beside
                            => Cardinality(Chat!Recent(Sayer[Says[c]])) < RateLimit

ChatInv ==
    /\ Chat!TypeOK /\ ChatHides /\ ChatTells /\ ChatRates
    /\ Chat!HiddenIsNotHeard /\ Chat!ToldOnceAtMost /\ Chat!RateKept

LEMMA ChatCardinality == \A S : Chat!Cardinality(S) = Cardinality(S)
BY DEF Chat!Cardinality, Cardinality

\* The messages of a user that the rate is kept for.
Alone(u) == {m \in Chat!Recent(u) : \A c \in Sends : Says[c] = m => ~call[c].beside}

LEMMA RateMeans == Chat!RateKept <=> \A u \in Talkers : Cardinality(Alone(u)) <= RateLimit
BY ChatCardinality, Zenon DEF Chat!RateKept, Alone

LEMMA RateMeansNext == Chat!RateKept' <=> \A u \in Talkers : Cardinality(Alone(u)') <= RateLimit
BY ChatCardinality, Zenon DEF Chat!RateKept, Alone

LEMMA ChatRecords ==
    ASSUME Chat!TypeOK
    PROVE  /\ call \in [Sends -> CallRecord]
           /\ view \in [Listeners -> ViewRecord]
           /\ age \in [Messages -> {"none", "fresh", "recent", "old"}]
           /\ hiding \in [Messages -> [Chat!Lists -> SUBSET Talkers]]
           /\ heard \in [Messages -> SUBSET Talkers]
           /\ told \in [Messages -> Nat]
           /\ wishes \in [Chat!Lists -> SUBSET (Talkers \X Talkers)]
BY DEF Chat!TypeOK, CallRecord, ViewRecord

\* What becomes of a call that goes on, or ends.
LEMMA CallGoes ==
    ASSUME call \in [Sends -> CallRecord], NEW c \in Sends,
           NEW s \in {"idle", "asked", "allowed", "written", "done"}, Chat!Goto(c, s)
    PROVE  /\ call' \in [Sends -> CallRecord]
           /\ call'[c].step = s /\ call'[c].beside = call[c].beside
           /\ \A d \in Sends : d # c => call'[d] = call[d]
<1> DEFINE next == [call[c] EXCEPT !.step = s]
<1>1. call' = [call EXCEPT ![c] = next]
      BY DEF Chat!Goto
<1>2. next \in CallRecord /\ next.step = s /\ next.beside = call[c].beside
      BY DEF CallRecord
<1> HIDE DEF next
<1>3. QED BY <1>1, <1>2

LEMMA CallFinishes ==
    ASSUME call \in [Sends -> CallRecord], NEW c \in Sends, Chat!Finish(c)
    PROVE  /\ call' \in [Sends -> CallRecord]
           /\ call'[c].step = "done" /\ call'[c].beside = call[c].beside
           /\ \A d \in Sends : d # c => call'[d] = call[d]
<1> DEFINE next == [call[c] EXCEPT !.step = "done", !.unread = {}, !.excluded = {}]
<1>1. call' = [call EXCEPT ![c] = next]
      BY DEF Chat!Finish
<1>2. next \in CallRecord /\ next.step = "done" /\ next.beside = call[c].beside
      BY DEF CallRecord
<1> HIDE DEF next
<1>3. QED BY <1>1, <1>2

LEMMA CallAsks ==
    ASSUME call \in [Sends -> CallRecord], NEW c \in Sends, Chat!Ask(c)
    PROVE  \/ Chat!Finish(c)
           \/ /\ call' \in [Sends -> CallRecord]
              /\ call'[c].step = "asked" /\ (call'[c].beside <=> Chat!Beside(c) # {})
              /\ \A d \in Sends : d # c =>
                    /\ call'[d].step = call[d].step /\ call'[d].unread = call[d].unread
                    /\ call'[d].excluded = call[d].excluded
                    /\ call'[d].beside <=> call[d].beside \/ d \in Chat!Beside(c)
<1> DEFINE first == [call[c] EXCEPT !.step = "asked", !.beside = Chat!Beside(c) # {}]
           other(d) == [call[d] EXCEPT !.beside = call[d].beside \/ d \in Chat!Beside(c)]
<1>0. CASE Chat!Finish(c)
      BY <1>0
<1>1. CASE call' = [d \in Sends |-> IF d = c THEN first ELSE other(d)]
  <2>1. first \in CallRecord /\ first.step = "asked" /\ (first.beside <=> Chat!Beside(c) # {})
        BY DEF CallRecord
  <2>2. ASSUME NEW d \in Sends
        PROVE  /\ other(d) \in CallRecord /\ other(d).step = call[d].step
               /\ other(d).unread = call[d].unread /\ other(d).excluded = call[d].excluded
               /\ other(d).beside <=> call[d].beside \/ d \in Chat!Beside(c)
    <3>1. (call[d].beside \/ d \in Chat!Beside(c)) \in BOOLEAN
          OBVIOUS
    <3>2. QED BY <3>1 DEF CallRecord
  <2> HIDE DEF first, other
  <2>3. QED BY <1>1, <2>1, <2>2
<1>2. QED BY <1>0, <1>1 DEF Chat!Ask

LEMMA ChatInitHolds == Chat!Init => ChatInv
<1> SUFFICES ASSUME Chat!Init PROVE ChatInv
    OBVIOUS
<1> USE TalkBounds
<1>1. Chat!Idle \in CallRecord /\ Chat!Idle.step = "idle" /\ ~Chat!Idle.beside
      BY DEF Chat!Idle, CallRecord
<1>2. /\ Chat!NotViewing \in ViewRecord /\ Chat!NotViewing.step = "idle" /\ Chat!NotViewing.shows = {}
      /\ Chat!Unhidden \in [Chat!Lists -> SUBSET Talkers] /\ \A l \in Chat!Lists : Chat!Unhidden[l] = {}
      BY DEF Chat!NotViewing, Chat!Unhidden, ViewRecord
<1>3. call \in [Sends -> CallRecord] /\ view \in [Listeners -> ViewRecord]
      BY <1>1, <1>2 DEF Chat!Init
<1>4. Chat!RoomTypeOK
  <2>1. changes = 0 /\ ChatChanges \in Nat /\ over = FALSE
        BY DEF Chat!Init, Chat!RoomInit
  <2>2. changes \in 0..ChatChanges
        BY <2>1
  <2>3. over \in BOOLEAN
        BY <2>1
  <2>4. QED BY <2>2, <2>3 DEF Chat!Init, Chat!RoomInit, Chat!RoomTypeOK
<1>5. Chat!TypeOK
  <2>1. wishes \in [Chat!Lists -> SUBSET (Talkers \X Talkers)]
        BY DEF Chat!Init, Chat!Unhidden
  <2>2. hiding \in [Messages -> [Chat!Lists -> SUBSET Talkers]]
        BY <1>2 DEF Chat!Init
  <2>3. QED BY <1>3, <1>4, <2>1, <2>2 DEF Chat!Init, Chat!TypeOK, CallRecord, ViewRecord
<1>6. ChatHides /\ ChatTells
      BY <1>1, <1>2 DEF Chat!Init, ChatHides, ChatTells, HasRead, Delivering
<1>7. ChatRates
      BY <1>1 DEF Chat!Init, ChatRates, Active
<1>8. Chat!HiddenIsNotHeard /\ Chat!ToldOnceAtMost
      BY <1>2 DEF Chat!Init, Chat!HiddenIsNotHeard, Chat!ToldOnceAtMost
<1>9. Chat!RateKept
  <2>1. \A u \in Talkers : Alone(u) = {}
        BY DEF Chat!Init, Chat!Recent, Alone
  <2>2. QED BY <2>1, FS_EmptySet, RateMeans
<1>10. QED BY <1>5, <1>6, <1>7, <1>8, <1>9 DEF ChatInv

\* What becomes of a player's presence.
RoomMoves(u) ==
    Chat!Restrict(u) \/ Chat!LoseSocket(u) \/ Chat!MarkDisconnected(u) \/ Chat!ComeBack(u) \/ Chat!GiveUp(u)

LEMMA RoomKeepsType ==
    ASSUME Chat!RoomTypeOK,
           \/ \E u \in Talkers : RoomMoves(u)
           \/ Chat!Finished
    PROVE  Chat!RoomTypeOK'
<1> USE TalkBounds DEF Chat!RoomTypeOK, Chat!Change, Chat!presence
<1>1. ASSUME NEW u \in Talkers, Chat!Restrict(u) PROVE Chat!RoomTypeOK'
      BY <1>1 DEF Chat!Restrict
<1>2. ASSUME NEW u \in Talkers, Chat!LoseSocket(u) \/ Chat!MarkDisconnected(u) PROVE Chat!RoomTypeOK'
      BY <1>2 DEF Chat!LoseSocket, Chat!MarkDisconnected
<1>3. ASSUME NEW u \in Talkers, Chat!ComeBack(u) PROVE Chat!RoomTypeOK'
      BY <1>3 DEF Chat!ComeBack
<1>4. ASSUME NEW u \in Talkers, Chat!GiveUp(u) PROVE Chat!RoomTypeOK'
      BY <1>4 DEF Chat!GiveUp
<1>5. ASSUME Chat!Finished PROVE Chat!RoomTypeOK'
      BY <1>5 DEF Chat!Finished
<1>6. QED BY <1>1, <1>2, <1>3, <1>4, <1>5 DEF RoomMoves

\* Who leaves a list is not held to have been there, and nothing else changes.
LEMMA WishKeeps ==
    ASSUME ChatInv, NEW l \in Chat!Lists, NEW b \in SUBSET (Talkers \X Talkers),
           Chat!Change, Chat!Wish(l, b)
    PROVE  ChatInv'
<1> USE TalkBounds
<1>0. Chat!TypeOK /\ ChatHides /\ ChatTells /\ ChatRates /\ Chat!HiddenIsNotHeard /\ Chat!ToldOnceAtMost /\ Chat!RateKept
      BY DEF ChatInv
<1>1. /\ call \in [Sends -> CallRecord] /\ view \in [Listeners -> ViewRecord]
      /\ hiding \in [Messages -> [Chat!Lists -> SUBSET Talkers]]
      /\ wishes \in [Chat!Lists -> SUBSET (Talkers \X Talkers)]
      BY <1>0, ChatRecords
<1>2. UNCHANGED <<over, talker, routed, silenced, age, heard, told, call>>
      BY DEF Chat!Wish, Chat!presence
<1>w. /\ wishes' \in [Chat!Lists -> SUBSET (Talkers \X Talkers)]
      /\ wishes'[l] = b /\ \A k \in Chat!Lists : k # l => wishes'[k] = wishes[k]
      BY <1>1 DEF Chat!Wish
<1> DEFINE left(n) == {u \in hiding[n][l] : <<u, Sayer[n]>> \in b}
           still(n) == [hiding[n] EXCEPT ![l] = left(n)]
<1>3. hiding' = [n \in Messages |-> still(n)]
      BY DEF Chat!Wish
<1>4. ASSUME NEW n \in Messages
      PROVE  /\ hiding'[n] \in [Chat!Lists -> SUBSET Talkers]
             /\ hiding'[n][l] = left(n) /\ left(n) \subseteq hiding[n][l]
             /\ \A k \in Chat!Lists : k # l => hiding'[n][k] = hiding[n][k]
  <2>1. hiding[n] \in [Chat!Lists -> SUBSET Talkers] /\ left(n) \in SUBSET Talkers /\ left(n) \subseteq hiding[n][l]
        BY <1>1
  <2>2. hiding'[n] = still(n)
        BY <1>3
  <2> HIDE DEF left
  <2>3. QED BY <2>1, <2>2
<1>h. /\ hiding' \in [Messages -> [Chat!Lists -> SUBSET Talkers]]
      /\ \A n \in Messages, k \in Chat!Lists : hiding'[n][k] \subseteq hiding[n][k]
  <2>1. \A n \in Messages : still(n) \in [Chat!Lists -> SUBSET Talkers]
        BY <1>3, <1>4
  <2>2. \A n \in Messages, k \in Chat!Lists : hiding'[n][k] \subseteq hiding[n][k]
        BY <1>4
  <2> HIDE DEF still
  <2>3. QED BY <1>3, <2>1, <2>2
<1> HIDE DEF still
<1> DEFINE less(u) == {v \in view[u].since[l] : <<u, v>> \in b}
           kept(u) == [view[u] EXCEPT !.since[l] = less(u)]
<1>5. ASSUME NEW u \in Listeners
      PROVE  /\ kept(u) \in ViewRecord
             /\ kept(u).since[l] = less(u) /\ less(u) \subseteq view[u].since[l]
             /\ \A k \in Chat!Lists : k # l => kept(u).since[k] = view[u].since[k]
             /\ kept(u).step = view[u].step /\ kept(u).unread = view[u].unread
             /\ kept(u).hidden = view[u].hidden /\ kept(u).shows = view[u].shows
  <2> DEFINE since == [view[u].since EXCEPT ![l] = less(u)]
             next == [view[u] EXCEPT !.since = since]
  <2>1. view[u] \in ViewRecord /\ view[u].since \in [Chat!Lists -> SUBSET Talkers]
        BY <1>1 DEF ViewRecord
  <2>2. less(u) \in SUBSET Talkers /\ less(u) \subseteq view[u].since[l]
        BY <2>1
  <2>3. /\ since \in [Chat!Lists -> SUBSET Talkers] /\ since[l] = less(u)
        /\ \A k \in Chat!Lists : k # l => since[k] = view[u].since[k]
    <3> HIDE DEF less
    <3>1. QED BY <2>1, <2>2
  <2>4. kept(u) = next
        OBVIOUS
  <2>5. /\ next \in ViewRecord /\ next.since = since
        /\ next.step = view[u].step /\ next.unread = view[u].unread
        /\ next.hidden = view[u].hidden /\ next.shows = view[u].shows
    <3> HIDE DEF since
    <3>1. QED BY <2>1, <2>3 DEF ViewRecord
  <2> HIDE DEF less, since, next, kept
  <2>6. QED BY <2>2, <2>3, <2>4, <2>5
<1>6. view' = [u \in Listeners |-> IF view[u].step = "shown" THEN view[u] ELSE kept(u)]
      BY DEF Chat!Wish
<1> HIDE DEF kept
<1>7. /\ view' \in [Listeners -> ViewRecord]
      /\ \A u \in Listeners : /\ view'[u].step = view[u].step /\ view'[u].unread = view[u].unread
                              /\ view'[u].hidden = view[u].hidden /\ view'[u].shows = view[u].shows
                              /\ \A k \in Chat!Lists : view'[u].since[k] \subseteq view[u].since[k]
                              /\ view[u].step = "asked" => view'[u].since[l] = less(u)
  <2> HIDE DEF less
  <2>1. \A u \in Listeners, k \in Chat!Lists : kept(u).since[k] \subseteq view[u].since[k]
        BY <1>5
  <2>2. QED BY <2>1, <1>1, <1>5, <1>6
<1>v. ASSUME NEW u \in Listeners, NEW k \in Chat!Lists
      PROVE  /\ view'[u].step = view[u].step /\ view'[u].unread = view[u].unread
             /\ view'[u].hidden = view[u].hidden /\ view'[u].shows = view[u].shows
             /\ view'[u].since[k] \subseteq view[u].since[k] /\ view[u].since[k] \subseteq Talkers
             /\ view[u].step = "asked" => view'[u].since[l] = less(u)
  <2> HIDE DEF less
  <2>1. view[u].since \in [Chat!Lists -> SUBSET Talkers]
        BY <1>1 DEF ViewRecord
  <2>2. QED BY <2>1, <1>7
<1>8. Chat!TypeOK'
  <2>1. Chat!RoomTypeOK'
        BY <1>0, <1>2 DEF Chat!TypeOK, Chat!RoomTypeOK, Chat!Change
  <2>2. QED BY <2>1, <1>0, <1>2, <1>w, <1>h, <1>7 DEF Chat!TypeOK, ViewRecord
<1>9. ChatHides'
  <2>1. ASSUME NEW n \in Messages, NEW k \in Chat!Lists PROVE hiding'[n][k] \subseteq Chat!HidFrom(Sayer[n], k)'
    <3>1. CASE k = l
      <4>1. hiding'[n][k] = left(n) /\ wishes'[k] = b /\ left(n) \subseteq Talkers
            BY <3>1, <1>1, <1>4, <1>w
      <4>2. QED BY <4>1 DEF Chat!HidFrom
    <3>2. CASE k # l
      <4>1. hiding'[n][k] = hiding[n][k] /\ wishes'[k] = wishes[k]
            BY <3>2, <1>4, <1>w
      <4>2. QED BY <4>1, <1>0 DEF ChatHides, Chat!HidFrom
    <3>3. QED BY <3>1, <3>2
  <2>2. \A c \in Sends, k \in Chat!Lists : HasRead(c, k)' => hiding'[Says[c]][k] \subseteq call'[c].excluded
        BY <1>0, <1>2, <1>h DEF ChatHides, HasRead
  <2>3. ASSUME NEW u \in Listeners, NEW k \in Chat!Lists, view'[u].step = "asked"
        PROVE  view'[u].since[k] \subseteq Chat!Hidden(u, k)'
    <3>1. CASE k = l
      <4>1. view'[u].since[k] = less(u) /\ wishes'[k] = b /\ less(u) \subseteq Talkers
            BY <2>3, <3>1, <1>v, <1>w
      <4>2. QED BY <4>1 DEF Chat!Hidden
    <3>2. CASE k # l
      <4>1. view'[u].since[k] \subseteq view[u].since[k] /\ view[u].step = "asked" /\ wishes'[k] = wishes[k]
            BY <2>3, <3>2, <1>v, <1>w
      <4>2. QED BY <4>1, <1>0 DEF ChatHides, Chat!Hidden
    <3>3. QED BY <3>1, <3>2
  <2>4. ASSUME NEW u \in Listeners, NEW k \in Chat!Lists, view'[u].step = "asked", k \notin view'[u].unread
        PROVE  view'[u].since[k] \subseteq view'[u].hidden
    <3>1. view[u].since[k] \subseteq view[u].hidden
          BY <2>4, <1>0, <1>v DEF ChatHides
    <3>2. QED BY <3>1, <1>v
  <2>5. QED BY <2>1, <2>2, <2>3, <2>4 DEF ChatHides
<1>10. ChatTells' /\ Chat!ToldOnceAtMost'
      BY <1>0, <1>2 DEF ChatTells, Delivering, Chat!ToldOnceAtMost
<1>11. \A u \in Talkers : Chat!Recent(u)' = Chat!Recent(u)
      BY <1>2 DEF Chat!Recent
<1>12. ChatRates' /\ Chat!RateKept'
  <2>1. \A c \in Sends : Sayer[Says[c]] \in Talkers
        OBVIOUS
  <2>2. ChatRates'
        BY <2>1, <1>0, <1>2, <1>11 DEF ChatRates, Active
  <2>3. Chat!RateKept'
        BY <1>0, <1>2, <1>11 DEF Chat!RateKept
  <2>4. QED BY <2>2, <2>3
<1>13. Chat!HiddenIsNotHeard'
  <2>1. \A n \in Messages, k \in Chat!Lists : heard'[n] \cap hiding'[n][k] = {}
        BY <1>0, <1>2, <1>h DEF Chat!HiddenIsNotHeard
  <2>2. ASSUME NEW u \in Listeners, NEW k \in Chat!Lists, NEW n \in view'[u].shows
        PROVE  Sayer[n] \notin view'[u].since[k]
    <3>1. n \in view[u].shows /\ view'[u].since[k] \subseteq view[u].since[k]
          BY <2>2, <1>v
    <3>2. QED BY <3>1, <1>0 DEF Chat!HiddenIsNotHeard
  <2>3. QED BY <2>1, <2>2 DEF Chat!HiddenIsNotHeard
<1>14. QED BY <1>8, <1>9, <1>10, <1>12, <1>13 DEF ChatInv

\* A step that touches neither messages nor calls nor wishes.
LEMMA ChatAside ==
    ASSUME ChatInv, Chat!RoomTypeOK', UNCHANGED <<chatVars>>
    PROVE  ChatInv'
<1>0. UNCHANGED <<wishes, age, hiding, heard, told, call, view>>
      BY DEF chatVars
<1>1. Chat!TypeOK'
      BY <1>0 DEF ChatInv, Chat!TypeOK
<1>2. ChatHides' /\ ChatTells'
      BY <1>0 DEF ChatInv, ChatHides, ChatTells, HasRead, Delivering, Chat!HidFrom, Chat!Hidden
<1>3. \A u \in Talkers : Chat!Recent(u)' = Chat!Recent(u)
      BY <1>0 DEF Chat!Recent
<1>4. ChatRates' /\ Chat!RateKept'
  <2>1. \A c \in Sends : Sayer[Says[c]] \in Talkers
        BY TalkBounds
  <2>2. ChatRates'
        BY <2>1, <1>0, <1>3 DEF ChatInv, ChatRates, Active
  <2>3. Chat!RateKept'
        BY <1>0, <1>3 DEF ChatInv, Chat!RateKept
  <2>4. QED BY <2>2, <2>3
<1>5. Chat!HiddenIsNotHeard' /\ Chat!ToldOnceAtMost'
      BY <1>0 DEF ChatInv, Chat!HiddenIsNotHeard, Chat!ToldOnceAtMost
<1>6. QED BY <1>1, <1>2, <1>4, <1>5 DEF ChatInv

\* The rate, from what a step does to the messages that were said within ten seconds and
\* to what calls know of one another.
LEMMA RateFrame ==
    ASSUME ChatInv, NEW u \in Talkers, Chat!Recent(u)' \subseteq Chat!Recent(u),
           \A c \in Sends : call[c].beside => call'[c].beside
    PROVE  /\ Cardinality(Alone(u)') <= RateLimit
           /\ Cardinality(Chat!Recent(u)') <= Cardinality(Chat!Recent(u))
<1>1. Alone(u)' \subseteq Alone(u) /\ Alone(u) \subseteq Messages /\ Chat!Recent(u) \subseteq Messages
      BY DEF Alone, Chat!Recent
<1>2. IsFiniteSet(Messages)
      BY TalkBounds
<1>3. IsFiniteSet(Alone(u)) /\ IsFiniteSet(Chat!Recent(u))
      BY <1>1, <1>2, FS_Subset
<1>4. /\ Cardinality(Alone(u)') <= Cardinality(Alone(u)) /\ Cardinality(Alone(u)') \in Nat /\ Cardinality(Alone(u)) \in Nat
      /\ Cardinality(Chat!Recent(u)') <= Cardinality(Chat!Recent(u))
  <2>1. /\ IsFiniteSet(Alone(u)') /\ Cardinality(Alone(u)') <= Cardinality(Alone(u))
        /\ Cardinality(Chat!Recent(u)') <= Cardinality(Chat!Recent(u))
        BY <1>1, <1>3, FS_Subset
  <2>2. QED BY <2>1, <1>3, FS_CardinalityType
<1>5. Cardinality(Alone(u)) <= RateLimit
      BY RateMeans DEF ChatInv
<1>6. QED BY <1>4, <1>5, TalkBounds

\* A call that ends, or goes on past a point where nothing is written.
LEMMA CallGoesOn ==
    ASSUME ChatInv, NEW c \in Sends,
           UNCHANGED <<over, talker, routed, silenced, changes, wishes, age, hiding, heard, told, view>>,
           call' \in [Sends -> CallRecord],
           call'[c].beside = call[c].beside,
           \A d \in Sends : d # c => call'[d] = call[d],
           \/ call'[c].step = "done"
           \/ /\ call[c].step = "asked" /\ call'[c].step = "allowed"
              /\ Cardinality(Chat!Recent(Sayer[Says[c]])) < RateLimit
           \/ /\ call[c].step = "written" /\ call'[c].step = "written"
              /\ \E l \in Chat!Lists : /\ call'[c].unread = call[c].unread \ {l}
                                      /\ call'[c].excluded = call[c].excluded \cup Chat!HidFrom(Sayer[Says[c]], l)
    PROVE  ChatInv'
<1> USE TalkBounds
<1>0. Chat!TypeOK /\ ChatHides /\ ChatTells /\ ChatRates /\ Chat!HiddenIsNotHeard /\ Chat!ToldOnceAtMost /\ Chat!RateKept
      BY DEF ChatInv
<1>1. Chat!TypeOK'
      BY <1>0 DEF Chat!TypeOK, Chat!RoomTypeOK, CallRecord
<1>2. /\ \A u \in Talkers, l \in Chat!Lists : Chat!HidFrom(u, l)' = Chat!HidFrom(u, l) /\ Chat!Hidden(u, l)' = Chat!Hidden(u, l)
      /\ \A u \in Talkers : Chat!Recent(u)' = Chat!Recent(u)
      BY DEF Chat!HidFrom, Chat!Hidden, Chat!Recent
<1>3. \A m \in Messages : Sayer[m] \in Talkers
      OBVIOUS
<1>4. \A d \in Sends : Says[d] \in Messages
      OBVIOUS
<1>5. ChatHides'
  <2>1. \A m \in Messages, l \in Chat!Lists : hiding'[m][l] \subseteq Chat!HidFrom(Sayer[m], l)'
        BY <1>0, <1>2, <1>3 DEF ChatHides
  <2>2. ASSUME NEW d \in Sends, NEW l \in Chat!Lists, HasRead(d, l)'
        PROVE  hiding'[Says[d]][l] \subseteq call'[d].excluded
    <3>1. CASE HasRead(d, l) /\ (d # c \/ call[d].excluded \subseteq call'[d].excluded)
          BY <3>1, <1>0 DEF ChatHides
    <3>2. CASE d = c /\ Chat!HidFrom(Sayer[Says[c]], l) \subseteq call'[c].excluded
          BY <3>2, <1>0, <1>3, <1>4 DEF ChatHides
    <3>3. QED BY <2>2, <3>1, <3>2 DEF HasRead
  <2>3. QED BY <2>1, <2>2, <1>0, <1>2 DEF ChatHides
<1>6. \A d \in Sends : /\ call'[d].step = "written" => call[d].step = "written"
                       /\ call'[d].step \in {"asked", "allowed", "written"}
                              => call[d].step \in {"asked", "allowed", "written"}
                       /\ call'[d].step = "idle" => call[d].step = "idle"
                       /\ call'[d].beside = call[d].beside
      OBVIOUS
<1>7. ChatTells'
      BY <1>0, <1>6 DEF ChatTells, Delivering
<1>8. ChatRates'
  <2>1. \A d \in Sends : call'[d].step = "allowed" /\ ~call'[d].beside
                             => Cardinality(Chat!Recent(Sayer[Says[d]])) < RateLimit
        BY <1>0 DEF ChatRates
  <2>2. QED BY <2>1, <1>0, <1>2, <1>3, <1>4, <1>6 DEF ChatRates, Active
<1>9. Chat!RateKept'
  <2>1. \A u \in Talkers : Cardinality(Alone(u)') <= RateLimit
        BY <1>2, <1>6, RateFrame
  <2>2. QED BY <2>1, RateMeansNext
<1>10. Chat!HiddenIsNotHeard' /\ Chat!ToldOnceAtMost'
      BY <1>0 DEF Chat!HiddenIsNotHeard, Chat!ToldOnceAtMost
<1>11. QED BY <1>1, <1>5, <1>7, <1>8, <1>9, <1>10 DEF ChatInv

\* A call that was let in knows of those beside it, and they of it.
LEMMA AskKeeps ==
    ASSUME ChatInv, NEW c \in Sends, Chat!Ask(c) PROVE ChatInv'
<1> USE TalkBounds
<1>0. Chat!TypeOK /\ ChatHides /\ ChatTells /\ ChatRates /\ Chat!HiddenIsNotHeard /\ Chat!ToldOnceAtMost /\ Chat!RateKept
      BY DEF ChatInv
<1>f. UNCHANGED <<over, talker, routed, silenced, changes, wishes, age, hiding, heard, told, view>>
      BY DEF Chat!Ask, Chat!roomVars, Chat!presence, Chat!saidVars
<1>t. call \in [Sends -> CallRecord]
      BY <1>0, ChatRecords
<1>1. CASE Chat!Finish(c)
      BY <1>1, <1>f, <1>t, CallFinishes, CallGoesOn
<1>2. CASE /\ call' \in [Sends -> CallRecord]
           /\ call'[c].step = "asked" /\ (call'[c].beside <=> Chat!Beside(c) # {})
           /\ \A d \in Sends : d # c =>
                 /\ call'[d].step = call[d].step /\ call'[d].unread = call[d].unread
                 /\ call'[d].excluded = call[d].excluded
                 /\ call'[d].beside <=> call[d].beside \/ d \in Chat!Beside(c)
  <2>0. call[c].step = "idle"
        BY DEF Chat!Ask
  <2>1. Chat!TypeOK'
        BY <1>2, <1>f, <1>0 DEF Chat!TypeOK, Chat!RoomTypeOK, CallRecord
  <2>2. /\ \A u \in Talkers, l \in Chat!Lists : Chat!HidFrom(u, l)' = Chat!HidFrom(u, l) /\ Chat!Hidden(u, l)' = Chat!Hidden(u, l)
        /\ \A u \in Talkers : Chat!Recent(u)' = Chat!Recent(u)
        BY <1>f DEF Chat!HidFrom, Chat!Hidden, Chat!Recent
  <2>3. \A m \in Messages : Sayer[m] \in Talkers
        OBVIOUS
  <2>4. \A d \in Sends : Says[d] \in Messages
        OBVIOUS
  <2>5. ChatHides'
    <3>1. \A d \in Sends, l \in Chat!Lists : HasRead(d, l)' => HasRead(d, l) /\ call'[d].excluded = call[d].excluded
          BY <1>2 DEF HasRead
    <3>2. QED BY <3>1, <2>2, <2>3, <2>4, <1>0, <1>f DEF ChatHides
  <2>6. ChatTells'
    <3>1. \A d \in Sends : Delivering(d)' => Delivering(d)
          BY <1>2 DEF Delivering
    <3>2. QED BY <3>1, <1>0, <1>f DEF ChatTells
  <2>7. \A d \in Sends : d \in Chat!Beside(c) <=> d # c /\ Sayer[Says[d]] = Sayer[Says[c]] /\ Active(d)
        BY <1>t DEF Chat!Beside, Active, CallRecord
  <2>8. \A d \in Sends : call[d].beside => call'[d].beside
    <3>1. ~call[c].beside
          BY <2>0, <1>0 DEF ChatRates
    <3>2. QED BY <3>1, <1>2
  <2>9. ChatRates'
    <3>1. ASSUME NEW a \in Sends, NEW b \in Sends, a # b, Active(a)', Active(b)', Sayer[Says[a]] = Sayer[Says[b]]
          PROVE  call'[a].beside
      <4>1. CASE a # c /\ b # c
            BY <4>1, <3>1, <1>2, <1>0 DEF ChatRates, Active
      <4>2. CASE a = c
        <5>1. Active(b) /\ b # c
              BY <4>2, <3>1, <1>2 DEF Active
        <5>2. b \in Chat!Beside(c)
              BY <5>1, <4>2, <3>1, <2>7
        <5>3. QED BY <5>2, <4>2, <1>2
      <4>3. CASE b = c
        <5>1. Active(a) /\ a # c
              BY <4>3, <3>1, <1>2 DEF Active
        <5>2. a \in Chat!Beside(c)
              BY <5>1, <4>3, <3>1, <2>7
        <5>3. QED BY <5>1, <5>2, <1>2
      <4>4. QED BY <4>1, <4>2, <4>3
    <3>2. ASSUME NEW a \in Sends, call'[a].step = "idle" PROVE ~call'[a].beside
      <4>1. a # c /\ call[a].step = "idle"
            BY <3>2, <1>2
      <4>2. a \notin Chat!Beside(c) /\ ~call[a].beside
            BY <4>1, <2>7, <1>0 DEF ChatRates, Active
      <4>3. QED BY <4>1, <4>2, <1>2
    <3>3. ASSUME NEW a \in Sends, call'[a].step = "allowed", ~call'[a].beside
          PROVE  Cardinality(Chat!Recent(Sayer[Says[a]])') < RateLimit
      <4>1. call[a].step = "allowed" /\ ~call[a].beside
            BY <3>3, <2>8, <1>2
      <4>2. QED BY <4>1, <2>2, <2>3, <2>4, <1>0 DEF ChatRates
    <3>4. QED BY <3>1, <3>2, <3>3, <1>f DEF ChatRates, Active
  <2>10. Chat!RateKept'
        BY <2>2, <2>8, RateFrame, RateMeansNext
  <2>11. Chat!HiddenIsNotHeard' /\ Chat!ToldOnceAtMost'
        BY <1>0, <1>f DEF Chat!HiddenIsNotHeard, Chat!ToldOnceAtMost
  <2>12. QED BY <2>1, <2>5, <2>6, <2>9, <2>10, <2>11 DEF ChatInv
<1>3. QED BY <1>1, <1>2, <1>t, CallAsks

\* The message gets its row: no call has told anyone of it, and a call that ran alone was
\* counted against what is there.
LEMMA WriteKeeps ==
    ASSUME ChatInv, NEW c \in Sends, Chat!Write(c) PROVE ChatInv'
<1> USE TalkBounds
<1> DEFINE m == Says[c]
           s == Sayer[Says[c]]
<1>0. Chat!TypeOK /\ ChatHides /\ ChatTells /\ ChatRates /\ Chat!HiddenIsNotHeard /\ Chat!ToldOnceAtMost /\ Chat!RateKept
      BY DEF ChatInv
<1>f. UNCHANGED <<over, talker, routed, silenced, changes, wishes, heard, told, view>>
      BY DEF Chat!Write, Chat!roomVars, Chat!presence
<1>t. /\ call \in [Sends -> CallRecord] /\ hiding \in [Messages -> [Chat!Lists -> SUBSET Talkers]]
      /\ age \in [Messages -> {"none", "fresh", "recent", "old"}]
      BY <1>0, ChatRecords
<1>m. /\ m \in Messages /\ s \in Talkers /\ call[c].step = "allowed"
      /\ \A n \in Messages : Sayer[n] \in Talkers
      /\ \A d \in Sends : Says[d] \in Messages
      BY DEF Chat!Write
<1>1. CASE Chat!Finish(c) /\ UNCHANGED <<age, hiding>>
      BY <1>1, <1>f, <1>t, CallFinishes, CallGoesOn
<1>2. CASE /\ age[m] = "none" /\ age' = [age EXCEPT ![m] = "fresh"]
           /\ hiding' = [hiding EXCEPT ![m] = [l \in Chat!Lists |-> Chat!HidFrom(s, l)]]
           /\ call' = [call EXCEPT ![c].step = "written", ![c].unread = Chat!Lists]
  <2>1. /\ call' \in [Sends -> CallRecord]
        /\ call'[c].step = "written" /\ call'[c].unread = Chat!Lists /\ call'[c].beside = call[c].beside
        /\ \A d \in Sends : d # c => call'[d] = call[d]
    <3> DEFINE next == [call[c] EXCEPT !.step = "written", !.unread = Chat!Lists]
    <3>1. call' = [call EXCEPT ![c] = next]
          BY <1>2
    <3>2. next \in CallRecord /\ next.step = "written" /\ next.unread = Chat!Lists /\ next.beside = call[c].beside
          BY <1>t DEF CallRecord
    <3> HIDE DEF next
    <3>3. QED BY <3>1, <3>2, <1>t
  <2>2. \A u \in Talkers, l \in Chat!Lists : /\ Chat!HidFrom(u, l)' = Chat!HidFrom(u, l)
                                            /\ Chat!Hidden(u, l)' = Chat!Hidden(u, l)
                                            /\ Chat!HidFrom(u, l) \in SUBSET Talkers
        BY <1>f DEF Chat!HidFrom, Chat!Hidden
  <2>w. [l \in Chat!Lists |-> Chat!HidFrom(s, l)] \in [Chat!Lists -> SUBSET Talkers]
        BY <2>2, <1>m
  <2>3. /\ age' \in [Messages -> {"none", "fresh", "recent", "old"}] /\ hiding' \in [Messages -> [Chat!Lists -> SUBSET Talkers]]
        /\ age'[m] = "fresh" /\ \A l \in Chat!Lists : hiding'[m][l] = Chat!HidFrom(s, l)
        /\ \A n \in Messages : n # m => age'[n] = age[n] /\ hiding'[n] = hiding[n]
        BY <1>2, <1>t, <1>m, <2>w
  <2>4. Chat!TypeOK'
        BY <2>1, <2>3, <1>f, <1>0 DEF Chat!TypeOK, Chat!RoomTypeOK, CallRecord
  <2>5. \A d \in Sends : Delivering(d) => Says[d] # m
        BY <1>2, <1>0 DEF ChatTells
  <2>6. ChatHides'
    <3>1. \A n \in Messages, l \in Chat!Lists : hiding'[n][l] \subseteq Chat!HidFrom(Sayer[n], l)'
          BY <2>2, <2>3, <1>0, <1>m DEF ChatHides
    <3>2. ASSUME NEW d \in Sends, NEW l \in Chat!Lists, HasRead(d, l)'
          PROVE  hiding'[Says[d]][l] \subseteq call'[d].excluded
      <4>1. d # c /\ HasRead(d, l) /\ call'[d] = call[d]
            BY <3>2, <2>1 DEF HasRead
      <4>2. Says[d] # m
            BY <4>1, <2>5 DEF Delivering, HasRead
      <4>3. QED BY <4>1, <4>2, <2>3, <1>0, <1>m DEF ChatHides
    <3>3. QED BY <3>1, <3>2, <2>2, <1>f, <1>0 DEF ChatHides
  <2>7. ChatTells'
    <3>1. \A d \in Sends : Delivering(d)' => d = c \/ Delivering(d)
          BY <2>1 DEF Delivering
    <3>2. told[m] = 0
          BY <1>2, <1>0, <1>m DEF ChatTells
    <3>3. \A n \in Messages : age'[n] = "none" => age[n] = "none"
          BY <2>3
    <3>4. \A n \in Messages : age[n] # "none" => age'[n] # "none"
          BY <2>3
    <3>5. \A d \in Sends : Delivering(d)' => age'[Says[d]] # "none" /\ told[Says[d]] = 0
          BY <3>1, <3>2, <3>4, <2>3, <1>0, <1>m DEF ChatTells
    <3>6. \A a, b \in Sends : Delivering(a)' /\ Delivering(b)' /\ Says[a] = Says[b] => a = b
          BY <3>1, <2>5, <1>0 DEF ChatTells
    <3>7. QED BY <3>3, <3>5, <3>6, <1>f, <1>0 DEF ChatTells
  <2>8. Chat!HiddenIsNotHeard' /\ Chat!ToldOnceAtMost'
    <3>1. heard[m] = {}
          BY <1>2, <1>0, <1>m DEF ChatTells
    <3>2. \A n \in Messages, l \in Chat!Lists : heard'[n] \cap hiding'[n][l] = {}
          BY <3>1, <2>3, <1>f, <1>0 DEF Chat!HiddenIsNotHeard
    <3>3. QED BY <3>2, <1>f, <1>0 DEF Chat!HiddenIsNotHeard, Chat!ToldOnceAtMost
  <2>9. /\ Chat!Recent(s)' = Chat!Recent(s) \cup {m}
        /\ \A u \in Talkers : u # s => Chat!Recent(u)' = Chat!Recent(u)
        BY <2>3, <1>m DEF Chat!Recent
  <2>10. ChatRates'
    <3>1. \A d \in Sends : (Active(d)' <=> Active(d)) /\ call'[d].beside = call[d].beside
                           /\ (call'[d].step = "idle" => call[d].step = "idle")
          BY <2>1, <1>m DEF Active
    <3>2. ASSUME NEW d \in Sends, call'[d].step = "allowed", ~call'[d].beside
          PROVE  Cardinality(Chat!Recent(Sayer[Says[d]])') < RateLimit
      <4>1. d # c /\ call[d].step = "allowed" /\ ~call[d].beside
            BY <3>2, <2>1
      <4>2. Active(c) /\ Active(d)
            BY <4>1, <1>m DEF Active
      <4>3. Sayer[Says[d]] # s
            BY <4>1, <4>2, <1>0 DEF ChatRates
      <4>4. QED BY <4>1, <4>3, <2>9, <1>0, <1>m DEF ChatRates
    <3>3. QED BY <3>1, <3>2, <1>0 DEF ChatRates
  <2>11. Chat!RateKept'
    <3>1. \A d \in Sends : call[d].beside => call'[d].beside
          BY <2>1
    <3>2. ASSUME NEW u \in Talkers PROVE Cardinality(Alone(u)') <= RateLimit
      <4>1. CASE u # s
            BY <4>1, <3>1, <2>9, RateFrame
      <4>2. CASE u = s /\ call[c].beside
        <5>1. m \notin Alone(s)' /\ Alone(s)' \subseteq Alone(s)
              BY <4>2, <3>1, <2>9 DEF Alone
        <5>2. IsFiniteSet(Messages) /\ Alone(s) \subseteq Messages
              BY DEF Alone, Chat!Recent
        <5>3. Cardinality(Alone(s)') <= Cardinality(Alone(s)) /\ Cardinality(Alone(s)') \in Nat /\ Cardinality(Alone(s)) \in Nat
          <6>1. IsFiniteSet(Alone(s))
                BY <5>2, FS_Subset
          <6>2. IsFiniteSet(Alone(s)') /\ Cardinality(Alone(s)') <= Cardinality(Alone(s))
                BY <6>1, <5>1, FS_Subset
          <6>3. QED BY <6>1, <6>2, FS_CardinalityType
        <5>4. Cardinality(Alone(s)) <= RateLimit
              BY <1>0, <1>m, RateMeans
        <5>5. QED BY <5>3, <5>4, <4>2
      <4>3. CASE u = s /\ ~call[c].beside
        <5>1. Cardinality(Chat!Recent(s)) < RateLimit
              BY <4>3, <1>0, <1>m DEF ChatRates
        <5>2. IsFiniteSet(Chat!Recent(s))
          <6>1. Chat!Recent(s) \subseteq Messages
                BY DEF Chat!Recent
          <6>2. QED BY <6>1, FS_Subset
        <5>3. IsFiniteSet(Chat!Recent(s)') /\ Cardinality(Chat!Recent(s)') <= RateLimit
          <6>1. Cardinality(Chat!Recent(s)) \in Nat
                BY <5>2, FS_CardinalityType
          <6>2. /\ IsFiniteSet(Chat!Recent(s)')
                /\ Cardinality(Chat!Recent(s)') \in {Cardinality(Chat!Recent(s)), Cardinality(Chat!Recent(s)) + 1}
                BY <5>2, <2>9, FS_AddElement
          <6>3. QED BY <6>1, <6>2, <5>1
        <5>4. Alone(s)' \subseteq Chat!Recent(s)'
              BY DEF Alone
        <5>5. Cardinality(Alone(s)') <= Cardinality(Chat!Recent(s)') /\ Cardinality(Alone(s)') \in Nat
              /\ Cardinality(Chat!Recent(s)') \in Nat
              BY <5>3, <5>4, FS_Subset, FS_CardinalityType
        <5>6. QED BY <5>3, <5>5, <4>3
      <4>4. QED BY <4>1, <4>2, <4>3
    <3>3. QED BY <3>2, RateMeansNext
  <2>12. QED BY <2>4, <2>6, <2>7, <2>8, <2>10, <2>11 DEF ChatInv
<1>3. QED BY <1>1, <1>2 DEF Chat!Write

\* The broadcast leaves out everyone who hides the sayer, and nobody has been told yet.
LEMMA BroadcastKeeps ==
    ASSUME ChatInv, NEW c \in Sends, Chat!Broadcast(c) PROVE ChatInv'
<1> USE TalkBounds
<1> DEFINE m == Says[c]
<1>0. Chat!TypeOK /\ ChatHides /\ ChatTells /\ ChatRates /\ Chat!HiddenIsNotHeard /\ Chat!ToldOnceAtMost /\ Chat!RateKept
      BY DEF ChatInv
<1>f. UNCHANGED <<over, talker, routed, silenced, changes, wishes, age, hiding, view>>
      BY DEF Chat!Broadcast, Chat!roomVars, Chat!presence
<1>t. /\ call \in [Sends -> CallRecord] /\ heard \in [Messages -> SUBSET Talkers]
      /\ told \in [Messages -> Nat] /\ routed \subseteq Talkers
      BY <1>0, ChatRecords DEF Chat!TypeOK, Chat!RoomTypeOK
<1>m. /\ m \in Messages /\ call[c].step = "written" /\ call[c].unread = {}
      /\ \A n \in Messages : Sayer[n] \in Talkers
      /\ \A d \in Sends : Says[d] \in Messages
      BY DEF Chat!Broadcast
<1>1. /\ call' \in [Sends -> CallRecord]
      /\ call'[c].step = "done" /\ call'[c].beside = call[c].beside
      /\ \A d \in Sends : d # c => call'[d] = call[d]
      BY <1>t, CallFinishes DEF Chat!Broadcast
<1>2. /\ heard' \in [Messages -> SUBSET Talkers] /\ told' \in [Messages -> Nat]
      /\ heard'[m] = heard[m] \cup (routed \ call[c].excluded) /\ told'[m] = told[m] + 1
      /\ \A n \in Messages : n # m => heard'[n] = heard[n] /\ told'[n] = told[n]
      BY <1>t, <1>m DEF Chat!Broadcast
<1>3. Chat!TypeOK'
      BY <1>1, <1>2, <1>f, <1>0 DEF Chat!TypeOK, Chat!RoomTypeOK, CallRecord
<1>4. /\ \A u \in Talkers, l \in Chat!Lists : Chat!HidFrom(u, l)' = Chat!HidFrom(u, l) /\ Chat!Hidden(u, l)' = Chat!Hidden(u, l)
      /\ \A u \in Talkers : Chat!Recent(u)' = Chat!Recent(u)
      BY <1>f DEF Chat!HidFrom, Chat!Hidden, Chat!Recent
<1>5. ChatHides'
  <2>1. \A n \in Messages, l \in Chat!Lists : hiding'[n][l] \subseteq Chat!HidFrom(Sayer[n], l)'
        BY <1>0, <1>4, <1>f, <1>m DEF ChatHides
  <2>2. \A d \in Sends, l \in Chat!Lists : HasRead(d, l)' => hiding'[Says[d]][l] \subseteq call'[d].excluded
        BY <1>0, <1>1, <1>f DEF ChatHides, HasRead
  <2>3. QED BY <2>1, <2>2, <1>4, <1>f, <1>0 DEF ChatHides
<1>6. told[m] = 0 /\ age[m] # "none"
      BY <1>0, <1>m DEF ChatTells, Delivering
<1>7. ChatTells'
  <2>1. \A d \in Sends : Delivering(d)' => d # c /\ Delivering(d)
        BY <1>1 DEF Delivering
  <2>2. \A d \in Sends : Delivering(d)' => Says[d] # m
        BY <2>1, <1>0, <1>m DEF ChatTells, Delivering
  <2>3. QED BY <2>1, <2>2, <1>2, <1>6, <1>0, <1>f, <1>m DEF ChatTells
<1>8. ChatRates'
  <2>1. \A d \in Sends : (Active(d)' => Active(d)) /\ call'[d].beside = call[d].beside
                         /\ (call'[d].step = "idle" => call[d].step = "idle")
                         /\ (call'[d].step = "allowed" => call[d].step = "allowed")
        BY <1>1 DEF Active
  <2>2. QED BY <2>1, <1>4, <1>0, <1>m DEF ChatRates
<1>9. Chat!RateKept'
  <2>1. \A d \in Sends : call[d].beside => call'[d].beside
        BY <1>1
  <2>2. QED BY <2>1, <1>4, RateFrame, RateMeansNext
<1>10. Chat!ToldOnceAtMost'
      BY <1>2, <1>6, <1>0 DEF Chat!ToldOnceAtMost
<1>11. Chat!HiddenIsNotHeard'
  <2>1. \A l \in Chat!Lists : hiding[m][l] \subseteq call[c].excluded
        BY <1>0, <1>m DEF ChatHides, HasRead
  <2>2. \A n \in Messages, l \in Chat!Lists : heard'[n] \cap hiding'[n][l] = {}
        BY <2>1, <1>2, <1>f, <1>0 DEF Chat!HiddenIsNotHeard
  <2>3. QED BY <2>2, <1>f, <1>0 DEF Chat!HiddenIsNotHeard
<1>12. QED BY <1>3, <1>5, <1>7, <1>8, <1>9, <1>10, <1>11 DEF ChatInv

\* Time goes by: fewer messages are recent.
LEMMA AgesKeeps ==
    ASSUME ChatInv, NEW m \in Messages, Chat!Ages(m) PROVE ChatInv'
<1> USE TalkBounds
<1>0. Chat!TypeOK /\ ChatHides /\ ChatTells /\ ChatRates /\ Chat!HiddenIsNotHeard /\ Chat!ToldOnceAtMost /\ Chat!RateKept
      BY DEF ChatInv
<1>f. UNCHANGED <<over, talker, routed, silenced, changes, wishes, hiding, heard, told, call, view>>
      BY DEF Chat!Ages, Chat!roomVars, Chat!presence
<1>1. /\ age' \in [Messages -> {"none", "fresh", "recent", "old"}]
      /\ \A n \in Messages : (age'[n] = "none" <=> age[n] = "none") /\ (age'[n] = "fresh" => age[n] = "fresh")
      BY <1>0, ChatRecords DEF Chat!Ages
<1>2. Chat!TypeOK'
      BY <1>1, <1>f, <1>0 DEF Chat!TypeOK, Chat!RoomTypeOK
<1>3. ChatHides' /\ ChatTells' /\ Chat!HiddenIsNotHeard' /\ Chat!ToldOnceAtMost'
      BY <1>1, <1>f, <1>0 DEF ChatHides, ChatTells, HasRead, Delivering, Chat!HidFrom, Chat!Hidden, Chat!HiddenIsNotHeard, Chat!ToldOnceAtMost
<1>4. \A u \in Talkers : Chat!Recent(u)' \subseteq Chat!Recent(u) /\ IsFiniteSet(Chat!Recent(u)) /\ IsFiniteSet(Chat!Recent(u)')
  <2>1. \A u \in Talkers : Chat!Recent(u)' \subseteq Chat!Recent(u) /\ Chat!Recent(u) \subseteq Messages
        BY <1>1 DEF Chat!Recent
  <2>2. QED BY <2>1, FS_Subset
<1>5. \A u \in Talkers : /\ Cardinality(Alone(u)') <= RateLimit
                         /\ Cardinality(Chat!Recent(u)') <= Cardinality(Chat!Recent(u))
                         /\ Cardinality(Chat!Recent(u)') \in Nat /\ Cardinality(Chat!Recent(u)) \in Nat
      BY <1>4, <1>f, RateFrame, FS_CardinalityType
<1>6. Chat!RateKept'
      BY <1>5, RateMeansNext
<1>7. ChatRates'
  <2>1. \A c \in Sends : Sayer[Says[c]] \in Talkers
        OBVIOUS
  <2>2. ASSUME NEW c \in Sends, call'[c].step = "allowed", ~call'[c].beside
        PROVE  Cardinality(Chat!Recent(Sayer[Says[c]])') < RateLimit
    <3>1. Cardinality(Chat!Recent(Sayer[Says[c]])) < RateLimit
          BY <2>2, <1>f, <1>0 DEF ChatRates
    <3>2. QED BY <3>1, <2>1, <1>5
  <2>3. QED BY <2>2, <1>f, <1>0 DEF ChatRates, Active
<1>8. QED BY <1>2, <1>3, <1>6, <1>7 DEF ChatInv

\* What is shown is what was not hidden when the lists were read.
LEMMA ViewKeeps ==
    ASSUME ChatInv, NEW u \in Listeners,
           Chat!AskSnapshot(u) \/ (\E l \in Chat!Lists : Chat!ReadWishes(u, l)) \/ Chat!ReadRoom(u)
    PROVE  ChatInv'
<1> USE TalkBounds
<1>0. Chat!TypeOK /\ ChatHides /\ ChatTells /\ ChatRates /\ Chat!HiddenIsNotHeard /\ Chat!ToldOnceAtMost /\ Chat!RateKept
      BY DEF ChatInv
<1>t. view \in [Listeners -> ViewRecord] /\ view[u] \in ViewRecord
      BY <1>0, ChatRecords
<1>f. /\ UNCHANGED <<over, talker, routed, silenced, wishes, age, hiding, heard, told, call>>
      /\ changes' = changes \/ Chat!Change
      BY DEF Chat!AskSnapshot, Chat!ReadWishes, Chat!ReadRoom, Chat!presence, Chat!roomVars, Chat!saidVars
<1>h. \A k \in Chat!Lists : Chat!Hidden(u, k) \in SUBSET Talkers
      BY DEF Chat!Hidden
<1>1. ASSUME NEW next \in ViewRecord, view' = [view EXCEPT ![u] = next],
             \A k \in Chat!Lists : next.step = "asked" =>
                 /\ next.since[k] \subseteq Chat!Hidden(u, k)
                 /\ k \notin next.unread => next.since[k] \subseteq next.hidden,
             \A k \in Chat!Lists : \A m \in next.shows : Sayer[m] \notin next.since[k]
      PROVE  ChatInv'
  <2>1. /\ view' \in [Listeners -> ViewRecord] /\ view'[u] = next
        /\ \A v \in Listeners : v # u => view'[v] = view[v]
        BY <1>1, <1>t
  <2>2. Chat!TypeOK'
    <3>1. Chat!RoomTypeOK'
          BY <1>f, <1>0 DEF Chat!TypeOK, Chat!RoomTypeOK, Chat!Change
    <3>2. QED BY <3>1, <2>1, <1>f, <1>0 DEF Chat!TypeOK, ViewRecord
  <2>3. ChatHides' /\ ChatTells' /\ Chat!ToldOnceAtMost'
        BY <1>1, <2>1, <1>f, <1>0 DEF ChatHides, ChatTells, HasRead, Delivering, Chat!HidFrom, Chat!Hidden, Chat!ToldOnceAtMost
  <2>4. Chat!HiddenIsNotHeard'
        BY <1>1, <2>1, <1>f, <1>0 DEF Chat!HiddenIsNotHeard
  <2>5. \A v \in Talkers : Chat!Recent(v)' = Chat!Recent(v)
        BY <1>f DEF Chat!Recent
  <2>6. ChatRates'
    <3>1. \A c \in Sends : Sayer[Says[c]] \in Talkers
          OBVIOUS
    <3>2. QED BY <3>1, <2>5, <1>f, <1>0 DEF ChatRates, Active
  <2>7. Chat!RateKept'
        BY <2>5, <1>f, RateFrame, RateMeansNext
  <2>8. QED BY <2>2, <2>3, <2>4, <2>6, <2>7 DEF ChatInv
<1>2. CASE Chat!AskSnapshot(u)
  <2> DEFINE first == [k \in Chat!Lists |-> Chat!Hidden(u, k)]
             next == [Chat!NotViewing EXCEPT !.step = "asked", !.unread = Chat!Lists, !.since = first]
  <2>1. view' = [view EXCEPT ![u] = next]
        BY <1>2 DEF Chat!AskSnapshot
  <2>2. first \in [Chat!Lists -> SUBSET Talkers] /\ \A k \in Chat!Lists : first[k] = Chat!Hidden(u, k)
        BY <1>h
  <2> HIDE DEF first
  <2>3. next \in ViewRecord /\ next.unread = Chat!Lists /\ next.since = first /\ next.shows = {}
        BY <2>2 DEF Chat!NotViewing, ViewRecord
  <2> HIDE DEF next
  <2>4. QED BY <2>1, <2>2, <2>3, <1>1
<1>3. ASSUME NEW l \in Chat!Lists, Chat!ReadWishes(u, l) PROVE ChatInv'
  <2> DEFINE next == [view[u] EXCEPT !.unread = view[u].unread \ {l}, !.hidden = view[u].hidden \cup Chat!Hidden(u, l)]
  <2>1. view' = [view EXCEPT ![u] = next] /\ view[u].step = "asked"
        BY <1>3 DEF Chat!ReadWishes
  <2>2. /\ next \in ViewRecord /\ next.since = view[u].since /\ next.shows = view[u].shows
        /\ next.unread = view[u].unread \ {l} /\ next.hidden = view[u].hidden \cup Chat!Hidden(u, l)
        BY <1>h, <1>t DEF ViewRecord
  <2> HIDE DEF next
  <2>3. ASSUME NEW k \in Chat!Lists
        PROVE  /\ next.since[k] \subseteq Chat!Hidden(u, k)
               /\ k \notin next.unread => next.since[k] \subseteq next.hidden
        BY <2>1, <2>2, <1>0 DEF ChatHides
  <2>4. \A k \in Chat!Lists : \A m \in next.shows : Sayer[m] \notin next.since[k]
        BY <2>2, <1>0 DEF Chat!HiddenIsNotHeard
  <2>5. QED BY <2>1, <2>2, <2>3, <2>4, <1>1
<1>4. CASE Chat!ReadRoom(u)
  <2> DEFINE seen == {m \in Messages : age[m] # "none" /\ Sayer[m] \notin view[u].hidden}
             next == [view[u] EXCEPT !.step = "shown", !.shows = seen]
  <2>1. view' = [view EXCEPT ![u] = next] /\ view[u].step = "asked" /\ view[u].unread = {}
        BY <1>4 DEF Chat!ReadRoom
  <2>2. seen \in SUBSET Messages /\ \A m \in seen : Sayer[m] \notin view[u].hidden
        OBVIOUS
  <2> HIDE DEF seen
  <2>3. next \in ViewRecord /\ next.step = "shown" /\ next.since = view[u].since /\ next.shows = seen
        BY <2>2, <1>t DEF ViewRecord
  <2> HIDE DEF next
  <2>4. \A k \in Chat!Lists : view[u].since[k] \subseteq view[u].hidden
        BY <2>1, <1>0 DEF ChatHides
  <2>5. QED BY <2>1, <2>2, <2>3, <2>4, <1>1
<1>5. QED BY <1>2, <1>3, <1>4

LEMMA ChatStep ==
    ASSUME ChatInv, Chat!Next PROVE ChatInv'
<1>0. Chat!TypeOK /\ Chat!RoomTypeOK
      BY DEF ChatInv, Chat!TypeOK
<1>t. call \in [Sends -> CallRecord] /\ \A c \in Sends : Says[c] \in Messages
      BY <1>0, ChatRecords, TalkBounds
<1>1. ASSUME NEW c \in Sends, Chat!Allow(c) PROVE ChatInv'
  <2>1. UNCHANGED <<over, talker, routed, silenced, changes, wishes, age, hiding, heard, told, view>>
        BY <1>1 DEF Chat!Allow, Chat!roomVars, Chat!presence, Chat!saidVars
  <2>2. CASE Chat!Finish(c)
        BY <2>1, <2>2, <1>t, CallFinishes, CallGoesOn
  <2>3. CASE Chat!MaySay(Says[c]) /\ Chat!Goto(c, "allowed")
    <3>1. Cardinality(Chat!Recent(Sayer[Says[c]])) < RateLimit
          BY <2>3, ChatCardinality DEF Chat!MaySay
    <3>2. call[c].step = "asked"
          BY <1>1 DEF Chat!Allow
    <3>3. QED BY <2>1, <2>3, <3>1, <3>2, <1>t, CallGoes, CallGoesOn
  <2>4. QED BY <1>1, <2>2, <2>3 DEF Chat!Allow
<1>2. ASSUME NEW c \in Sends, Chat!Fail(c) PROVE ChatInv'
  <2>1. UNCHANGED <<over, talker, routed, silenced, changes, wishes, age, hiding, heard, told, view>>
        BY <1>2 DEF Chat!Fail, Chat!roomVars, Chat!presence, Chat!saidVars
  <2>2. QED BY <2>1, <1>2, <1>t, CallFinishes, CallGoesOn DEF Chat!Fail
<1>3. ASSUME NEW c \in Sends, NEW l \in Chat!Lists, Chat!Exclude(c, l) PROVE ChatInv'
  <2>1. UNCHANGED <<over, talker, routed, silenced, changes, wishes, age, hiding, heard, told, view>>
        BY <1>3 DEF Chat!Exclude, Chat!roomVars, Chat!presence, Chat!saidVars
  <2> DEFINE found == Chat!HidFrom(Sayer[Says[c]], l)
             next == [call[c] EXCEPT !.unread = call[c].unread \ {l}, !.excluded = call[c].excluded \cup found]
  <2>2. call' = [call EXCEPT ![c] = next] /\ call[c].step = "written"
        BY <1>3 DEF Chat!Exclude
  <2>3. found \in SUBSET Talkers
        BY DEF Chat!HidFrom
  <2> HIDE DEF found
  <2>4. /\ next \in CallRecord /\ next.step = call[c].step /\ next.beside = call[c].beside
        /\ next.unread = call[c].unread \ {l} /\ next.excluded = call[c].excluded \cup found
        BY <2>3, <1>t DEF CallRecord
  <2> HIDE DEF next
  <2>5. /\ call' \in [Sends -> CallRecord] /\ call'[c] = next
        /\ \A d \in Sends : d # c => call'[d] = call[d]
        BY <2>2, <2>4, <1>t
  <2>6. QED BY <2>1, <2>2, <2>4, <2>5, CallGoesOn DEF found
<1>4. ASSUME NEW c \in Sends, Chat!Ask(c) \/ Chat!Write(c) \/ Chat!Broadcast(c) PROVE ChatInv'
      BY <1>4, AskKeeps, WriteKeeps, BroadcastKeeps
<1>5. ASSUME NEW u \in Listeners, NEW v \in Talkers, Chat!SetMute(u, v) \/ Chat!SetBlock(u, v) PROVE ChatInv'
  <2>1. PICK l \in Chat!Lists : Chat!Change /\ Chat!Wishes(l, u, v)
        BY <1>5 DEF Chat!SetMute, Chat!SetBlock, Chat!Lists
  <2> DEFINE b == IF <<u, v>> \in wishes[l] THEN wishes[l] \ {<<u, v>>} ELSE wishes[l] \cup {<<u, v>>}
  <2>2. wishes[l] \in SUBSET (Talkers \X Talkers) /\ <<u, v>> \in Talkers \X Talkers
        BY <1>0, ChatRecords, TalkBounds
  <2>3. b \in SUBSET (Talkers \X Talkers) /\ Chat!Wish(l, b)
        BY <2>1, <2>2 DEF Chat!Wishes
  <2> HIDE DEF b
  <2>4. QED BY <2>1, <2>3, WishKeeps
<1>6. ASSUME \/ \E u \in Talkers : RoomMoves(u)
             \/ Chat!Finished,
             UNCHANGED <<wishes, Chat!saidVars, call, view>>
      PROVE  ChatInv'
  <2>1. Chat!RoomTypeOK'
        BY <1>0, <1>6, RoomKeepsType
  <2>2. UNCHANGED <<chatVars>>
        BY <1>6 DEF chatVars, Chat!saidVars
  <2>3. QED BY <2>1, <2>2, ChatAside
<1>7. QED BY <1>1, <1>2, <1>3, <1>4, <1>5, <1>6, AgesKeeps, ViewKeeps DEF Chat!Next, RoomMoves

\* The other games leave the chat alone.
LEMMA ChatStays ==
    ASSUME ChatInv, UNCHANGED <<roomVars, chatVars>> PROVE ChatInv'
<1>1. Chat!RoomTypeOK'
      BY DEF ChatInv, Chat!TypeOK, Chat!RoomTypeOK, roomVars
<1>2. QED BY <1>1, ChatAside

-------------------------------------------------------------------------------
\* The voice session of a Ludo room.

JoinSteps == {"idle", "asked", "checked", "opened", "entered", "read", "done"}
JoinRecord == [step : JoinSteps, holds : BOOLEAN, read : SUBSET Talkers]

\* A call that has read the participants and will count when it tells them of its caller.
Reads(c) == joining[c].step = "read" /\ joining[c].holds

\* Whoever has a socket plays; answers, and the calls that count, are on sockets, and of users
\* who are in; while the game goes on the session is open to all who have entered it.
VoiceHolds ==
    /\ \A u \in routed : ~over /\ talker[u] = "ACTIVE"
    /\ answered \subseteq routed \cap Joiners \cap talking
    /\ \A c \in Joins : Voice!Running(c) => Caller[c] \in Joiners
    /\ \A c \in Joins : joining[c].holds => Caller[c] \in routed
    /\ \A c \in Joins : joining[c].holds /\ joining[c].step \in {"entered", "read"} => Caller[c] \in talking
    /\ \A c \in Joins : ~over /\ joining[c].step \in {"opened", "entered", "read"} => voice = "OPEN"
    /\ \A u \in talking : ~over => voice = "OPEN"

\* Of two users of whom each was told, or is about to be, one has the other among those to call.
VoiceOffers ==
    /\ \A u, v \in answered : u = v \/ <<u, v>> \in offers \/ <<v, u>> \in offers
    /\ \A c, d \in Joins : Reads(c) /\ Reads(d) /\ Caller[c] # Caller[d]
                              => Caller[d] \in joining[c].read \/ Caller[c] \in joining[d].read
    /\ \A c \in Joins, v \in answered : Reads(c) /\ v # Caller[c]
                              => v \in joining[c].read \/ <<v, Caller[c]>> \in offers

VoiceInv == Voice!TypeOK /\ VoiceHolds /\ VoiceOffers

LEMMA VoiceRecords ==
    ASSUME Voice!TypeOK
    PROVE  /\ joining \in [Joins -> JoinRecord]
           /\ talker \in [Talkers -> {"ACTIVE", "DISCONNECTED", "FORFEITED", "FINISHED"}]
           /\ routed \subseteq Talkers /\ answered \subseteq Talkers /\ talking \subseteq Talkers
           /\ parting \subseteq Talkers /\ offers \subseteq Talkers \X Talkers
BY DEF Voice!TypeOK, Voice!RoomTypeOK, JoinRecord, JoinSteps

\* Two who were answered can reach one another.
LEMMA AnsweredMayRelay == VoiceInv => Voice!PairsAreOffered
<1> SUFFICES ASSUME VoiceInv, NEW u \in answered, NEW v \in answered, u # v
             PROVE  /\ <<u, v>> \in offers \/ <<v, u>> \in offers
                    /\ {u, v} \cap silenced = {} => Voice!MayRelay(u, v)
    BY DEF Voice!PairsAreOffered
<1>1. <<u, v>> \in offers \/ <<v, u>> \in offers
      BY DEF VoiceInv, VoiceOffers
<1>2. {u, v} \subseteq routed \cap Joiners \cap talking
      BY DEF VoiceInv, VoiceHolds
<1>3. ~over /\ talker[u] = "ACTIVE" /\ talker[v] = "ACTIVE" /\ voice = "OPEN"
      BY <1>2 DEF VoiceInv, VoiceHolds
<1>4. QED BY <1>1, <1>2, <1>3 DEF Voice!MayRelay, Voice!IsMember, Voice!MayTalk

LEMMA VoiceInitHolds == Voice!Init => VoiceInv
<1> SUFFICES ASSUME Voice!Init PROVE VoiceInv
    OBVIOUS
<1>1. changes = 0 /\ VoiceChanges \in Nat /\ over = FALSE /\ routed = Talkers /\ silenced = {}
      BY TalkBounds DEF Voice!Init, Voice!RoomInit
<1>2. changes \in 0..VoiceChanges
      BY <1>1
<1>3. over \in BOOLEAN
      BY <1>1
<1>4. talker = [u \in Talkers |-> "ACTIVE"]
      BY DEF Voice!Init, Voice!RoomInit
<1>5. /\ joining \in [Joins -> JoinRecord]
      /\ \A c \in Joins : joining[c].step = "idle" /\ ~joining[c].holds
      BY DEF Voice!Init, JoinRecord, JoinSteps
<1>6. Voice!TypeOK
      BY <1>1, <1>2, <1>3, <1>4, <1>5 DEF Voice!Init, Voice!RoomTypeOK, Voice!TypeOK, JoinRecord, JoinSteps
<1>7. VoiceHolds
      BY <1>1, <1>4, <1>5 DEF Voice!Init, VoiceHolds, Voice!Running
<1>8. VoiceOffers
      BY <1>5 DEF Voice!Init, VoiceOffers, Reads
<1>9. QED BY <1>6, <1>7, <1>8 DEF VoiceInv

\* What becomes of a join that goes on, or ends, or whose user lets go of it.
LEMMA JoinGoes ==
    ASSUME joining \in [Joins -> JoinRecord], NEW c \in Joins, NEW s \in JoinSteps, Voice!Goto(c, s)
    PROVE  /\ joining' \in [Joins -> JoinRecord]
           /\ joining'[c].step = s /\ joining'[c].holds = joining[c].holds /\ joining'[c].read = joining[c].read
           /\ \A d \in Joins : d # c => joining'[d] = joining[d]
<1> DEFINE next == [joining[c] EXCEPT !.step = s]
<1>1. joining' = [joining EXCEPT ![c] = next]
      BY DEF Voice!Goto
<1>2. next \in JoinRecord /\ next.step = s /\ next.holds = joining[c].holds /\ next.read = joining[c].read
      BY DEF JoinRecord
<1> HIDE DEF next
<1>3. QED BY <1>1, <1>2

LEMMA JoinFinishes ==
    ASSUME joining \in [Joins -> JoinRecord], NEW c \in Joins, Voice!Finish(c)
    PROVE  /\ joining' \in [Joins -> JoinRecord]
           /\ joining'[c].step = "done" /\ ~joining'[c].holds
           /\ \A d \in Joins : d # c => joining'[d] = joining[d]
<1> DEFINE next == [step |-> "done", holds |-> FALSE, read |-> {}]
<1>1. joining' = [joining EXCEPT ![c] = next]
      BY DEF Voice!Finish
<1>2. next \in JoinRecord /\ next.step = "done" /\ ~next.holds
      BY DEF JoinRecord, JoinSteps
<1> HIDE DEF next
<1>3. QED BY <1>1, <1>2

LEMMA JoinLetsGo ==
    ASSUME joining \in [Joins -> JoinRecord], NEW u, Voice!LetGo(u)
    PROVE  /\ joining' \in [Joins -> JoinRecord]
           /\ \A c \in Joins : /\ joining'[c].step = joining[c].step /\ joining'[c].read = joining[c].read
                               /\ joining'[c].holds => joining[c].holds /\ Caller[c] # u
<1> DEFINE loose(c) == [joining[c] EXCEPT !.holds = FALSE]
<1>1. joining' = [c \in Joins |-> IF Caller[c] = u THEN loose(c) ELSE joining[c]]
      BY DEF Voice!LetGo
<1>2. \A c \in Joins : /\ loose(c) \in JoinRecord /\ ~loose(c).holds
                       /\ loose(c).step = joining[c].step /\ loose(c).read = joining[c].read
      BY DEF JoinRecord
<1> HIDE DEF loose
<1>3. QED BY <1>1, <1>2

\* Who hangs up, on a socket that is lost or by leaving, takes no pair of others apart.
LEMMA HangUpKeeps ==
    ASSUME VoiceInv, NEW u, Voice!HangsUp(u)
    PROVE  /\ VoiceOffers'
           /\ joining' \in [Joins -> JoinRecord] /\ offers' \subseteq offers
           /\ answered' \subseteq answered \ {u}
           /\ \A c \in Joins : /\ joining'[c].step = joining[c].step
                               /\ joining'[c].holds => joining[c].holds /\ Caller[c] # u
<1>1. /\ joining' \in [Joins -> JoinRecord]
      /\ \A c \in Joins : /\ joining'[c].step = joining[c].step /\ joining'[c].read = joining[c].read
                          /\ joining'[c].holds => joining[c].holds /\ Caller[c] # u
      BY VoiceRecords, JoinLetsGo DEF VoiceInv, Voice!HangsUp
<1>2. answered' = answered \ {u} /\ offers' \subseteq offers
      /\ \A v, w : v # u /\ w # u /\ <<v, w>> \in offers => <<v, w>> \in offers'
      BY DEF Voice!HangsUp, Voice!Without
<1>3. VoiceOffers'
  <2>1. \A v, w \in answered' : v = w \/ <<v, w>> \in offers' \/ <<w, v>> \in offers'
        BY <1>2 DEF VoiceInv, VoiceOffers
  <2>2. \A c, d \in Joins : Reads(c)' /\ Reads(d)' /\ Caller[c] # Caller[d]
                               => Caller[d] \in joining'[c].read \/ Caller[c] \in joining'[d].read
        BY <1>1 DEF VoiceInv, VoiceOffers, Reads
  <2>3. ASSUME NEW c \in Joins, NEW v \in answered', Reads(c)', v # Caller[c]
        PROVE  v \in joining'[c].read \/ <<v, Caller[c]>> \in offers'
    <3>1. Reads(c) /\ Caller[c] # u /\ v \in answered /\ v # u /\ joining'[c].read = joining[c].read
          BY <2>3, <1>1, <1>2 DEF Reads
    <3>2. v \in joining[c].read \/ <<v, Caller[c]>> \in offers
          BY <2>3, <3>1 DEF VoiceInv, VoiceOffers
    <3>3. QED BY <3>1, <3>2, <1>2
  <2>4. QED BY <2>1, <2>2, <2>3 DEF VoiceOffers
<1>4. QED BY <1>1, <1>2, <1>3

\* A call that goes on, or ends, without telling anyone and without having read just now.
LEMMA JoinGoesOn ==
    ASSUME VoiceInv, NEW c \in Joins, UNCHANGED <<answered, offers>>,
           \A d \in Joins : d # c => joining'[d] = joining[d],
           joining'[c].step # "read"
    PROVE  VoiceOffers'
<1>1. \A d \in Joins : Reads(d)' => d # c /\ Reads(d) /\ joining'[d] = joining[d]
      BY DEF Reads
<1>2. QED BY <1>1 DEF VoiceInv, VoiceOffers

\* joinVoice, step by step.
LEMMA JoinKeeps ==
    ASSUME VoiceInv, NEW c \in Joins,
           \/ Voice!AskVoice(c) \/ Voice!CheckVoice(c) \/ Voice!OpenVoice(c) \/ Voice!EnterVoice(c)
           \/ Voice!ReadTalking(c) \/ Voice!AnswerJoin(c) \/ Voice!FailJoin(c)
    PROVE  VoiceInv'
<1> USE TalkBounds DEF Voice!presence, Voice!roomVars
<1>0. Voice!TypeOK /\ VoiceHolds /\ VoiceOffers
      BY DEF VoiceInv
<1>t. /\ joining \in [Joins -> JoinRecord] /\ joining[c] \in JoinRecord /\ Caller[c] \in Talkers
      /\ answered \subseteq Talkers /\ talking \subseteq Talkers /\ offers \subseteq Talkers \X Talkers
      BY <1>0, VoiceRecords
<1>r. UNCHANGED <<over, talker, routed, silenced, changes, parting>>
      BY DEF Voice!AskVoice, Voice!CheckVoice, Voice!OpenVoice, Voice!EnterVoice, Voice!ReadTalking,
             Voice!AnswerJoin, Voice!FailJoin
<1>y. ASSUME joining' \in [Joins -> JoinRecord], voice' \in {"NONE", "OPEN", "ENDED"}, talking' \subseteq Talkers,
             answered' \subseteq Talkers, offers' \subseteq Talkers \X Talkers
      PROVE  Voice!TypeOK'
      BY <1>y, <1>r, <1>0 DEF Voice!TypeOK, Voice!RoomTypeOK, JoinRecord, JoinSteps
<1>1. CASE Voice!AskVoice(c)
  <2>1. UNCHANGED <<voice, talking, answered, offers>> /\ joining[c].step = "idle" /\ Caller[c] \in Joiners
        BY <1>1 DEF Voice!AskVoice
  <2>2. /\ joining' \in [Joins -> JoinRecord] /\ joining'[c].step = "asked"
        /\ joining'[c].holds => joining[c].holds \/ Caller[c] \in routed
        /\ \A d \in Joins : d # c => joining'[d] = joining[d]
    <3>1. CASE Voice!Goto(c, "asked")
      <4>1. "asked" \in JoinSteps
            BY DEF JoinSteps
      <4>2. QED BY <4>1, <3>1, <1>t, JoinGoes
    <3>2. CASE /\ Caller[c] \in routed
               /\ joining' = [joining EXCEPT ![c].step = "asked", ![c].holds = TRUE]
      <4> DEFINE next == [joining[c] EXCEPT !.step = "asked", !.holds = TRUE]
      <4>1. joining' = [joining EXCEPT ![c] = next]
            BY <3>2
      <4>2. next \in JoinRecord /\ next.step = "asked"
            BY <1>t DEF JoinRecord, JoinSteps
      <4> HIDE DEF next
      <4>3. QED BY <4>1, <4>2, <3>2, <1>t
    <3>3. QED BY <1>1, <3>1, <3>2 DEF Voice!AskVoice
  <2>3. VoiceHolds'
        BY <2>1, <2>2, <1>r, <1>0 DEF VoiceHolds, Voice!Running
  <2>4. VoiceOffers'
        BY <2>1, <2>2, JoinGoesOn
  <2>5. Voice!TypeOK'
        BY <2>1, <2>2, <1>t, <1>y, <1>0 DEF Voice!TypeOK
  <2>6. QED BY <2>3, <2>4, <2>5 DEF VoiceInv
<1>2. CASE Voice!CheckVoice(c) \/ Voice!OpenVoice(c) \/ Voice!EnterVoice(c)
  <2>1. PICK s \in {"checked", "opened", "entered"} :
            /\ Voice!Goto(c, s) /\ joining[c].step \notin {"idle", "done"}
            /\ s = "checked" => UNCHANGED <<voice, talking>>
            /\ s = "opened" => voice' = "OPEN" /\ talking' = talking
            /\ s = "entered" => /\ voice' = voice /\ talking' = talking \cup {Caller[c]}
                                /\ joining[c].step = "opened"
        BY <1>2 DEF Voice!CheckVoice, Voice!OpenVoice, Voice!EnterVoice
  <2>2. UNCHANGED <<answered, offers>>
        BY <1>2 DEF Voice!CheckVoice, Voice!OpenVoice, Voice!EnterVoice
  <2>3. /\ joining' \in [Joins -> JoinRecord]
        /\ joining'[c].step = s /\ joining'[c].holds = joining[c].holds
        /\ \A d \in Joins : d # c => joining'[d] = joining[d]
    <3>1. s \in JoinSteps
          BY DEF JoinSteps
    <3>2. QED BY <3>1, <2>1, <1>t, JoinGoes
  <2>4. VoiceHolds'
    <3>1. voice' = voice \/ voice' = "OPEN"
          BY <2>1
    <3>2. talking \subseteq talking' /\ (s = "entered" => Caller[c] \in talking')
          BY <2>1
    <3>3. \A u \in talking' : ~over => voice' = "OPEN"
          BY <2>1, <3>1, <1>0 DEF VoiceHolds
    <3>4. ~over /\ s \in {"opened", "entered"} => voice' = "OPEN"
          BY <2>1, <1>0 DEF VoiceHolds
    <3>5. \A d \in Joins : /\ Voice!Running(d)' => Voice!Running(d)
                           /\ joining'[d].holds => joining[d].holds
          BY <2>1, <2>3 DEF Voice!Running
    <3>6. ASSUME NEW d \in Joins, joining'[d].holds, joining'[d].step \in {"entered", "read"}
          PROVE  Caller[d] \in talking'
          BY <3>6, <3>2, <2>3, <1>0 DEF VoiceHolds
    <3>7. ASSUME NEW d \in Joins, ~over, joining'[d].step \in {"opened", "entered", "read"}
          PROVE  voice' = "OPEN"
          BY <3>7, <3>1, <3>4, <2>3, <1>0 DEF VoiceHolds
    <3>8. QED BY <3>2, <3>3, <3>5, <3>6, <3>7, <2>2, <1>r, <1>0 DEF VoiceHolds
  <2>5. VoiceOffers'
        BY <2>2, <2>3, JoinGoesOn
  <2>6. Voice!TypeOK'
        BY <2>1, <2>2, <2>3, <1>t, <1>y, <1>0 DEF Voice!TypeOK
  <2>7. QED BY <2>4, <2>5, <2>6 DEF VoiceInv
<1>3. CASE Voice!ReadTalking(c)
  <2>1. UNCHANGED <<voice, talking, answered, offers>> /\ joining[c].step = "entered"
        BY <1>3 DEF Voice!ReadTalking
  <2> DEFINE others == talking \ {Caller[c]}
             next == [joining[c] EXCEPT !.step = "read", !.read = others]
  <2>2. joining' = [joining EXCEPT ![c] = next]
        BY <1>3 DEF Voice!ReadTalking
  <2>3. next \in JoinRecord /\ next.step = "read" /\ next.holds = joining[c].holds /\ next.read = others
        BY <1>t DEF JoinRecord, JoinSteps
  <2> HIDE DEF next
  <2>4. /\ joining' \in [Joins -> JoinRecord] /\ joining'[c] = next
        /\ \A d \in Joins : d # c => joining'[d] = joining[d]
        BY <2>2, <2>3, <1>t
  <2>5. VoiceHolds'
        BY <2>1, <2>3, <2>4, <1>r, <1>0 DEF VoiceHolds, Voice!Running
  <2>6. \A d \in Joins : /\ Reads(d)' => Caller[d] \in talking
                         /\ Reads(d)' /\ d # c => Reads(d) /\ joining'[d].read = joining[d].read
        BY <2>1, <2>3, <2>4, <1>0 DEF VoiceHolds, Reads
  <2>7. VoiceOffers'
    <3>1. \A a, b \in Joins : Reads(a)' /\ Reads(b)' /\ Caller[a] # Caller[b]
                                 => Caller[b] \in joining'[a].read \/ Caller[a] \in joining'[b].read
          BY <2>3, <2>4, <2>6, <1>0 DEF VoiceOffers
    <3>2. \A d \in Joins, v \in answered : Reads(d)' /\ v # Caller[d]
                                 => v \in joining'[d].read \/ <<v, Caller[d]>> \in offers
          BY <2>3, <2>4, <2>6, <1>0 DEF VoiceOffers, VoiceHolds
    <3>3. QED BY <3>1, <3>2, <2>1, <1>0 DEF VoiceOffers
  <2>8. Voice!TypeOK'
        BY <2>1, <2>4, <1>t, <1>y, <1>0 DEF Voice!TypeOK
  <2>9. QED BY <2>5, <2>7, <2>8 DEF VoiceInv
<1>4. CASE Voice!AnswerJoin(c)
  <2>1. UNCHANGED <<voice, talking>> /\ joining[c].step = "read"
        BY <1>4 DEF Voice!AnswerJoin
  <2>2. /\ joining' \in [Joins -> JoinRecord] /\ joining'[c].step = "done" /\ ~joining'[c].holds
        /\ \A d \in Joins : d # c => joining'[d] = joining[d]
        BY <1>4, <1>t, JoinFinishes DEF Voice!AnswerJoin
  <2>3. Voice!OffersOf(c) \subseteq Talkers \X Talkers
        BY <1>t DEF Voice!OffersOf, JoinRecord
  <2>4. /\ offers \subseteq offers' /\ offers' \subseteq offers \cup Voice!OffersOf(c)
        /\ Caller[c] \in routed => Voice!OffersOf(c) \subseteq offers'
        /\ ~joining[c].holds => answered' = answered
        /\ joining[c].holds => answered' = answered \cup {Caller[c]}
        BY <1>4 DEF Voice!AnswerJoin
  <2>5. \A d \in Joins : Reads(d)' => d # c /\ Reads(d) /\ joining'[d] = joining[d]
        BY <2>2 DEF Reads
  <2>6. joining[c].holds => Caller[c] \in routed \cap Joiners \cap talking
        BY <2>1, <1>0 DEF VoiceHolds, Voice!Running
  <2>7. VoiceHolds'
    <3>1. answered' \subseteq routed \cap Joiners \cap talking
          BY <2>4, <2>6, <1>0 DEF VoiceHolds
    <3>2. QED BY <3>1, <2>1, <2>2, <1>r, <1>0 DEF VoiceHolds, Voice!Running
  <2>8. VoiceOffers'
    <3>1. CASE ~joining[c].holds
      <4>1. answered' = answered
            BY <3>1, <2>4
      <4>2. QED BY <4>1, <2>4, <2>5, <1>0 DEF VoiceOffers
    <3>2. CASE joining[c].holds
      <4>1. answered' = answered \cup {Caller[c]} /\ Reads(c)
            BY <3>2, <2>1, <2>4 DEF Reads
      <4>2. \A v \in joining[c].read : <<Caller[c], v>> \in offers'
            BY <3>2, <2>4, <2>6 DEF Voice!OffersOf
      <4>3. \A v \in answered : v # Caller[c] => <<Caller[c], v>> \in offers' \/ <<v, Caller[c]>> \in offers'
            BY <4>1, <4>2, <2>4, <1>0 DEF VoiceOffers
      <4>4. \A u, v \in answered' : u = v \/ <<u, v>> \in offers' \/ <<v, u>> \in offers'
            BY <4>1, <4>3, <2>4, <1>0 DEF VoiceOffers
      <4>5. \A d \in Joins : Reads(d)' /\ Caller[c] # Caller[d]
                                => Caller[c] \in joining'[d].read \/ <<Caller[c], Caller[d]>> \in offers'
            BY <4>1, <4>2, <2>5, <1>0 DEF VoiceOffers
      <4>6. \A d \in Joins, v \in answered' : Reads(d)' /\ v # Caller[d]
                                => v \in joining'[d].read \/ <<v, Caller[d]>> \in offers'
            BY <4>1, <4>5, <2>4, <2>5, <1>0 DEF VoiceOffers
      <4>7. QED BY <4>4, <4>6, <2>5, <1>0 DEF VoiceOffers
    <3>3. QED BY <3>1, <3>2
  <2>9. Voice!TypeOK'
    <3>1. answered' \subseteq Talkers /\ offers' \subseteq Talkers \X Talkers
          BY <2>3, <2>4, <1>t
    <3>2. QED BY <3>1, <2>1, <2>2, <1>t, <1>y, <1>0 DEF Voice!TypeOK
  <2>10. QED BY <2>7, <2>8, <2>9 DEF VoiceInv
<1>5. CASE Voice!FailJoin(c)
  <2>1. UNCHANGED <<voice, talking, answered, offers>>
        BY <1>5 DEF Voice!FailJoin
  <2>2. /\ joining' \in [Joins -> JoinRecord] /\ joining'[c].step = "done" /\ ~joining'[c].holds
        /\ \A d \in Joins : d # c => joining'[d] = joining[d]
        BY <1>5, <1>t, JoinFinishes DEF Voice!FailJoin
  <2>3. VoiceHolds'
        BY <2>1, <2>2, <1>r, <1>0 DEF VoiceHolds, Voice!Running
  <2>4. VoiceOffers'
        BY <2>1, <2>2, JoinGoesOn
  <2>5. Voice!TypeOK'
        BY <2>1, <2>2, <1>t, <1>y, <1>0 DEF Voice!TypeOK
  <2>6. QED BY <2>3, <2>4, <2>5 DEF VoiceInv
<1>6. QED BY <1>1, <1>2, <1>3, <1>4, <1>5

\* Who leaves, loses the socket or forfeits, and the end of the game.
LEMMA HangUpStep ==
    ASSUME VoiceInv, NEW u \in Talkers,
           \/ Voice!LeaveVoice(u) \/ Voice!Disconnect(u) \/ Voice!Forfeit(u)
           \/ Voice!TellLeave(u) /\ Voice!HangsUp(u)
    PROVE  VoiceInv'
<1> USE TalkBounds DEF Voice!presence, Voice!roomVars
<1>0. Voice!TypeOK /\ VoiceHolds
      BY DEF VoiceInv
<1>t. /\ talker \in [Talkers -> {"ACTIVE", "DISCONNECTED", "FORFEITED", "FINISHED"}]
      /\ routed \subseteq Talkers /\ answered \subseteq Talkers /\ talking \subseteq Talkers
      /\ offers \subseteq Talkers \X Talkers
      BY <1>0, VoiceRecords
<1>h. Voice!HangsUp(u)
      BY DEF Voice!LeaveVoice, Voice!Disconnect, Voice!Forfeit
<1>1. /\ VoiceOffers'
      /\ joining' \in [Joins -> JoinRecord] /\ offers' \subseteq offers
      /\ answered' \subseteq answered \ {u}
      /\ \A c \in Joins : /\ joining'[c].step = joining[c].step
                          /\ joining'[c].holds => joining[c].holds /\ Caller[c] # u
      BY <1>h, HangUpKeeps
<1>2. /\ voice' = voice /\ over' = over /\ parting' \subseteq Talkers
      /\ talking' \subseteq talking /\ talking \subseteq talking' \cup {u}
      /\ routed' \subseteq routed /\ routed \subseteq routed' \cup {u}
      /\ \A v \in routed' : talker'[v] = talker[v]
  <2>1. CASE Voice!LeaveVoice(u) \/ Voice!TellLeave(u)
        BY <2>1, <1>0 DEF Voice!LeaveVoice, Voice!TellLeave, Voice!TypeOK
  <2>2. CASE Voice!Disconnect(u)
        BY <2>2, <1>0 DEF Voice!Disconnect, Voice!LoseSocket, Voice!TypeOK
  <2>3. CASE Voice!Forfeit(u)
        BY <2>3, <1>0, <1>t DEF Voice!Forfeit, Voice!GiveUp, Voice!TypeOK
  <2>4. QED BY <2>1, <2>2, <2>3
<1>3. Voice!RoomTypeOK'
  <2>1. CASE Voice!LeaveVoice(u) \/ Voice!TellLeave(u)
        BY <2>1, <1>0 DEF Voice!LeaveVoice, Voice!TellLeave, Voice!Change, Voice!TypeOK, Voice!RoomTypeOK
  <2>2. CASE Voice!Disconnect(u)
        BY <2>2, <1>0 DEF Voice!Disconnect, Voice!LoseSocket, Voice!Change, Voice!TypeOK, Voice!RoomTypeOK
  <2>3. CASE Voice!Forfeit(u)
        BY <2>3, <1>0 DEF Voice!Forfeit, Voice!GiveUp, Voice!Change, Voice!TypeOK, Voice!RoomTypeOK
  <2>4. QED BY <2>1, <2>2, <2>3
<1>4. Voice!TypeOK'
      BY <1>0, <1>1, <1>2, <1>3, <1>t DEF Voice!TypeOK, JoinRecord, JoinSteps
<1>5. VoiceHolds'
  <2>1. \A v \in routed' : ~over' /\ talker'[v] = "ACTIVE"
        BY <1>2, <1>0 DEF VoiceHolds
  <2>2. answered' \subseteq routed' \cap Joiners \cap talking'
        BY <1>1, <1>2, <1>0 DEF VoiceHolds
  <2>3. \A c \in Joins : joining'[c].holds => Caller[c] \in routed'
        BY <1>1, <1>2, <1>0 DEF VoiceHolds
  <2>4. \A c \in Joins : joining'[c].holds /\ joining'[c].step \in {"entered", "read"} => Caller[c] \in talking'
        BY <1>1, <1>2, <1>0 DEF VoiceHolds
  <2>5. \A c \in Joins : Voice!Running(c)' => Caller[c] \in Joiners
        BY <1>1, <1>0 DEF VoiceHolds, Voice!Running
  <2>6. \A c \in Joins : ~over' /\ joining'[c].step \in {"opened", "entered", "read"} => voice' = "OPEN"
        BY <1>1, <1>2, <1>0 DEF VoiceHolds
  <2>7. \A v \in talking' : ~over' => voice' = "OPEN"
        BY <1>2, <1>0 DEF VoiceHolds
  <2>8. QED BY <2>1, <2>2, <2>3, <2>4, <2>5, <2>6, <2>7 DEF VoiceHolds
<1>6. QED BY <1>1, <1>4, <1>5 DEF VoiceInv

LEMMA CompleteKeeps ==
    ASSUME VoiceInv, Voice!Complete PROVE VoiceInv'
<1> USE TalkBounds
<1>0. Voice!TypeOK /\ VoiceHolds /\ joining \in [Joins -> JoinRecord]
      BY VoiceRecords DEF VoiceInv
<1> DEFINE loose(c) == [joining[c] EXCEPT !.holds = FALSE]
<1>1. \A c \in Joins : loose(c) \in JoinRecord /\ ~loose(c).holds /\ loose(c).step = joining[c].step
      BY <1>0 DEF JoinRecord
<1>2. joining' = [c \in Joins |-> loose(c)]
      BY DEF Voice!Complete
<1> HIDE DEF loose
<1>3. /\ joining' \in [Joins -> JoinRecord]
      /\ \A c \in Joins : ~joining'[c].holds /\ joining'[c].step = joining[c].step
      BY <1>1, <1>2
<1>4. over' = TRUE /\ routed' = {} /\ answered' = {} /\ offers' = {} /\ UNCHANGED <<talking, parting>>
      BY DEF Voice!Complete, Voice!Finished
<1>5. Voice!RoomTypeOK'
      BY <1>0 DEF Voice!Complete, Voice!Finished, Voice!Change, Voice!TypeOK, Voice!RoomTypeOK
<1>6. Voice!TypeOK'
      BY <1>0, <1>3, <1>4, <1>5 DEF Voice!Complete, Voice!TypeOK, JoinRecord, JoinSteps
<1>7. VoiceHolds' /\ VoiceOffers'
      BY <1>0, <1>3, <1>4 DEF VoiceHolds, VoiceOffers, Reads, Voice!Running
<1>8. QED BY <1>6, <1>7 DEF VoiceInv

\* The room alone: nobody enters or leaves the voice session by it.
LEMMA PresenceKeeps ==
    ASSUME VoiceInv, NEW u \in Talkers, UNCHANGED <<voiceVars>>,
           Voice!Restrict(u) \/ Voice!MarkDisconnected(u) \/ Voice!ComeBack(u)
    PROVE  VoiceInv'
<1> USE TalkBounds DEF Voice!presence
<1>0. Voice!TypeOK /\ Voice!RoomTypeOK /\ VoiceHolds /\ VoiceOffers
      BY DEF VoiceInv, Voice!TypeOK
<1>v. UNCHANGED <<voice, talking, joining, parting, answered, offers>>
      BY DEF voiceVars
<1>1. Voice!RoomTypeOK'
      BY <1>0 DEF Voice!RoomTypeOK, Voice!Change, Voice!Restrict, Voice!MarkDisconnected, Voice!ComeBack
<1>2. over' = over /\ routed \subseteq routed' /\ \A v \in routed' : ~over' /\ talker'[v] = "ACTIVE"
  <2>1. CASE Voice!Restrict(u)
        BY <2>1, <1>0 DEF Voice!Restrict, VoiceHolds
  <2>2. CASE Voice!MarkDisconnected(u)
        BY <2>2, <1>0 DEF Voice!MarkDisconnected, VoiceHolds, Voice!RoomTypeOK
  <2>3. CASE Voice!ComeBack(u)
        BY <2>3, <1>0 DEF Voice!ComeBack, VoiceHolds, Voice!RoomTypeOK
  <2>4. QED BY <2>1, <2>2, <2>3
<1>3. VoiceHolds'
      BY <1>v, <1>2, <1>0 DEF VoiceHolds, Voice!Running
<1>4. VoiceOffers'
      BY <1>v, <1>0 DEF VoiceOffers, Reads
<1>5. Voice!TypeOK'
      BY <1>v, <1>1, <1>0 DEF Voice!TypeOK
<1>6. QED BY <1>3, <1>4, <1>5 DEF VoiceInv

\* A leave that is cut off before it is told.
LEMMA LeaveCutOff ==
    ASSUME VoiceInv, NEW u \in Talkers, Voice!TellLeave(u), UNCHANGED <<answered, offers, joining>>
    PROVE  VoiceInv'
<1>1. UNCHANGED <<over, talker, routed, silenced, changes, voice, talking>> /\ parting' \subseteq parting
      BY DEF Voice!TellLeave, Voice!roomVars, Voice!presence
<1>2. QED BY <1>1 DEF VoiceInv, VoiceHolds, VoiceOffers, Reads, Voice!Running, Voice!TypeOK, Voice!RoomTypeOK

LEMMA VoiceStep ==
    ASSUME VoiceInv, Voice!Next PROVE VoiceInv'
<1>1. ASSUME NEW u \in Talkers, Voice!TellLeave(u) PROVE VoiceInv'
      BY <1>1, HangUpStep, LeaveCutOff DEF Voice!TellLeave
<1>2. ASSUME NEW u \in Talkers, Voice!Restrict(u) \/ Voice!MarkDisconnected(u) \/ Voice!ComeBack(u),
             UNCHANGED Voice!voiceVars
      PROVE  VoiceInv'
  <2>1. UNCHANGED <<voiceVars>>
        BY <1>2 DEF voiceVars, Voice!voiceVars
  <2>2. QED BY <1>2, <2>1, PresenceKeeps
<1>3. ASSUME NEW c \in Joins,
             \/ Voice!AskVoice(c) \/ Voice!CheckVoice(c) \/ Voice!OpenVoice(c) \/ Voice!EnterVoice(c)
             \/ Voice!ReadTalking(c) \/ Voice!AnswerJoin(c) \/ Voice!FailJoin(c)
      PROVE  VoiceInv'
      BY <1>3, JoinKeeps
<1>4. ASSUME NEW u \in Talkers, Voice!LeaveVoice(u) \/ Voice!Disconnect(u) \/ Voice!Forfeit(u) PROVE VoiceInv'
      BY <1>4, HangUpStep
<1>5. ASSUME Voice!Complete PROVE VoiceInv'
      BY <1>5, CompleteKeeps
<1>6. QED BY <1>1, <1>2, <1>3, <1>4, <1>5 DEF Voice!Next

LEMMA VoiceStays ==
    ASSUME VoiceInv, UNCHANGED <<roomVars, voiceVars>> PROVE VoiceInv'
BY DEF VoiceInv, VoiceHolds, VoiceOffers, Reads, Voice!Running, Voice!TypeOK, Voice!RoomTypeOK, roomVars, voiceVars

-------------------------------------------------------------------------------
\* Tic-tac-toe against the computer.

\* A list without repetitions, an element at its end, and an element taken out of it.
LEMMA AppendedKey ==
    ASSUME NEW S, NEW s \in Seq(S), Solo!IsInjective(s), NEW x \in S, ~Solo!Contains(s, x)
    PROVE  /\ Append(s, x) \in Seq(S) /\ Len(Append(s, x)) = Len(s) + 1
           /\ Solo!IsInjective(Append(s, x))
           /\ \A y : Solo!Contains(Append(s, x), y) <=> y = x \/ Solo!Contains(s, y)
<1> DEFINE t == Append(s, x)
<1>1. /\ t \in Seq(S) /\ Len(t) = Len(s) + 1 /\ DOMAIN t = 1..Len(t) /\ DOMAIN s = 1..Len(s) /\ Len(s) \in Nat
      /\ t[Len(s) + 1] = x /\ \A i \in 1..Len(s) : t[i] = s[i]
      OBVIOUS
<1> HIDE DEF t
<1>2. \A i \in 1..Len(t) : i \in 1..Len(s) \/ i = Len(s) + 1
      BY <1>1
<1>3. \A i \in 1..Len(s) : s[i] # x
      BY DEF Solo!Contains
<1>4. Solo!IsInjective(t)
      BY <1>1, <1>2, <1>3 DEF Solo!IsInjective
<1>5. \A y : Solo!Contains(t, y) <=> y = x \/ Solo!Contains(s, y)
  <2>1. \A i \in 1..Len(s) : i \in 1..Len(t)
        BY <1>1
  <2>2. Len(s) + 1 \in 1..Len(t)
        BY <1>1
  <2>3. QED BY <2>1, <2>2, <1>1, <1>2 DEF Solo!Contains
<1>6. QED BY <1>1, <1>4, <1>5 DEF t

LEMMA TailKeys ==
    ASSUME NEW S, NEW s \in Seq(S), s # <<>>, Solo!IsInjective(s)
    PROVE  /\ Tail(s) \in Seq(S) /\ Len(Tail(s)) = Len(s) - 1
           /\ Solo!IsInjective(Tail(s))
           /\ \A y : Solo!Contains(Tail(s), y) => Solo!Contains(s, y)
<1> DEFINE t == Tail(s)
<1>1. /\ t \in Seq(S) /\ Len(t) = Len(s) - 1 /\ DOMAIN t = 1..Len(t) /\ DOMAIN s = 1..Len(s) /\ Len(s) \in Nat
      /\ \A i \in 1..Len(t) : t[i] = s[i + 1]
      OBVIOUS
<1> HIDE DEF t
<1>2. \A i \in 1..Len(t) : i + 1 \in 1..Len(s)
      BY <1>1
<1>3. Solo!IsInjective(t)
  <2>1. \A i, j \in 1..Len(t) : t[i] = t[j] => i + 1 = j + 1
        BY <1>1, <1>2 DEF Solo!IsInjective
  <2>2. QED BY <2>1, <1>1 DEF Solo!IsInjective
<1>4. \A y : Solo!Contains(t, y) => Solo!Contains(s, y)
      BY <1>1, <1>2 DEF Solo!Contains
<1>5. QED BY <1>1, <1>3, <1>4 DEF t

LEMMA RemovedKey ==
    ASSUME NEW S, NEW s \in Seq(S), Solo!IsInjective(s), NEW x
    PROVE  /\ Solo!RemoveFirst(s, x) \in Seq(S) /\ Len(Solo!RemoveFirst(s, x)) <= Len(s)
           /\ Solo!IsInjective(Solo!RemoveFirst(s, x))
           /\ \A y : Solo!Contains(Solo!RemoveFirst(s, x), y) <=> y # x /\ Solo!Contains(s, y)
<1>1. CASE ~Solo!Contains(s, x)
  <2>1. Solo!RemoveFirst(s, x) = s
        BY <1>1 DEF Solo!RemoveFirst, Solo!Contains
  <2>2. QED BY <2>1, <1>1
<1>2. CASE Solo!Contains(s, x)
  <2>1. PICK k \in 1..Len(s) : s[k] = x
        BY <1>2 DEF Solo!Contains
  <2>2. {i \in 1..Len(s) : s[i] = x} = {k}
        BY <2>1 DEF Solo!IsInjective
  <2>3. Solo!Min({k}) = k
        BY <2>1 DEF Solo!Min
  <2> DEFINE t == SubSeq(s, 1, k - 1) \o SubSeq(s, k + 1, Len(s))
  <2>4. Solo!RemoveFirst(s, x) = t
        BY <2>1, <2>2, <2>3 DEF Solo!RemoveFirst, Solo!RemoveAt, Solo!SelectInSeq
  <2>5. /\ t \in Seq(S) /\ Len(t) = Len(s) - 1 /\ DOMAIN t = 1..Len(t) /\ DOMAIN s = 1..Len(s) /\ Len(s) \in Nat
        /\ \A i \in 1..Len(t) : t[i] = IF i < k THEN s[i] ELSE s[i + 1]
    <3> DEFINE a == SubSeq(s, 1, k - 1)
               b == SubSeq(s, k + 1, Len(s))
    <3>1. /\ a \in Seq(S) /\ Len(a) = k - 1 /\ \A i \in 1..Len(a) : a[i] = s[i]
          /\ k \in Nat \ {0} /\ Len(s) \in Nat /\ k <= Len(s) /\ DOMAIN s = 1..Len(s)
          BY <2>1
    <3>2. b \in Seq(S) /\ Len(b) = Len(s) - k /\ \A i \in 1..Len(b) : b[i] = s[k + i]
          BY <2>1
    <3> HIDE DEF a, b
    <3>3. /\ a \o b \in Seq(S) /\ Len(a \o b) = Len(a) + Len(b)
          /\ \A i \in 1..Len(a) + Len(b) : (a \o b)[i] = IF i <= Len(a) THEN a[i] ELSE b[i - Len(a)]
          BY <3>1, <3>2, ConcatProperties
    <3>4. t \in Seq(S) /\ Len(t) = Len(s) - 1 /\ DOMAIN t = 1..Len(t)
      <4>1. t = a \o b
            BY DEF a, b
      <4>2. t \in Seq(S) /\ Len(t) = Len(a) + Len(b)
            BY <4>1, <3>3
      <4> HIDE DEF t
      <4>3. Len(t) = Len(s) - 1
            BY <4>2, <3>1, <3>2
      <4>4. QED BY <4>2, <4>3
    <3>5. ASSUME NEW i \in 1..Len(t) PROVE t[i] = IF i < k THEN s[i] ELSE s[i + 1]
      <4>1. i \in 1..Len(a) + Len(b) /\ Len(a) = k - 1
        <5>1. Len(t) = Len(a) + Len(b)
              BY <3>3 DEF a, b
        <5>2. QED BY <5>1, <3>1
      <4>2. t[i] = IF i <= Len(a) THEN a[i] ELSE b[i - Len(a)]
            BY <4>1, <3>3 DEF a, b
      <4>3. CASE i < k
        <5>1. i <= Len(a) /\ i \in 1..Len(a)
              BY <4>1, <4>3, <3>1
        <5>2. QED BY <5>1, <4>2, <4>3, <3>1
      <4>4. CASE ~(i < k)
        <5>1. ~(i <= Len(a)) /\ i - Len(a) \in 1..Len(b) /\ k + (i - Len(a)) = i + 1
              BY <4>1, <4>4, <3>1, <3>2
        <5>2. b[i - Len(a)] = s[i + 1]
              BY <5>1, <3>2
        <5>3. QED BY <5>1, <5>2, <4>2, <4>4
      <4>5. QED BY <4>3, <4>4
    <3>6. QED BY <3>1, <3>4, <3>5
  <2> HIDE DEF t
  <2>6. \A i \in 1..Len(t) : (IF i < k THEN i ELSE i + 1) \in (1..Len(s)) \ {k}
        BY <2>1, <2>5
  <2>7. \A j \in (1..Len(s)) \ {k} : (IF j < k THEN j ELSE j - 1) \in 1..Len(t)
        BY <2>1, <2>5
  <2>8. Solo!IsInjective(t)
    <3>1. ASSUME NEW i \in 1..Len(t), NEW j \in 1..Len(t), t[i] = t[j] PROVE i = j
      <4>1. (IF i < k THEN i ELSE i + 1) = (IF j < k THEN j ELSE j + 1)
            BY <3>1, <2>5, <2>6 DEF Solo!IsInjective
      <4>2. QED BY <4>1, <2>1
    <3>2. QED BY <3>1, <2>5 DEF Solo!IsInjective
  <2>9. ASSUME NEW y, Solo!Contains(t, y) PROVE y # x /\ Solo!Contains(s, y)
    <3>1. PICK i \in 1..Len(t) : t[i] = y
          BY <2>9 DEF Solo!Contains
    <3> DEFINE j == IF i < k THEN i ELSE i + 1
    <3>2. s[j] = y /\ j \in 1..Len(s) /\ j # k
          BY <3>1, <2>5, <2>6
    <3> HIDE DEF j
    <3>3. QED BY <3>2, <2>1, <2>5 DEF Solo!Contains, Solo!IsInjective
  <2>10. ASSUME NEW y, y # x, Solo!Contains(s, y) PROVE Solo!Contains(t, y)
    <3>1. PICK j \in 1..Len(s) : s[j] = y
          BY <2>10 DEF Solo!Contains
    <3> DEFINE i == IF j < k THEN j ELSE j - 1
    <3>2. i \in 1..Len(t) /\ t[i] = s[j]
          BY <3>1, <2>1, <2>10, <2>5, <2>7
    <3> HIDE DEF i
    <3>3. QED BY <3>1, <3>2 DEF Solo!Contains
  <2>11. QED BY <2>4, <2>5, <2>8, <2>9, <2>10
<1>3. QED BY <1>1, <1>2

\* What the cache holds after an entry was set, and after one was deleted.
LEMMA CacheSets ==
    ASSUME Solo!TypeOK, NEW m \in Matches, NEW e \in Solo!Position, Solo!CacheSet(m, e)
    PROVE  /\ cache' \in Seq(Matches) /\ Len(cache') <= CacheMax /\ Solo!IsInjective(cache')
           /\ entry' \in [Matches -> Solo!Position]
           /\ Solo!Cached(m)' /\ entry'[m] = e
           /\ \A k \in Matches : k # m => /\ entry'[k] \in {entry[k], Solo!Absent}
                                          /\ Solo!Cached(k)' => Solo!Cached(k) /\ entry'[k] = entry[k]
<1>t. /\ cache \in Seq(Matches) /\ Len(cache) <= CacheMax /\ Solo!IsInjective(cache)
      /\ entry \in [Matches -> Solo!Position] /\ CacheMax \in Nat \ {0}
      BY MatchBounds DEF Solo!TypeOK
<1>1. /\ cache' \in Seq(Matches) /\ Len(cache') <= CacheMax /\ Solo!IsInjective(cache')
      /\ Solo!Cached(m)'
      /\ \A k \in Matches : k # m /\ Solo!Cached(k)' => Solo!Cached(k)
  <2>1. CASE Solo!Cached(m)
        BY <2>1, <1>t DEF Solo!CacheSet, Solo!Cached
  <2>2. CASE ~Solo!Cached(m) /\ Len(cache) >= CacheMax
    <3>1. cache' = Append(Tail(cache), m) /\ cache # <<>>
          BY <2>2, <1>t DEF Solo!CacheSet
    <3>2. /\ Tail(cache) \in Seq(Matches) /\ Len(Tail(cache)) = Len(cache) - 1 /\ Solo!IsInjective(Tail(cache))
          /\ \A y : Solo!Contains(Tail(cache), y) => Solo!Contains(cache, y)
          BY <3>1, <1>t, TailKeys
    <3>3. ~Solo!Contains(Tail(cache), m)
          BY <3>2, <2>2 DEF Solo!Cached
    <3>4. /\ cache' \in Seq(Matches) /\ Len(cache') = Len(Tail(cache)) + 1 /\ Solo!IsInjective(cache')
          /\ \A y : Solo!Contains(cache', y) <=> y = m \/ Solo!Contains(Tail(cache), y)
          BY <3>1, <3>2, <3>3, AppendedKey
    <3>5. Len(cache') <= CacheMax
          BY <3>2, <3>4, <1>t
    <3>6. QED BY <3>2, <3>4, <3>5 DEF Solo!Cached
  <2>3. CASE ~Solo!Cached(m) /\ ~(Len(cache) >= CacheMax)
    <3>1. cache' = Append(cache, m) /\ ~Solo!Contains(cache, m)
          BY <2>3 DEF Solo!CacheSet, Solo!Cached
    <3>2. /\ cache' \in Seq(Matches) /\ Len(cache') = Len(cache) + 1 /\ Solo!IsInjective(cache')
          /\ \A y : Solo!Contains(cache', y) <=> y = m \/ Solo!Contains(cache, y)
          BY <3>1, <1>t, AppendedKey
    <3>3. Len(cache') <= CacheMax
          BY <2>3, <3>2, <1>t
    <3>4. QED BY <3>2, <3>3 DEF Solo!Cached
  <2>4. QED BY <2>1, <2>2, <2>3
<1>2. /\ \A k \in Matches : entry'[k] = IF k = m THEN e ELSE IF Solo!Cached(k)' THEN entry[k] ELSE Solo!Absent
      /\ entry' \in [Matches -> Solo!Position]
  <2>1. entry' = [k \in Matches |-> IF k = m THEN e ELSE IF Solo!Cached(k)' THEN entry[k] ELSE Solo!Absent]
        BY DEF Solo!CacheSet, Solo!Cached
  <2>2. Solo!Absent \in Solo!Position
        BY MatchBounds DEF Solo!Absent, Solo!Position
  <2>3. QED BY <2>1, <2>2, <1>t
<1>3. QED BY <1>1, <1>2

LEMMA CacheDeletes ==
    ASSUME Solo!TypeOK, NEW m \in Matches, Solo!CacheDelete(m)
    PROVE  /\ cache' \in Seq(Matches) /\ Len(cache') <= CacheMax /\ Solo!IsInjective(cache')
           /\ entry' \in [Matches -> Solo!Position]
           /\ ~Solo!Cached(m)' /\ entry'[m] = Solo!Absent
           /\ \A k \in Matches : k # m => entry'[k] = entry[k] /\ (Solo!Cached(k)' => Solo!Cached(k))
<1>t. /\ cache \in Seq(Matches) /\ Len(cache) <= CacheMax /\ Solo!IsInjective(cache)
      /\ entry \in [Matches -> Solo!Position] /\ CacheMax \in Nat \ {0}
      BY MatchBounds DEF Solo!TypeOK
<1>1. /\ cache' \in Seq(Matches) /\ Len(cache') <= Len(cache) /\ Solo!IsInjective(cache')
      /\ \A y : Solo!Contains(cache', y) <=> y # m /\ Solo!Contains(cache, y)
      BY <1>t, RemovedKey DEF Solo!CacheDelete
<1>2. Len(cache') <= CacheMax
      BY <1>1, <1>t
<1>3. Solo!Absent \in Solo!Position
      BY MatchBounds DEF Solo!Absent, Solo!Position
<1>4. entry' \in [Matches -> Solo!Position] /\ entry'[m] = Solo!Absent /\ \A k \in Matches : k # m => entry'[k] = entry[k]
      BY <1>3, <1>t DEF Solo!CacheDelete
<1>5. QED BY <1>1, <1>2, <1>4 DEF Solo!Cached

\* What holds of each match.  Positions in progress leave room for a move; a match that is
\* not locked has nothing under way; one without a row was never shown.  Until a fault
\* touches it, what is on its way to the row is the position the client was shown, and
\* cache and row have that position otherwise.
SoloOK(m) ==
    /\ row[m].status = "IN_PROGRESS" => row[m].plies < MaxPlies
    /\ entry[m].status = "IN_PROGRESS" => entry[m].plies < MaxPlies
    /\ \A n \in saving[m] : n < MaxPlies
    /\ \A n, k \in saving[m] : n = k
    /\ m \notin inflight => saving[m] = {} /\ progress[m] = "idle"
    /\ progress[m] # "idle" => saving[m] = {}
    /\ m \in starting => row[m].status = "NONE"
    /\ row[m].status = "NONE" => row[m].plies = 0 /\ shown[m] = 0 /\ m \notin inflight /\ ~Solo!Cached(m)
    /\ progress[m] \in {"reward", "persist"} => result[m].status \in Solo!Ended
    /\ paid[m] = IF row[m].status = "WON" THEN Reward ELSE 0
    /\ m \notin upset => /\ saving[m] \subseteq {shown[m]}
                         /\ saving[m] = {} => row[m].plies = shown[m]
                         /\ Solo!Cached(m) => entry[m].plies = shown[m]

SoloInv == Solo!TypeOK /\ \A m \in Matches : SoloOK(m)

LEMMA SoloIsShownAndPaid == SoloInv => Solo!ContinuesFromShown /\ Solo!PaidWithTheWin
<1> SUFFICES ASSUME SoloInv PROVE Solo!ContinuesFromShown /\ Solo!PaidWithTheWin
    OBVIOUS
<1>1. Solo!PaidWithTheWin
      BY DEF SoloInv, SoloOK, Solo!PaidWithTheWin
<1>2. ASSUME NEW m \in Matches \ upset, m \notin inflight \/ progress[m] = "load"
      PROVE  Solo!Base(m).plies = shown[m]
  <2>1. SoloOK(m)
        BY DEF SoloInv
  <2>2. saving[m] = {}
        BY <1>2, <2>1 DEF SoloOK
  <2>3. QED BY <2>1, <2>2 DEF SoloOK, Solo!Base
<1>3. QED BY <1>1, <1>2 DEF Solo!ContinuesFromShown

\* A step leaves a match alone.
SameMatch(k) ==
    /\ row'[k] = row[k] /\ saving'[k] = saving[k] /\ progress'[k] = progress[k] /\ result'[k] = result[k]
    /\ shown'[k] = shown[k] /\ paid'[k] = paid[k]
    /\ k \in inflight' <=> k \in inflight
    /\ k \in starting' => k \in starting
    /\ k \in upset => k \in upset'
    /\ entry'[k] \in {entry[k], Solo!Absent}
    /\ Solo!Cached(k)' => Solo!Cached(k) /\ entry'[k] = entry[k]

LEMMA MatchStays ==
    ASSUME NEW k, SoloOK(k), SameMatch(k) PROVE SoloOK(k)'
BY DEF SoloOK, SameMatch, Solo!Absent

SoloRecords ==
    /\ row \in [Matches -> Solo!Position] /\ entry \in [Matches -> Solo!Position]
    /\ result \in [Matches -> Solo!Position]
    /\ progress \in [Matches -> Solo!Steps] /\ saving \in [Matches -> SUBSET (0..MaxPlies)]
    /\ shown \in [Matches -> 0..MaxPlies] /\ paid \in [Matches -> Nat]
    /\ starting \subseteq Matches /\ inflight \subseteq Matches /\ upset \subseteq Matches /\ aged \subseteq Matches
    /\ cache \in Seq(Matches) /\ Len(cache) <= CacheMax /\ Solo!IsInjective(cache)
    /\ faults \in 0..MaxFaults

LEMMA SoloTypes == SoloRecords <=> Solo!TypeOK
BY DEF SoloRecords, Solo!TypeOK
LEMMA SoloTypesNext == SoloRecords' <=> Solo!TypeOK'
BY DEF SoloRecords, Solo!TypeOK

\* A position in the code's sense.
LEMMA Positions ==
    ASSUME NEW p \in Solo!Position
    PROVE  p.plies \in 0..MaxPlies /\ p.status \in {"NONE", "IN_PROGRESS"} \cup Solo!Ended
BY DEF Solo!Position

LEMMA OutcomesAre ==
    ASSUME NEW plies \in 0..MaxPlies, plies < MaxPlies, NEW o \in Solo!Outcomes(plies)
    PROVE  /\ o \in Solo!Position /\ o.status # "NONE"
           /\ o.status = "IN_PROGRESS" => o.plies < MaxPlies
<1> USE MatchBounds DEF Solo!Position, Solo!Ended
<1>1. CASE o = [plies |-> plies + 1, status |-> "WON"]
      BY <1>1
<1>2. CASE plies + 1 >= MaxPlies /\ o = [plies |-> plies + 1, status |-> "DRAW"]
      BY <1>2
<1>3. CASE ~(plies + 1 >= MaxPlies) /\ o = [plies |-> plies + 2, status |-> "LOST"]
      BY <1>3
<1>4. CASE ~(plies + 1 >= MaxPlies) /\ o = [plies |-> plies + 2, status |-> IF plies + 2 >= MaxPlies THEN "DRAW" ELSE "IN_PROGRESS"]
      BY <1>4
<1>5. QED BY <1>1, <1>2, <1>3, <1>4 DEF Solo!Outcomes

\* The lock is given back.
LEMMA Releases ==
    ASSUME SoloRecords, NEW m \in Matches, Solo!Release(m)
    PROVE  /\ inflight' = inflight \ {m} /\ inflight' \subseteq Matches
           /\ progress' \in [Matches -> Solo!Steps] /\ progress'[m] = "idle"
           /\ \A k \in Matches : k # m => progress'[k] = progress[k]
BY DEF SoloRecords, Solo!Release, Solo!Steps

\* A move from a position goes out with its answer, or waits for its transaction.
LEMMA Answers ==
    ASSUME SoloRecords, NEW m \in Matches, SoloOK(m), NEW o \in Solo!Position, o.status = "IN_PROGRESS", o.plies < MaxPlies,
           saving[m] = {}, row[m].status # "NONE",
           Solo!Answer(m, o), UNCHANGED <<row, aged, paid, starting, upset, faults>>
    PROVE  SoloRecords' /\ SoloOK(m)' /\ \A k \in Matches : k # m => SameMatch(k)
<1>1. /\ cache' \in Seq(Matches) /\ Len(cache') <= CacheMax /\ Solo!IsInjective(cache')
      /\ entry' \in [Matches -> Solo!Position]
      /\ Solo!Cached(m)' /\ entry'[m] = o
      /\ \A k \in Matches : k # m => /\ entry'[k] \in {entry[k], Solo!Absent}
                                     /\ Solo!Cached(k)' => Solo!Cached(k) /\ entry'[k] = entry[k]
      BY CacheSets, SoloTypes DEF Solo!Answer
<1>2. o.plies \in 0..MaxPlies
      BY Positions
<1>3. /\ saving' \in [Matches -> SUBSET (0..MaxPlies)] /\ saving'[m] = {o.plies}
      /\ \A k \in Matches : k # m => saving'[k] = saving[k]
      BY <1>2 DEF Solo!Answer, SoloRecords
<1>4. /\ shown' \in [Matches -> 0..MaxPlies] /\ shown'[m] = o.plies
      /\ \A k \in Matches : k # m => shown'[k] = shown[k]
      BY <1>2 DEF Solo!Answer, SoloRecords
<1>5. /\ progress' \in [Matches -> Solo!Steps] /\ progress'[m] = "idle"
      /\ \A k \in Matches : k # m => progress'[k] = progress[k]
      BY DEF Solo!Answer, SoloRecords, Solo!Steps
<1>6. inflight' = inflight \cup {m} /\ result' = result
      BY DEF Solo!Answer
<1>7. SoloRecords'
      BY <1>1, <1>3, <1>4, <1>5, <1>6 DEF SoloRecords
<1>8. SoloOK(m)'
      BY <1>1, <1>3, <1>4, <1>5, <1>6 DEF SoloOK
<1>9. \A k \in Matches : k # m => SameMatch(k)
      BY <1>1, <1>3, <1>4, <1>5, <1>6 DEF SameMatch
<1>10. QED BY <1>7, <1>8, <1>9

LEMMA GoesToPersist ==
    ASSUME SoloRecords, NEW m \in Matches, NEW o \in Solo!Position, o.status \in Solo!Ended,
           Solo!GoPersist(m, o)
    PROVE  /\ result' \in [Matches -> Solo!Position] /\ result'[m] = o
           /\ progress' \in [Matches -> Solo!Steps] /\ progress'[m] \in {"reward", "persist"}
           /\ \A k \in Matches : k # m => result'[k] = result[k] /\ progress'[k] = progress[k]
           /\ inflight' = inflight \cup {m} /\ inflight' \subseteq Matches
           /\ saving' = saving /\ shown' = shown
BY DEF SoloRecords, Solo!GoPersist, Solo!Steps

\* A step of one match.
LEMMA OneMatchMoves ==
    ASSUME SoloInv, NEW m \in Matches, SoloRecords', SoloOK(m)', \A k \in Matches : k # m => SameMatch(k)
    PROVE  SoloInv'
<1>1. ASSUME NEW k \in Matches PROVE SoloOK(k)'
      BY MatchStays DEF SoloInv
<1>2. QED BY <1>1, SoloTypesNext DEF SoloInv

LEMMA SoloInitHolds == Solo!Init => SoloInv
<1> SUFFICES ASSUME Solo!Init PROVE SoloInv
    OBVIOUS
<1>1. Solo!Absent \in Solo!Position /\ Solo!Absent.status = "NONE" /\ Solo!Absent.plies = 0
      BY MatchBounds DEF Solo!Absent, Solo!Position
<1>2. /\ cache \in Seq(Matches) /\ Len(cache) = 0 /\ \A y : ~Solo!Contains(cache, y) /\ Solo!IsInjective(cache)
      BY DEF Solo!Init, Solo!Contains, Solo!IsInjective
<1>3. SoloRecords
      BY <1>1, <1>2, MatchBounds DEF Solo!Init, SoloRecords, Solo!Steps
<1>4. ASSUME NEW m \in Matches PROVE SoloOK(m)
      BY <1>1, <1>2 DEF Solo!Init, SoloOK, Solo!Cached
<1>5. QED BY <1>3, <1>4, SoloTypes DEF SoloInv

\* The entry of a match leaves the cache.
LEMMA SweepKeeps ==
    ASSUME SoloInv, NEW m \in Matches, Solo!Sweep(m) PROVE SoloInv'
<1>1. SoloRecords /\ SoloOK(m) /\ saving[m] = {}
      BY SoloTypes DEF SoloInv, Solo!Sweep
<1>2. /\ cache' \in Seq(Matches) /\ Len(cache') <= CacheMax /\ Solo!IsInjective(cache')
      /\ entry' \in [Matches -> Solo!Position]
      /\ ~Solo!Cached(m)' /\ entry'[m] = Solo!Absent
      /\ \A k \in Matches : k # m => entry'[k] = entry[k] /\ (Solo!Cached(k)' => Solo!Cached(k))
      BY CacheDeletes DEF Solo!Sweep, SoloInv
<1>3. UNCHANGED <<row, aged, starting, inflight, progress, saving, result, shown, paid, upset, faults>>
      BY DEF Solo!Sweep, Solo!rows
<1>4. SoloRecords'
      BY <1>1, <1>2, <1>3 DEF SoloRecords
<1>5. SoloOK(m)'
      BY <1>1, <1>2, <1>3 DEF SoloOK, Solo!Absent
<1>6. \A k \in Matches : k # m => SameMatch(k)
      BY <1>2, <1>3 DEF SameMatch
<1>7. QED BY <1>4, <1>5, <1>6, OneMatchMoves

\* A match begins with its row, and is in the cache.
LEMMA EndStartKeeps ==
    ASSUME SoloInv, NEW m \in Matches, Solo!EndStart(m) PROVE SoloInv'
<1> DEFINE begun == [plies |-> 0, status |-> "IN_PROGRESS"]
<1>1. SoloRecords /\ SoloOK(m) /\ m \in starting
      BY SoloTypes DEF SoloInv, Solo!EndStart
<1>2. begun \in Solo!Position /\ begun.plies = 0 /\ begun.status = "IN_PROGRESS"
      BY MatchBounds DEF Solo!Position
<1> HIDE DEF begun
<1>3. /\ cache' \in Seq(Matches) /\ Len(cache') <= CacheMax /\ Solo!IsInjective(cache')
      /\ entry' \in [Matches -> Solo!Position]
      /\ Solo!Cached(m)' /\ entry'[m] = begun
      /\ \A k \in Matches : k # m => /\ entry'[k] \in {entry[k], Solo!Absent}
                                     /\ Solo!Cached(k)' => Solo!Cached(k) /\ entry'[k] = entry[k]
      BY <1>2, CacheSets DEF Solo!EndStart, SoloInv, begun
<1>4. /\ row' \in [Matches -> Solo!Position] /\ row'[m] = begun
      /\ \A k \in Matches : k # m => row'[k] = row[k]
      BY <1>1, <1>2 DEF Solo!EndStart, SoloRecords, begun
<1>5. /\ starting' = starting \ {m}
      /\ UNCHANGED <<aged, inflight, progress, saving, result, shown, paid, upset, faults>>
      BY DEF Solo!EndStart
<1>6. SoloRecords'
      BY <1>1, <1>3, <1>4, <1>5 DEF SoloRecords
<1>7. SoloOK(m)'
  <2>1. row[m].status = "NONE" /\ shown[m] = 0 /\ m \notin inflight /\ saving[m] = {} /\ progress[m] = "idle" /\ paid[m] = 0
        BY <1>1 DEF SoloOK
  <2>2. QED BY <2>1, <1>2, <1>3, <1>4, <1>5, MatchBounds DEF SoloOK
<1>8. \A k \in Matches : k # m => SameMatch(k)
      BY <1>3, <1>4, <1>5 DEF SameMatch
<1>9. QED BY <1>6, <1>7, <1>8, OneMatchMoves

LEMMA StartsAndAgesKeep ==
    ASSUME SoloInv, NEW m \in Matches, Solo!BeginStart(m) \/ Solo!Age(m) PROVE SoloInv'
<1>1. SoloRecords /\ SoloOK(m)
      BY SoloTypes DEF SoloInv
<1>2. UNCHANGED <<row, cache, entry, inflight, progress, saving, result, shown, paid, upset, faults>>
      BY DEF Solo!BeginStart, Solo!Age, Solo!rows
<1>3. /\ starting' \subseteq Matches /\ aged' \subseteq Matches
      /\ \A k \in Matches : k \in starting' => k \in starting \/ (k = m /\ row[m].status = "NONE")
      BY <1>1 DEF Solo!BeginStart, Solo!Age, Solo!rows, SoloRecords
<1>4. SoloRecords'
      BY <1>1, <1>2, <1>3 DEF SoloRecords
<1>5. SoloOK(m)'
      BY <1>1, <1>2, <1>3 DEF SoloOK, Solo!Cached
<1>6. \A k \in Matches : k # m => SameMatch(k)
      BY <1>2, <1>3 DEF SameMatch, Solo!Cached
<1>7. QED BY <1>4, <1>5, <1>6, OneMatchMoves

\* The last move of a match is kept until its transaction.
LEMMA GoesOn ==
    ASSUME SoloInv, NEW m \in Matches, NEW o \in Solo!Position, o.status \in Solo!Ended, Solo!GoPersist(m, o),
           saving[m] = {}, row[m].status # "NONE", UNCHANGED <<row, aged, paid, starting, upset, faults>>,
           cache' \in Seq(Matches), Len(cache') <= CacheMax, Solo!IsInjective(cache'),
           entry' \in [Matches -> Solo!Position],
           entry'[m].status = "IN_PROGRESS" => entry'[m].plies < MaxPlies,
           m \notin upset /\ Solo!Cached(m)' => entry'[m].plies = shown[m],
           \A k \in Matches : k # m => /\ entry'[k] \in {entry[k], Solo!Absent}
                                       /\ Solo!Cached(k)' => Solo!Cached(k) /\ entry'[k] = entry[k]
    PROVE  SoloInv'
<1>1. SoloRecords /\ SoloOK(m)
      BY SoloTypes DEF SoloInv
<1>2. /\ result' \in [Matches -> Solo!Position] /\ result'[m] = o
      /\ progress' \in [Matches -> Solo!Steps] /\ progress'[m] \in {"reward", "persist"}
      /\ \A k \in Matches : k # m => result'[k] = result[k] /\ progress'[k] = progress[k]
      /\ inflight' = inflight \cup {m} /\ inflight' \subseteq Matches
      /\ saving' = saving /\ shown' = shown
      BY <1>1, GoesToPersist
<1>3. SoloRecords'
      BY <1>1, <1>2 DEF SoloRecords
<1>4. SoloOK(m)'
      BY <1>1, <1>2 DEF SoloOK
<1>5. \A k \in Matches : k # m => SameMatch(k)
      BY <1>2 DEF SameMatch
<1>6. QED BY <1>3, <1>4, <1>5, OneMatchMoves

LEMMA MoveCachedKeeps ==
    ASSUME SoloInv, NEW m \in Matches, Solo!MoveCached(m) PROVE SoloInv'
<1>1. /\ SoloRecords /\ SoloOK(m) /\ m \notin inflight /\ Solo!Cached(m)
      /\ UNCHANGED <<row, aged, paid, starting, upset, faults>> /\ Solo!Play(m, entry[m])
      BY SoloTypes DEF SoloInv, Solo!MoveCached, Solo!rows
<1>2. saving[m] = {} /\ progress[m] = "idle" /\ row[m].status # "NONE" /\ entry[m] \in Solo!Position
      BY <1>1 DEF SoloOK, SoloRecords
<1>3. CASE Solo!Release(m) /\ UNCHANGED <<cache, entry, saving, result, shown>>
  <2>1. inflight' = inflight /\ progress' = progress
        BY <1>1, <1>2, <1>3 DEF Solo!Release, SoloRecords
  <2>2. SoloRecords' /\ SoloOK(m)'
        BY <2>1, <1>1, <1>3 DEF SoloRecords, SoloOK, Solo!Cached
  <2>3. \A k \in Matches : k # m => SameMatch(k)
        BY <2>1, <1>1, <1>3 DEF SameMatch, Solo!Cached
  <2>4. QED BY <2>2, <2>3, OneMatchMoves
<1>4. ASSUME NEW o \in Solo!Outcomes(entry[m].plies), entry[m].status = "IN_PROGRESS",
             \/ o.status = "IN_PROGRESS" /\ Solo!Answer(m, o)
             \/ o.status \in Solo!Ended /\ Solo!GoPersist(m, o) /\ UNCHANGED <<cache, entry>>
      PROVE  SoloInv'
  <2>1. entry[m].plies < MaxPlies /\ entry[m].plies \in 0..MaxPlies
        BY <1>1, <1>2, <1>4, Positions DEF SoloOK
  <2>2. o \in Solo!Position /\ (o.status = "IN_PROGRESS" => o.plies < MaxPlies)
        BY <2>1, OutcomesAre
  <2>3. CASE o.status = "IN_PROGRESS" /\ Solo!Answer(m, o)
        BY <2>2, <2>3, <1>1, <1>2, Answers, OneMatchMoves
  <2>4. CASE o.status \in Solo!Ended /\ Solo!GoPersist(m, o) /\ UNCHANGED <<cache, entry>>
    <3>1. /\ cache' \in Seq(Matches) /\ Len(cache') <= CacheMax /\ Solo!IsInjective(cache')
          /\ entry' \in [Matches -> Solo!Position]
          /\ entry'[m].status = "IN_PROGRESS" => entry'[m].plies < MaxPlies
          BY <2>1, <2>4, <1>1 DEF SoloRecords
    <3>2. m \notin upset /\ Solo!Cached(m)' => entry'[m].plies = shown[m]
          BY <2>4, <1>1 DEF SoloOK
    <3>3. \A k \in Matches : k # m => /\ entry'[k] \in {entry[k], Solo!Absent}
                                      /\ Solo!Cached(k)' => Solo!Cached(k) /\ entry'[k] = entry[k]
          BY <2>4 DEF Solo!Cached
    <3>4. QED BY <3>1, <3>2, <3>3, <2>2, <2>4, <1>1, <1>2, GoesOn
  <2>5. QED BY <2>3, <2>4, <1>4
<1>5. QED BY <1>1, <1>3, <1>4 DEF Solo!Play

LEMMA MoveUncachedKeeps ==
    ASSUME SoloInv, NEW m \in Matches, Solo!MoveUncached(m) PROVE SoloInv'
<1>1. /\ SoloRecords /\ SoloOK(m) /\ m \notin inflight /\ row[m].status # "NONE"
      /\ UNCHANGED <<row, aged, paid, starting, cache, entry, saving, result, shown, upset, faults>>
      BY SoloTypes DEF SoloInv, Solo!MoveUncached, Solo!rows
<1>2. /\ inflight' = inflight \cup {m} /\ progress' \in [Matches -> Solo!Steps] /\ progress'[m] = "load"
      /\ \A k \in Matches : k # m => progress'[k] = progress[k]
      BY <1>1 DEF Solo!MoveUncached, SoloRecords, Solo!Steps
<1>3. SoloRecords'
      BY <1>1, <1>2 DEF SoloRecords
<1>4. SoloOK(m)'
      BY <1>1, <1>2 DEF SoloOK, Solo!Cached
<1>5. \A k \in Matches : k # m => SameMatch(k)
      BY <1>1, <1>2 DEF SameMatch, Solo!Cached
<1>6. QED BY <1>3, <1>4, <1>5, OneMatchMoves

LEMMA LoadKeeps ==
    ASSUME SoloInv, NEW m \in Matches, Solo!Load(m) PROVE SoloInv'
<1>1. /\ SoloRecords /\ SoloOK(m) /\ progress[m] = "load"
      /\ UNCHANGED <<row, aged, paid, starting, upset, faults>>
      BY SoloTypes DEF SoloInv, Solo!Load, Solo!rows
<1>2. m \in inflight /\ saving[m] = {} /\ row[m].status # "NONE" /\ row[m] \in Solo!Position
      BY <1>1 DEF SoloOK, SoloRecords
<1>3. ASSUME Solo!CacheSet(m, row[m])
      PROVE  /\ cache' \in Seq(Matches) /\ Len(cache') <= CacheMax /\ Solo!IsInjective(cache')
             /\ entry' \in [Matches -> Solo!Position]
             /\ Solo!Cached(m)' /\ entry'[m] = row[m]
             /\ \A k \in Matches : k # m => /\ entry'[k] \in {entry[k], Solo!Absent}
                                            /\ Solo!Cached(k)' => Solo!Cached(k) /\ entry'[k] = entry[k]
      BY <1>2, <1>3, CacheSets DEF SoloInv
<1>4. CASE Solo!CacheSet(m, row[m]) /\ Solo!Release(m) /\ UNCHANGED <<saving, result, shown>>
  <2>1. /\ inflight' = inflight \ {m} /\ inflight' \subseteq Matches
        /\ progress' \in [Matches -> Solo!Steps] /\ progress'[m] = "idle"
        /\ \A k \in Matches : k # m => progress'[k] = progress[k]
        BY <1>1, <1>4, Releases
  <2>2. SoloRecords'
        BY <2>1, <1>1, <1>3, <1>4 DEF SoloRecords
  <2>3. SoloOK(m)'
        BY <2>1, <1>1, <1>2, <1>3, <1>4 DEF SoloOK
  <2>4. \A k \in Matches : k # m => SameMatch(k)
        BY <2>1, <1>1, <1>3, <1>4 DEF SameMatch
  <2>5. QED BY <2>2, <2>3, <2>4, OneMatchMoves
<1>5. ASSUME NEW o \in Solo!Outcomes(row[m].plies), row[m].status = "IN_PROGRESS",
             \/ o.status = "IN_PROGRESS" /\ Solo!Answer(m, o)
             \/ o.status \in Solo!Ended /\ Solo!GoPersist(m, o) /\ Solo!CacheSet(m, row[m])
      PROVE  SoloInv'
  <2>1. row[m].plies < MaxPlies /\ row[m].plies \in 0..MaxPlies
        BY <1>1, <1>2, <1>5, Positions DEF SoloOK
  <2>2. o \in Solo!Position /\ (o.status = "IN_PROGRESS" => o.plies < MaxPlies)
        BY <2>1, OutcomesAre
  <2>3. CASE o.status = "IN_PROGRESS" /\ Solo!Answer(m, o)
        BY <2>2, <2>3, <1>1, <1>2, Answers, OneMatchMoves
  <2>4. CASE o.status \in Solo!Ended /\ Solo!GoPersist(m, o) /\ Solo!CacheSet(m, row[m])
    <3>1. m \notin upset => row[m].plies = shown[m]
          BY <1>1, <1>2 DEF SoloOK
    <3>2. QED BY <3>1, <2>1, <2>2, <2>4, <1>1, <1>2, <1>3, GoesOn
  <2>5. QED BY <2>3, <2>4, <1>5
<1>6. QED BY <1>4, <1>5 DEF Solo!Load

\* The write behind an answer settles, one way or the other.
LEMMA SavesKeep ==
    ASSUME SoloInv, NEW m \in Matches, NEW n \in saving[m], Solo!Save(m, n) \/ Solo!SaveFails(m, n) PROVE SoloInv'
<1>1. /\ SoloRecords /\ SoloOK(m) /\ saving[m] = {n} /\ n < MaxPlies /\ n \in 0..MaxPlies
      /\ m \in inflight /\ progress[m] = "idle" /\ row[m].status # "NONE"
  <2>1. SoloRecords /\ SoloOK(m)
        BY SoloTypes DEF SoloInv
  <2>2. saving[m] = {n} /\ n < MaxPlies /\ m \in inflight /\ row[m].status # "NONE"
        BY <2>1 DEF SoloOK
  <2>3. progress[m] = "idle"
        BY <2>1 DEF SoloOK
  <2>4. QED BY <2>1, <2>2, <2>3 DEF SoloRecords
<1>2. /\ inflight' = inflight \ {m} /\ inflight' \subseteq Matches
      /\ progress' \in [Matches -> Solo!Steps] /\ progress'[m] = "idle"
      /\ \A k \in Matches : k # m => progress'[k] = progress[k]
      BY <1>1, Releases DEF Solo!Save, Solo!SaveFails
<1>3. /\ UNCHANGED <<aged, starting, cache, entry, result, shown, paid>>
      /\ saving' = [saving EXCEPT ![m] = saving[m] \ {n}]
      BY DEF Solo!Save, Solo!SaveFails, Solo!rows
<1>4. /\ saving' \in [Matches -> SUBSET (0..MaxPlies)] /\ saving'[m] = {}
      /\ \A k \in Matches : k # m => saving'[k] = saving[k]
      BY <1>1, <1>3 DEF SoloRecords
<1>5. CASE Solo!Save(m, n)
  <2> DEFINE saved == [plies |-> n, status |-> row[m].status]
  <2>1. saved \in Solo!Position /\ saved.plies = n /\ saved.status = row[m].status
        BY <1>1 DEF SoloRecords, Solo!Position
  <2>2. row' = [row EXCEPT ![m] = saved] /\ UNCHANGED <<upset, faults>>
        BY <1>5 DEF Solo!Save
  <2> HIDE DEF saved
  <2>3. row' \in [Matches -> Solo!Position] /\ row'[m] = saved /\ \A k \in Matches : k # m => row'[k] = row[k]
        BY <2>1, <2>2, <1>1 DEF SoloRecords
  <2>4. SoloRecords'
        BY <2>2, <2>3, <1>1, <1>2, <1>3, <1>4 DEF SoloRecords
  <2>5. SoloOK(m)'
        BY <2>1, <2>2, <2>3, <1>1, <1>2, <1>3, <1>4 DEF SoloOK, Solo!Cached
  <2>6. \A k \in Matches : k # m => SameMatch(k)
        BY <2>2, <2>3, <1>2, <1>3, <1>4 DEF SameMatch, Solo!Cached
  <2>7. QED BY <2>4, <2>5, <2>6, OneMatchMoves
<1>6. CASE Solo!SaveFails(m, n)
  <2>1. row' = row /\ upset' = upset \cup {m} /\ faults' = faults + 1 /\ faults < MaxFaults
        BY <1>6 DEF Solo!SaveFails, Solo!Fault, Solo!rows
  <2>2. SoloRecords'
        BY <2>1, <1>1, <1>2, <1>3, <1>4, MatchBounds DEF SoloRecords
  <2>3. SoloOK(m)'
        BY <2>1, <1>1, <1>2, <1>3, <1>4 DEF SoloOK, Solo!Cached
  <2>4. \A k \in Matches : k # m => SameMatch(k)
        BY <2>1, <1>2, <1>3, <1>4 DEF SameMatch, Solo!Cached
  <2>5. QED BY <2>2, <2>3, <2>4, OneMatchMoves
<1>7. QED BY <1>5, <1>6

\* The transaction of the last move writes its result, and with a win the reward.
LEMMA Finishes ==
    ASSUME SoloRecords, NEW m \in Matches, SoloOK(m), progress[m] = "persist", Solo!Finish(m)
    PROVE  /\ row' \in [Matches -> Solo!Position] /\ row'[m] = result[m] /\ result[m].status \in Solo!Ended
           /\ paid' \in [Matches -> Nat] /\ paid'[m] = IF result[m].status = "WON" THEN Reward ELSE 0
           /\ \A k \in Matches : k # m => row'[k] = row[k] /\ paid'[k] = paid[k]
<1>1. paid[m] = 0 /\ result[m].status \in Solo!Ended /\ Reward \in Nat
      BY MatchBounds DEF SoloOK, Solo!Finish
<1>2. paid' = [paid EXCEPT ![m] = IF result[m].status = "WON" THEN paid[m] + Reward ELSE paid[m]]
      BY DEF Solo!Finish
<1>3. row' = [row EXCEPT ![m] = result[m]] /\ result[m] \in Solo!Position
      BY DEF Solo!Finish, SoloRecords
<1>4. QED BY <1>1, <1>2, <1>3 DEF SoloRecords

LEMMA PersistKeeps ==
    ASSUME SoloInv, NEW m \in Matches, Solo!Persist(m) PROVE SoloInv'
<1>1. /\ SoloRecords /\ SoloOK(m) /\ progress[m] = "persist" /\ row[m].status = "IN_PROGRESS"
      /\ UNCHANGED <<aged, starting, saving, result, upset, faults>>
      BY SoloTypes DEF SoloInv, Solo!Persist, Solo!Finish
<1>2. saving[m] = {} /\ m \notin starting /\ result[m] \in Solo!Position
      BY <1>1 DEF SoloOK, SoloRecords
<1>3. /\ row' \in [Matches -> Solo!Position] /\ row'[m] = result[m] /\ result[m].status \in Solo!Ended
      /\ paid' \in [Matches -> Nat] /\ paid'[m] = IF result[m].status = "WON" THEN Reward ELSE 0
      /\ \A k \in Matches : k # m => row'[k] = row[k] /\ paid'[k] = paid[k]
      BY <1>1, Finishes DEF Solo!Persist
<1>4. /\ inflight' = inflight \ {m} /\ inflight' \subseteq Matches
      /\ progress' \in [Matches -> Solo!Steps] /\ progress'[m] = "idle"
      /\ \A k \in Matches : k # m => progress'[k] = progress[k]
      BY <1>1, Releases DEF Solo!Persist
<1>5. /\ cache' \in Seq(Matches) /\ Len(cache') <= CacheMax /\ Solo!IsInjective(cache')
      /\ entry' \in [Matches -> Solo!Position]
      /\ ~Solo!Cached(m)' /\ entry'[m] = Solo!Absent
      /\ \A k \in Matches : k # m => entry'[k] = entry[k] /\ (Solo!Cached(k)' => Solo!Cached(k))
      BY CacheDeletes DEF Solo!Persist, SoloInv
<1>6. /\ shown' \in [Matches -> 0..MaxPlies] /\ shown'[m] = result[m].plies
      /\ \A k \in Matches : k # m => shown'[k] = shown[k]
      BY <1>1, <1>2, Positions DEF Solo!Persist, SoloRecords
<1>7. SoloRecords'
      BY <1>1, <1>3, <1>4, <1>5, <1>6 DEF SoloRecords
<1>8. SoloOK(m)'
  <2>1. row'[m].status \in Solo!Ended /\ row'[m].status \notin {"NONE", "IN_PROGRESS"}
        BY <1>3 DEF Solo!Ended
  <2>2. QED BY <2>1, <1>1, <1>2, <1>3, <1>4, <1>5, <1>6 DEF SoloOK, Solo!Absent
<1>9. \A k \in Matches : k # m => SameMatch(k)
      BY <1>1, <1>3, <1>4, <1>5, <1>6 DEF SameMatch
<1>10. QED BY <1>7, <1>8, <1>9, OneMatchMoves

\* It is refused, or fails, or is rolled back.
LEMMA PersistEndsKeep ==
    ASSUME SoloInv, NEW m \in Matches, Solo!PersistRefused(m) \/ Solo!PersistFails(m) PROVE SoloInv'
<1>1. /\ SoloRecords /\ SoloOK(m) /\ progress[m] = "persist"
      /\ UNCHANGED <<aged, starting, cache, entry, saving, result, shown>> /\ Solo!Release(m)
      BY SoloTypes DEF SoloInv, Solo!PersistRefused, Solo!PersistFails, Solo!rows
<1>2. saving[m] = {}
      BY <1>1 DEF SoloOK
<1>3. /\ inflight' = inflight \ {m} /\ inflight' \subseteq Matches
      /\ progress' \in [Matches -> Solo!Steps] /\ progress'[m] = "idle"
      /\ \A k \in Matches : k # m => progress'[k] = progress[k]
      BY <1>1, Releases
<1>4. /\ upset' \subseteq Matches /\ faults' \in 0..MaxFaults
      /\ upset \subseteq upset' /\ (m \notin upset' => row' = row /\ upset' = upset)
      BY <1>1, MatchBounds DEF Solo!PersistRefused, Solo!PersistFails, Solo!Fault, Solo!rows, SoloRecords
<1>5. CASE UNCHANGED <<row, paid>>
  <2>1. SoloRecords'
        BY <1>1, <1>3, <1>4, <1>5 DEF SoloRecords
  <2>2. SoloOK(m)'
        BY <1>1, <1>2, <1>3, <1>4, <1>5 DEF SoloOK, Solo!Cached
  <2>3. \A k \in Matches : k # m => SameMatch(k)
        BY <1>1, <1>3, <1>4, <1>5 DEF SameMatch, Solo!Cached
  <2>4. QED BY <2>1, <2>2, <2>3, OneMatchMoves
<1>6. CASE Solo!Finish(m) /\ m \in upset'
  <2>1. /\ row' \in [Matches -> Solo!Position] /\ row'[m] = result[m] /\ result[m].status \in Solo!Ended
        /\ paid' \in [Matches -> Nat] /\ paid'[m] = IF result[m].status = "WON" THEN Reward ELSE 0
        /\ \A k \in Matches : k # m => row'[k] = row[k] /\ paid'[k] = paid[k]
        BY <1>1, <1>6, Finishes
  <2>2. row'[m].status \notin {"NONE", "IN_PROGRESS"} /\ m \notin starting
        BY <2>1, <1>1, <1>6 DEF Solo!Ended, Solo!Finish, SoloOK
  <2>3. SoloRecords'
        BY <1>1, <1>3, <1>4, <2>1 DEF SoloRecords
  <2>4. SoloOK(m)'
        BY <1>1, <1>2, <1>3, <1>6, <2>1, <2>2 DEF SoloOK, Solo!Cached
  <2>5. \A k \in Matches : k # m => SameMatch(k)
        BY <1>1, <1>3, <1>4, <2>1 DEF SameMatch, Solo!Cached
  <2>6. QED BY <2>3, <2>4, <2>5, OneMatchMoves
<1>7. UNCHANGED <<row, paid>> \/ (Solo!Finish(m) /\ m \in upset')
      BY DEF Solo!PersistRefused, Solo!PersistFails, Solo!Fault, Solo!rows
<1>8. QED BY <1>5, <1>6, <1>7

LEMMA ReadRewardKeeps ==
    ASSUME SoloInv, NEW m \in Matches, Solo!ReadReward(m) PROVE SoloInv'
<1>1. /\ SoloRecords /\ SoloOK(m) /\ progress[m] = "reward"
      /\ UNCHANGED <<row, aged, paid, starting, cache, entry, inflight, saving, result, shown, upset, faults>>
      BY SoloTypes DEF SoloInv, Solo!ReadReward, Solo!rows
<1>2. /\ progress' \in [Matches -> Solo!Steps] /\ progress'[m] = "persist"
      /\ \A k \in Matches : k # m => progress'[k] = progress[k]
      BY <1>1 DEF Solo!ReadReward, SoloRecords, Solo!Steps
<1>3. SoloRecords'
      BY <1>1, <1>2 DEF SoloRecords
<1>4. SoloOK(m)'
      BY <1>1, <1>2 DEF SoloOK, Solo!Cached
<1>5. \A k \in Matches : k # m => SameMatch(k)
      BY <1>1, <1>2 DEF SameMatch, Solo!Cached
<1>6. QED BY <1>3, <1>4, <1>5, OneMatchMoves

\* The process dies: what was on its way has been written, or not.
LEMMA CrashKeeps ==
    ASSUME SoloInv, Solo!Crash PROVE SoloInv'
<1>1. /\ SoloRecords /\ UNCHANGED <<aged, result, shown, paid>>
      /\ starting' = {} /\ inflight' = {} /\ cache' = <<>> /\ faults' \in 0..MaxFaults
      /\ upset' = upset \cup {m \in Matches : saving[m] # {}}
      BY SoloTypes, MatchBounds DEF SoloInv, Solo!Crash, SoloRecords
<1>2. /\ entry' = [m \in Matches |-> Solo!Absent] /\ progress' = [m \in Matches |-> "idle"]
      /\ saving' = [m \in Matches |-> {}] /\ Solo!Absent \in Solo!Position
      /\ Solo!Absent.status = "NONE"
      BY MatchBounds DEF Solo!Crash, Solo!Absent, Solo!Position
<1>3. /\ cache' \in Seq(Matches) /\ Len(cache') <= CacheMax /\ Solo!IsInjective(cache')
      /\ \A m \in Matches : ~Solo!Cached(m)'
      BY <1>1, MatchBounds DEF Solo!IsInjective, Solo!Cached, Solo!Contains
<1>4. ASSUME NEW m \in Matches
      PROVE  (CHOOSE n \in saving[m] : TRUE) \in saving[m] \/ saving[m] = {}
      OBVIOUS
<1>5. PICK done \in SUBSET {m \in Matches : saving[m] # {}} :
        row' = [m \in Matches |-> IF m \in done
                    THEN [plies |-> CHOOSE n \in saving[m] : TRUE, status |-> row[m].status]
                    ELSE row[m]]
      BY DEF Solo!Crash
<1>6. ASSUME NEW m \in Matches
      PROVE  /\ row'[m] \in Solo!Position /\ row'[m].status = row[m].status
             /\ saving[m] = {} => row'[m] = row[m]
             /\ row'[m].plies = row[m].plies \/ row'[m].plies \in saving[m]
  <2> DEFINE n == CHOOSE k \in saving[m] : TRUE
  <2>1. CASE m \in done
    <3>1. n \in saving[m]
          BY <2>1, <1>4
    <3>2. row'[m] = [plies |-> n, status |-> row[m].status]
          BY <2>1, <1>5
    <3> HIDE DEF n
    <3>3. n \in 0..MaxPlies /\ row[m].status \in {"NONE", "IN_PROGRESS"} \cup Solo!Ended
          BY <3>1, <1>1, Positions DEF SoloRecords
    <3>4. QED BY <3>1, <3>2, <3>3 DEF Solo!Position
  <2>2. CASE m \notin done
        BY <2>2, <1>1, <1>5 DEF SoloRecords
  <2>3. QED BY <2>1, <2>2
<1>7. row' \in [Matches -> Solo!Position]
  <2>1. DOMAIN row' = Matches /\ row' = [m \in Matches |-> row'[m]]
        BY <1>5
  <2>2. QED BY <2>1, <1>6
<1>8. SoloRecords'
      BY <1>1, <1>2, <1>3, <1>7 DEF SoloRecords, Solo!Steps
<1>9. ASSUME NEW m \in Matches PROVE SoloOK(m)'
  <2>1. SoloOK(m)
        BY DEF SoloInv
  <2>2. row'[m].status = "IN_PROGRESS" => row'[m].plies < MaxPlies
        BY <2>1, <1>6 DEF SoloOK
  <2>3. row'[m].status = "NONE" => row'[m].plies = 0 /\ shown'[m] = 0
        BY <2>1, <1>1, <1>6 DEF SoloOK
  <2>4. m \notin upset' => row'[m].plies = shown'[m]
        BY <2>1, <1>1, <1>6 DEF SoloOK
  <2>5. paid'[m] = IF row'[m].status = "WON" THEN Reward ELSE 0
        BY <2>1, <1>1, <1>6 DEF SoloOK
  <2>6. QED BY <2>2, <2>3, <2>4, <2>5, <1>1, <1>2, <1>3 DEF SoloOK
<1>10. QED BY <1>8, <1>9, SoloTypesNext DEF SoloInv

LEMMA SoloStep ==
    ASSUME SoloInv, Solo!Next PROVE SoloInv'
<1>1. ASSUME NEW m \in Matches, Solo!Sweep(m) \/ Solo!EndStart(m) \/ Solo!BeginStart(m) \/ Solo!Age(m) PROVE SoloInv'
      BY <1>1, SweepKeeps, EndStartKeeps, StartsAndAgesKeep
<1>2. ASSUME NEW m \in Matches, Solo!MoveCached(m) \/ Solo!MoveUncached(m) \/ Solo!Load(m) PROVE SoloInv'
      BY <1>2, MoveCachedKeeps, MoveUncachedKeeps, LoadKeeps
<1>3. ASSUME NEW m \in Matches, NEW n \in saving[m], Solo!Save(m, n) \/ Solo!SaveFails(m, n) PROVE SoloInv'
      BY <1>3, SavesKeep
<1>4. ASSUME NEW m \in Matches, Solo!ReadReward(m) \/ Solo!Persist(m) \/ Solo!PersistRefused(m) \/ Solo!PersistFails(m)
      PROVE  SoloInv'
      BY <1>4, ReadRewardKeeps, PersistKeeps, PersistEndsKeep
<1>5. CASE Solo!Crash
      BY <1>5, CrashKeeps
<1>6. QED BY <1>1, <1>2, <1>3, <1>4, <1>5 DEF Solo!Next

\* The other games leave the matches alone.
LEMMA SoloStays ==
    ASSUME SoloInv, UNCHANGED soloVars PROVE SoloInv'
<1>1. SoloRecords'
      BY SoloTypes DEF SoloInv, SoloRecords, soloVars
<1>2. ASSUME NEW m \in Matches PROVE SoloOK(m)'
  <2>1. SoloOK(m) /\ SameMatch(m)
        BY DEF SoloInv, SameMatch, Solo!Cached, soloVars
  <2>2. QED BY <2>1, MatchStays
<1>3. QED BY <1>1, <1>2, SoloTypesNext DEF SoloInv

-------------------------------------------------------------------------------
\* Tic-tac-toe online.

\* The two games bring the operators on lists along, each its own.
LEMMA SameLists ==
    /\ \A s, x : Online!RemoveFirst(s, x) = Solo!RemoveFirst(s, x)
    /\ \A s, x : Online!Contains(s, x) <=> Solo!Contains(s, x)
    /\ \A s : Online!IsInjective(s) <=> Solo!IsInjective(s)
<1>1. \A s, x : Online!RemoveFirst(s, x) = Solo!RemoveFirst(s, x)
      BY DEF Online!RemoveFirst, Solo!RemoveFirst, Online!RemoveAt, Solo!RemoveAt, Online!SelectInSeq, Solo!SelectInSeq,
             Online!Min, Solo!Min
<1>2. \A s, x : Online!Contains(s, x) <=> Solo!Contains(s, x)
      BY DEF Online!Contains, Solo!Contains
<1>3. \A s : Online!IsInjective(s) <=> Solo!IsInjective(s)
      BY DEF Online!IsInjective, Solo!IsInjective
<1>4. QED BY <1>1, <1>2, <1>3

\* Users in a queue, each once: one leaves it, joins its end, or is put in front.
IsQueue(q) == q \in Seq(Gamers) /\ Online!IsInjective(q)

LEMMA LeavesQueue ==
    ASSUME NEW q, IsQueue(q), NEW u
    PROVE  /\ IsQueue(Online!Without(q, u))
           /\ \A y : Online!Contains(Online!Without(q, u), y) <=> y # u /\ Online!Contains(q, y)
BY RemovedKey, SameLists DEF IsQueue, Online!Without

LEMMA JoinsQueue ==
    ASSUME NEW q, IsQueue(q), NEW u \in Gamers
    PROVE  /\ IsQueue(Append(Online!Without(q, u), u))
           /\ \A y : Online!Contains(Append(Online!Without(q, u), u), y) <=> y = u \/ Online!Contains(q, y)
<1> DEFINE w == Online!Without(q, u)
<1>1. IsQueue(w) /\ \A y : Online!Contains(w, y) <=> y # u /\ Online!Contains(q, y)
      BY LeavesQueue
<1> HIDE DEF w
<1>2. /\ IsQueue(Append(w, u))
      /\ \A y : Online!Contains(Append(w, u), y) <=> y = u \/ Online!Contains(w, y)
      BY <1>1, AppendedKey, SameLists DEF IsQueue
<1>3. QED BY <1>1, <1>2 DEF w

LEMMA PutInFront ==
    ASSUME NEW q, IsQueue(q), NEW u \in Gamers
    PROVE  /\ IsQueue(<<u>> \o Online!Without(q, u))
           /\ \A y : Online!Contains(<<u>> \o Online!Without(q, u), y) <=> y = u \/ Online!Contains(q, y)
<1> DEFINE w == Online!Without(q, u)
           t == <<u>> \o w
<1>1. IsQueue(w) /\ \A y : Online!Contains(w, y) <=> y # u /\ Online!Contains(q, y)
      BY LeavesQueue
<1>2. w \in Seq(Gamers) /\ DOMAIN w = 1..Len(w) /\ Len(w) \in Nat
      BY <1>1 DEF IsQueue
<1> HIDE DEF w
<1>3. /\ t \in Seq(Gamers) /\ Len(t) = Len(w) + 1 /\ DOMAIN t = 1..Len(t)
      /\ t[1] = u /\ \A i \in 2..Len(t) : t[i] = w[i - 1]
      BY <1>2
<1> HIDE DEF t
<1>4. /\ \A i \in 1..Len(t) : i = 1 \/ (i \in 2..Len(t) /\ i - 1 \in 1..Len(w))
      /\ \A i \in 1..Len(w) : i + 1 \in 2..Len(t) /\ t[i + 1] = w[i] /\ i + 1 \in 1..Len(t)
      /\ 1 \in 1..Len(t)
      BY <1>2, <1>3
<1>5. \A i \in 1..Len(w) : w[i] # u
      BY <1>1 DEF Online!Contains
<1>6. Online!IsInjective(t)
  <2>1. ASSUME NEW i \in 1..Len(t), NEW j \in 1..Len(t), t[i] = t[j] PROVE i = j
    <3>1. CASE i = 1 \/ j = 1
          BY <3>1, <2>1, <1>3, <1>4, <1>5
    <3>2. CASE i # 1 /\ j # 1
      <4>1. w[i - 1] = w[j - 1] /\ i - 1 \in 1..Len(w) /\ j - 1 \in 1..Len(w)
            BY <3>2, <2>1, <1>3, <1>4
      <4>2. i - 1 = j - 1
            BY <4>1, <1>1, <1>2 DEF IsQueue, Online!IsInjective
      <4>3. QED BY <4>2, <2>1
    <3>3. QED BY <3>1, <3>2
  <2>2. QED BY <2>1, <1>3 DEF Online!IsInjective
<1>7. ASSUME NEW y PROVE Online!Contains(t, y) <=> y = u \/ Online!Contains(w, y)
  <2>1. Online!Contains(t, y) => y = u \/ Online!Contains(w, y)
        BY <1>3, <1>4 DEF Online!Contains
  <2>2. y = u => Online!Contains(t, y)
        BY <1>3, <1>4 DEF Online!Contains
  <2>3. Online!Contains(w, y) => Online!Contains(t, y)
        BY <1>3, <1>4 DEF Online!Contains
  <2>4. QED BY <2>1, <2>2, <2>3
<1>8. QED BY <1>1, <1>3, <1>6, <1>7 DEF IsQueue, t, w

\* Whoever stands at a place is taken out.
LEMMA TakenOut ==
    ASSUME NEW q, IsQueue(q), NEW i \in DOMAIN q
    PROVE  /\ q[i] \in Gamers /\ IsQueue(Online!RemoveAt(q, i))
           /\ \A y : Online!Contains(Online!RemoveAt(q, i), y) <=> y # q[i] /\ Online!Contains(q, y)
<1>1. q \in Seq(Gamers) /\ i \in 1..Len(q) /\ q[i] \in Gamers /\ DOMAIN q = 1..Len(q)
      BY DEF IsQueue
<1>2. {k \in 1..Len(q) : q[k] = q[i]} = {i}
      BY <1>1 DEF IsQueue, Online!IsInjective
<1>3. Online!Min({i}) = i
      BY <1>1 DEF Online!Min
<1>4. Online!RemoveFirst(q, q[i]) = Online!RemoveAt(q, i)
      BY <1>1, <1>2, <1>3 DEF Online!RemoveFirst, Online!SelectInSeq
<1>5. QED BY <1>1, <1>4, LeavesQueue DEF Online!Without

LEMMA LeastOf ==
    ASSUME NEW T \in SUBSET Nat, T # {}
    PROVE  \E n \in T : \A m \in T : n <= m
<1> DEFINE R == OpToRel(<, Nat)
<1>1. IsWellFoundedOn(R, Nat)
      BY NatLessThanWellFounded
<1>2. \A p \in Nat \X Nat : p \in R <=> p[1] < p[2]
      BY DEF OpToRel
<1> HIDE DEF R
<1>3. PICK x \in T : \A y \in T : ~(<<y, x>> \in R)
      BY <1>1, WFMin
<1>4. ASSUME NEW y \in T PROVE x <= y
  <2>1. <<y, x>> \in Nat \X Nat /\ ~(y < x) /\ x \in Nat /\ y \in Nat
        BY <1>2, <1>3
  <2>2. QED BY <2>1
<1>5. QED BY <1>4

LEMMA FirstCandidate ==
    ASSUME NEW q, IsQueue(q), Online!Candidates(q) # {}
    PROVE  LET i == CHOOSE i \in Online!Candidates(q) : \A j \in Online!Candidates(q) : i <= j
           IN  i \in DOMAIN q /\ q[i] # Online!Actor
<1>1. Online!Candidates(q) \subseteq Nat
      BY DEF Online!Candidates, IsQueue
<1>2. \E i \in Online!Candidates(q) : \A j \in Online!Candidates(q) : i <= j
      BY <1>1, LeastOf
<1>3. QED BY <1>2 DEF Online!Candidates

\* Types, part by part.
SessionRecord == [up : BOOLEAN, game : Online!Numbers \cup {Online!NoMatch}, ludo : BOOLEAN]
MatchRecord == [players : SUBSET Gamers, turn : Gamers \cup {Nobody}, status : {"NONE", "IN_PROGRESS", "OVER"}]
OpRecord == [op : {"join", "leave", "drop"}, user : Gamers]

SessionTypes == session \in [Gamers -> SessionRecord] /\ searching \subseteq Gamers
OpTypes ==
    /\ ops \in Seq(OpRecord) /\ Len(ops) <= MaxOps
    /\ phaseOfOp \in Online!Phases /\ look \in Online!Numbers \cup {Online!NoMatch} /\ cand \in Gamers \cup {Nobody}
MatchTypes ==
    /\ match \in [Online!Numbers -> MatchRecord]
    /\ closing \subseteq Online!Numbers /\ leaving \subseteq Gamers \X Online!Numbers
AskTypes == asking \in [Gamers -> [match : Online!Numbers \cup {Online!NoMatch}, live : BOOLEAN]]
LudoTypes == ludoQueue \subseteq Gamers /\ seat \subseteq Gamers /\ unpublished \subseteq seat
CountTypes == calls \in 0..MaxCalls /\ outages \in 0..MaxOutages

OnlineTypes ==
    SessionTypes /\ IsQueue(queue) /\ OpTypes /\ MatchTypes /\ AskTypes /\ LudoTypes /\ CountTypes

LEMMA TypesOfOnline == OnlineTypes <=> Online!TypeOK
BY DEF OnlineTypes, SessionTypes, OpTypes, MatchTypes, AskTypes, LudoTypes, CountTypes, IsQueue, Online!TypeOK,
   SessionRecord, MatchRecord, OpRecord
LEMMA TypesOfOnlineNext == OnlineTypes' <=> Online!TypeOK'
BY DEF OnlineTypes, SessionTypes, OpTypes, MatchTypes, AskTypes, LudoTypes, CountTypes, IsQueue, Online!TypeOK,
   SessionRecord, MatchRecord, OpRecord

\* Only an operation on the queue goes through phases, and past the search for the joining
\* user's match it is a join that holds a candidate, another one.
Pairing == {"cand", "candLooked", "create", "publish"}
PhaseInv ==
    /\ phaseOfOp # "begin" => ops # <<>> /\ Head(ops).op \in {"join", "leave"}
    /\ phaseOfOp \in Pairing => Head(ops).op = "join" /\ cand \in Gamers /\ cand # Online!Actor

\* Nobody plays two matches, and a match in progress has a player beside any other.  Once
\* the joining user, or the candidate, was found without a match, it stays without.
MatchedOnce ==
    /\ \A u \in Gamers : \A m, n \in Online!Live(u) : m = n
    /\ \A m \in Online!Numbers : match[m].status = "IN_PROGRESS" =>
           \A u \in Gamers : \E v \in match[m].players : v # u
ActorAlone == (phaseOfOp = "looked" /\ look = Online!NoMatch) \/ phaseOfOp \in {"cand", "candLooked", "create"} =>
                  Online!Live(Online!Actor) = {}
CandAlone == (phaseOfOp = "candLooked" /\ look = Online!NoMatch) \/ phaseOfOp = "create" => Online!Live(cand) = {}

\* Whoever was told that the search is on has a session and is in the queue, but for the two
\* users the running operation holds; and those can still be paired.
SearchInv ==
    /\ \A u \in searching : session[u].up
    /\ \A u \in searching : Online!Contains(queue, u) \/ (phaseOfOp \in Pairing /\ u \in {cand, Online!Actor})
    /\ phaseOfOp \in {"cand", "candLooked", "create"} => \A u \in searching : u = Online!Actor => Online!Idle(u)
    /\ phaseOfOp = "create" => \A u \in searching : u = cand => Online!Idle(u)

OnlineInv == OnlineTypes /\ PhaseInv /\ MatchedOnce /\ ActorAlone /\ CandAlone /\ SearchInv

LEMMA SearchedOnce == OnlineInv => Online!OneOnlineMatch /\ Online!SearchingIsQueued
<1> SUFFICES ASSUME OnlineInv PROVE Online!OneOnlineMatch /\ Online!SearchingIsQueued
    OBVIOUS
<1>1. \A S : Online!Cardinality(S) = Cardinality(S)
      BY DEF Online!Cardinality, Cardinality
<1>2. ASSUME NEW u \in Gamers PROVE Online!Cardinality(Online!Live(u)) <= 1
  <2>1. \A m, n \in Online!Live(u) : m = n
        BY DEF OnlineInv, MatchedOnce
  <2>2. CASE Online!Live(u) = {}
        BY <2>2, <1>1, FS_EmptySet
  <2>3. CASE Online!Live(u) # {}
    <3>1. PICK m : Online!Live(u) = {m}
          BY <2>1, <2>3
    <3>2. QED BY <3>1, <1>1, FS_Singleton
  <2>4. QED BY <2>2, <2>3
<1>3. Online!SearchingIsQueued
      BY DEF OnlineInv, SearchInv, PhaseInv, Online!SearchingIsQueued, Pairing, Online!Running
<1>4. QED BY <1>2, <1>3 DEF Online!OneOnlineMatch

\* The newest of at most one match.
LEMMA NewestIs ==
    ASSUME MatchedOnce, NEW u \in Gamers
    PROVE  /\ Online!ActiveOf(u) \in Online!Numbers \cup {Online!NoMatch}
           /\ Online!ActiveOf(u) = Online!NoMatch <=> Online!Live(u) = {}
<1>1. Online!Live(u) \subseteq Online!Numbers /\ \A m \in Online!Numbers : m # Online!NoMatch /\ m <= m
      BY OnlineBounds DEF Online!Live, Online!Numbers, Online!NoMatch
<1>2. CASE Online!Live(u) = {}
      BY <1>2 DEF Online!ActiveOf
<1>3. CASE Online!Live(u) # {}
  <2>1. PICK m \in Online!Live(u) : Online!Live(u) = {m}
        BY <1>3 DEF MatchedOnce
  <2>2. Online!ActiveOf(u) = CHOOSE k \in Online!Live(u) : \A n \in Online!Live(u) : n <= k
        BY <1>3 DEF Online!ActiveOf
  <2>3. (CHOOSE k \in Online!Live(u) : \A n \in Online!Live(u) : n <= k) \in Online!Live(u)
        BY <2>1, <1>1
  <2>4. QED BY <1>1, <1>3, <2>2, <2>3
<1>4. QED BY <1>2, <1>3

\* The route of some users is set.
LEMMA SetsGame ==
    ASSUME SessionTypes, NEW us, NEW m \in Online!Numbers \cup {Online!NoMatch}, Online!SetGame(us, m)
    PROVE  /\ session' \in [Gamers -> SessionRecord]
           /\ \A u \in Gamers : /\ session'[u].up = session[u].up
                                /\ session'[u].ludo = session[u].ludo
                                /\ session'[u].game = IF u \in us /\ session[u].up THEN m ELSE session[u].game
<1>1. session' = [u \in Gamers |-> IF u \in us /\ session[u].up THEN [session[u] EXCEPT !.game = m] ELSE session[u]]
      BY DEF Online!SetGame
<1>2. \A u \in Gamers : session[u] \in SessionRecord
      BY DEF SessionTypes
<1>3. QED BY <1>1, <1>2 DEF SessionRecord

\* A user who may not lose the session or get into a game by a step.
StillIdle(u) == session'[u].up /\ (Online!Idle(u) => Online!Idle(u)')

\* Steps beside the operation that runs: operations may be appended, matches end, users
\* are told of something else.
Beside ==
    /\ UNCHANGED <<queue, phaseOfOp, look, cand>>
    /\ ops' = ops \/ (Len(ops) < MaxOps /\ \E o \in OpRecord : ops' = Append(ops, o))
    /\ searching' \subseteq searching
    /\ \A u \in searching' : StillIdle(u)
    /\ \A u \in Gamers : Online!Live(u)' \subseteq Online!Live(u)
    /\ \A m \in Online!Numbers : match'[m].players = match[m].players
                                 /\ (match'[m].status = "IN_PROGRESS" => match[m].status = "IN_PROGRESS")

LEMMA BesideKeeps ==
    ASSUME OnlineInv, Beside, session' \in [Gamers -> SessionRecord], MatchTypes', AskTypes', LudoTypes', CountTypes'
    PROVE  OnlineInv'
<1>1. /\ OpTypes' /\ (ops # <<>> => ops' # <<>> /\ Head(ops') = Head(ops))
  <2>1. ops \in Seq(OpRecord) /\ Len(ops) <= MaxOps /\ MaxOps \in Nat
        BY OnlineBounds DEF OnlineInv, OnlineTypes, OpTypes
  <2>2. CASE ops' = ops
        BY <2>2 DEF OnlineInv, OnlineTypes, OpTypes, Beside
  <2>3. ASSUME Len(ops) < MaxOps, NEW o \in OpRecord, ops' = Append(ops, o)
        PROVE  ops' \in Seq(OpRecord) /\ Len(ops') <= MaxOps /\ ops' # <<>> /\ (ops # <<>> => Head(ops') = Head(ops))
    <3>1. ops' \in Seq(OpRecord) /\ Len(ops') = Len(ops) + 1 /\ Len(ops) \in Nat
          BY <2>1, <2>3
    <3>2. ops # <<>> => ops'[1] = ops[1] /\ Head(ops') = ops'[1] /\ Head(ops) = ops[1]
          BY <2>1, <2>3
    <3>3. QED BY <3>1, <3>2, <2>1, <2>3
  <2>4. QED BY <2>2, <2>3 DEF Beside, OnlineInv, OnlineTypes, OpTypes
<1>2. OnlineTypes'
      BY <1>1 DEF Beside, OnlineInv, OnlineTypes, SessionTypes, IsQueue
<1>3. PhaseInv'
      BY <1>1 DEF Beside, OnlineInv, PhaseInv, Online!Actor, Pairing
<1>4. ASSUME ops # <<>> PROVE Online!Actor' = Online!Actor /\ Online!Actor \in Gamers
  <2>1. Head(ops') = Head(ops) /\ ops \in Seq(OpRecord)
        BY <1>1, <1>4 DEF OnlineInv, OnlineTypes, OpTypes
  <2>2. Head(ops) \in OpRecord
        BY <2>1, <1>4
  <2>3. QED BY <2>1, <2>2 DEF Online!Actor, OpRecord
<1>5. MatchedOnce'
      BY DEF Beside, OnlineInv, MatchedOnce, Online!Numbers
<1>6. ActorAlone'
      BY <1>4 DEF Beside, OnlineInv, ActorAlone, PhaseInv
<1>7. CandAlone'
      BY DEF Beside, OnlineInv, CandAlone, PhaseInv, Pairing
<1>8. SearchInv'
  <2>1. \A u \in searching' : session'[u].up
        BY DEF Beside, StillIdle
  <2>2. \A u \in searching' : Online!Contains(queue, u) \/ (phaseOfOp \in Pairing /\ u \in {cand, Online!Actor})
        BY DEF Beside, OnlineInv, SearchInv
  <2>3. phaseOfOp \in Pairing => Online!Actor' = Online!Actor
        BY <1>4 DEF OnlineInv, PhaseInv, Pairing
  <2>4. \A u \in searching' : u \in searching /\ (Online!Idle(u) => Online!Idle(u)')
        BY DEF Beside, StillIdle
  <2>5. UNCHANGED <<queue, phaseOfOp, cand>>
        BY DEF Beside
  <2>6. phaseOfOp \in {"cand", "candLooked", "create"} => \A u \in searching' : u = Online!Actor' => Online!Idle(u)'
        BY <2>3, <2>4 DEF OnlineInv, SearchInv, Pairing
  <2>7. phaseOfOp = "create" => \A u \in searching' : u = cand => Online!Idle(u)'
        BY <2>4 DEF OnlineInv, SearchInv
  <2>8. QED BY <2>1, <2>2, <2>3, <2>5, <2>6, <2>7 DEF SearchInv, Pairing
<1>9. QED BY <1>2, <1>3, <1>5, <1>6, <1>7, <1>8 DEF OnlineInv

LEMMA SameMatches ==
    ASSUME match' = match
    PROVE  /\ \A u \in Gamers : Online!Live(u)' = Online!Live(u)
           /\ \A m \in Online!Numbers : match'[m].players = match[m].players
                                        /\ (match'[m].status = "IN_PROGRESS" => match[m].status = "IN_PROGRESS")
BY DEF Online!Live, Online!Numbers

LEMMA SameSessions ==
    ASSUME OnlineInv, session' = session PROVE \A u \in searching : StillIdle(u)
BY DEF OnlineInv, SearchInv, StillIdle, Online!Idle

LEMMA Cleared ==
    ASSUME OnlineInv, NEW us, Online!SetGame(us, Online!NoMatch)
    PROVE  session' \in [Gamers -> SessionRecord] /\ \A u \in searching : StillIdle(u)
<1>1. /\ session' \in [Gamers -> SessionRecord]
      /\ \A u \in Gamers : /\ session'[u].up = session[u].up
                           /\ session'[u].ludo = session[u].ludo
                           /\ session'[u].game = IF u \in us /\ session[u].up THEN Online!NoMatch ELSE session[u].game
      BY SetsGame DEF OnlineInv, OnlineTypes
<1>2. searching \subseteq Gamers /\ \A u \in searching : session[u].up
      BY DEF OnlineInv, OnlineTypes, SessionTypes, SearchInv
<1>3. QED BY <1>1, <1>2 DEF StillIdle, Online!Idle

LEMMA CallsCount ==
    ASSUME CountTypes, Online!Call, outages' = outages PROVE CountTypes'
BY OnlineBounds DEF CountTypes, Online!Call
LEMMA FaultsCount ==
    ASSUME CountTypes, outages < MaxOutages, outages' = outages + 1, calls' = calls PROVE CountTypes'
BY OnlineBounds DEF CountTypes

\* Calls that wait, and what Ludo does without the sessions.
LEMMA AsidesKeep ==
    ASSUME OnlineInv, UNCHANGED <<session, searching, queue, phaseOfOp, look, cand, match>>,
           ops' = ops \/ (Len(ops) < MaxOps /\ \E o \in OpRecord : ops' = Append(ops, o)),
           MatchTypes', AskTypes', LudoTypes', CountTypes'
    PROVE  OnlineInv'
<1>1. Beside
      BY SameMatches, SameSessions DEF Beside
<1>2. session' \in [Gamers -> SessionRecord]
      BY DEF OnlineInv, OnlineTypes, SessionTypes
<1>3. QED BY <1>1, <1>2, BesideKeeps

LEMMA CallsKeep ==
    ASSUME OnlineInv, NEW u \in Gamers,
           \/ \E o \in {"join", "leave"} : Online!Request(u, o)
           \/ Online!LudoJoin(u)
           \/ \E m \in Online!Numbers : Online!RequestLeave(u, m) \/ Online!AskState(u, m)
    PROVE  OnlineInv'
<1>t. OnlineTypes
      BY DEF OnlineInv
<1>1. ASSUME NEW o \in {"join", "leave"}, Online!Request(u, o) PROVE OnlineInv'
  <2>1. [op |-> o, user |-> u] \in OpRecord
        BY DEF OpRecord
  <2>2. CountTypes'
        BY <1>1, <1>t, CallsCount DEF Online!Request, OnlineTypes
  <2>3. /\ UNCHANGED <<session, searching, queue, phaseOfOp, look, cand, match, closing, leaving, asking, ludoQueue, seat, unpublished>>
        /\ Len(ops) < MaxOps /\ ops' = Append(ops, [op |-> o, user |-> u])
        BY <1>1 DEF Online!Request, Online!sessionVars, Online!matchVars, Online!ludoVars
  <2>4. MatchTypes' /\ AskTypes' /\ LudoTypes'
        BY <2>3, <1>t DEF OnlineTypes, MatchTypes, AskTypes, LudoTypes
  <2>5. QED BY <2>1, <2>2, <2>3, <2>4, AsidesKeep
<1>2. CASE Online!LudoJoin(u)
  <2>1. CountTypes'
        BY <1>2, <1>t, CallsCount DEF Online!LudoJoin, OnlineTypes
  <2>2. /\ UNCHANGED <<session, searching, queue, ops, phaseOfOp, look, cand, match, closing, leaving, asking, seat, unpublished>>
        /\ ludoQueue' = ludoQueue \cup {u}
        BY <1>2 DEF Online!LudoJoin, Online!sessionVars, Online!matchVars, Online!opVars
  <2>3. MatchTypes' /\ AskTypes' /\ LudoTypes'
        BY <2>2, <1>t DEF OnlineTypes, MatchTypes, AskTypes, LudoTypes
  <2>4. QED BY <2>1, <2>2, <2>3, AsidesKeep
<1>3. ASSUME NEW m \in Online!Numbers, Online!RequestLeave(u, m) PROVE OnlineInv'
  <2>1. CountTypes'
        BY <1>3, <1>t, CallsCount DEF Online!RequestLeave, OnlineTypes
  <2>2. /\ UNCHANGED <<session, searching, queue, ops, phaseOfOp, look, cand, match, closing, asking, ludoQueue, seat, unpublished>>
        /\ leaving' = leaving \cup {<<u, m>>}
        BY <1>3 DEF Online!RequestLeave, Online!sessionVars, Online!opVars, Online!ludoVars
  <2>3. MatchTypes' /\ AskTypes' /\ LudoTypes'
        BY <2>2, <1>t DEF OnlineTypes, MatchTypes, AskTypes, LudoTypes
  <2>4. QED BY <2>1, <2>2, <2>3, AsidesKeep
<1>4. ASSUME NEW m \in Online!Numbers, Online!AskState(u, m) PROVE OnlineInv'
  <2>1. CountTypes'
        BY <1>4, <1>t, CallsCount DEF Online!AskState, OnlineTypes
  <2>2. /\ UNCHANGED <<session, searching, queue, ops, phaseOfOp, look, cand, match, closing, leaving, ludoQueue, seat, unpublished>>
        /\ asking' = [asking EXCEPT ![u] = [match |-> m, live |-> match[m].status = "IN_PROGRESS"]]
        BY <1>4 DEF Online!AskState, Online!sessionVars, Online!opVars, Online!ludoVars, Online!matchVars
  <2>3. MatchTypes' /\ LudoTypes'
        BY <2>2, <1>t DEF OnlineTypes, MatchTypes, LudoTypes
  <2>4. AskTypes'
        BY <2>2, <1>t DEF OnlineTypes, AskTypes
  <2>5. QED BY <2>1, <2>2, <2>3, <2>4, AsidesKeep
<1>5. QED BY <1>1, <1>2, <1>3, <1>4

\* Sessions come and go.
LEMMA SocketsKeep ==
    ASSUME OnlineInv, NEW u \in Gamers, Online!Connect(u) \/ Online!ResumeLudo(u) \/ Online!Close(u)
    PROVE  OnlineInv'
<1>t. OnlineTypes /\ searching \subseteq Gamers /\ session \in [Gamers -> SessionRecord]
      BY DEF OnlineInv, OnlineTypes, SessionTypes
<1>1. /\ searching' = searching \ {u}
      /\ \A v \in Gamers : v # u => session'[v] = session[v]
      /\ session' \in [Gamers -> SessionRecord]
  <2>1. CASE Online!Connect(u)
    <3>1. Online!Opened \in SessionRecord
          BY DEF Online!Opened, SessionRecord
    <3>2. QED BY <3>1, <2>1, <1>t DEF Online!Connect
  <2>2. CASE Online!Close(u)
    <3>1. Online!Away \in SessionRecord
          BY DEF Online!Away, SessionRecord
    <3>2. QED BY <3>1, <2>2, <1>t DEF Online!Close
  <2>3. CASE Online!ResumeLudo(u)
    <3>1. [session[u] EXCEPT !.ludo = TRUE] \in SessionRecord
          BY <1>t DEF SessionRecord
    <3>2. session' = [session EXCEPT ![u] = [session[u] EXCEPT !.ludo = TRUE]] /\ searching' = searching \ {u}
          BY <2>3, <1>t DEF Online!ResumeLudo
    <3>3. QED BY <3>1, <3>2, <1>t
  <2>4. QED BY <2>1, <2>2, <2>3
<1>2. \A v \in searching' : StillIdle(v)
      BY <1>1, <1>t DEF StillIdle, Online!Idle, OnlineInv, SearchInv
<1>3. /\ UNCHANGED <<queue, phaseOfOp, look, cand, match, closing, leaving, asking, ludoQueue, seat, unpublished, outages>>
      /\ ops' = ops \/ (Len(ops) < MaxOps /\ \E o \in OpRecord : ops' = Append(ops, o))
  <2>1. [op |-> "drop", user |-> u] \in OpRecord
        BY DEF OpRecord
  <2>2. QED BY <2>1 DEF Online!Connect, Online!ResumeLudo, Online!Close, Online!opVars, Online!matchVars, Online!ludoVars
<1>4. MatchTypes' /\ AskTypes' /\ LudoTypes'
      BY <1>3, <1>t DEF OnlineTypes, MatchTypes, AskTypes, LudoTypes
<1>5. CountTypes'
  <2>1. CASE calls' = calls
        BY <2>1, <1>3, <1>t DEF OnlineTypes, CountTypes
  <2>2. CASE Online!Call
        BY <2>2, <1>3, <1>t, CallsCount DEF OnlineTypes
  <2>3. QED BY <2>1, <2>2 DEF Online!Connect, Online!ResumeLudo, Online!Close
<1>6. Beside
      BY <1>1, <1>2, <1>3, SameMatches DEF Beside
<1>7. QED BY <1>1, <1>4, <1>5, <1>6, BesideKeeps

LEMMA SendStateKeeps ==
    ASSUME OnlineInv, NEW u \in Gamers, Online!SendState(u) PROVE OnlineInv'
<1>t. OnlineTypes /\ searching \subseteq Gamers /\ session \in [Gamers -> SessionRecord]
      BY DEF OnlineInv, OnlineTypes, SessionTypes
<1>1. /\ UNCHANGED <<queue, ops, phaseOfOp, look, cand, match, closing, leaving, ludoQueue, seat, unpublished, outages, calls>>
      /\ asking' = [asking EXCEPT ![u] = Online!NotAsking]
      BY DEF Online!SendState, Online!opVars, Online!matchVars, Online!ludoVars
<1>2. AskTypes'
  <2>1. Online!NotAsking \in [match : Online!Numbers \cup {Online!NoMatch}, live : BOOLEAN]
        BY DEF Online!NotAsking
  <2>2. QED BY <2>1, <1>1, <1>t DEF OnlineTypes, AskTypes
<1>3. MatchTypes' /\ LudoTypes' /\ CountTypes'
      BY <1>1, <1>t DEF OnlineTypes, MatchTypes, LudoTypes, CountTypes
<1>4. /\ searching' \subseteq searching /\ session' \in [Gamers -> SessionRecord]
      /\ \A v \in searching' : StillIdle(v)
  <2>1. CASE UNCHANGED <<session, searching>>
        BY <2>1, <1>t, SameSessions
  <2>2. ASSUME NEW m \in Online!Numbers \cup {Online!NoMatch}, Online!SetGame({u}, m), Online!Told(u)
        PROVE  /\ searching' \subseteq searching /\ session' \in [Gamers -> SessionRecord]
               /\ \A v \in searching' : StillIdle(v)
    <3>1. /\ session' \in [Gamers -> SessionRecord]
          /\ \A v \in Gamers : /\ session'[v].up = session[v].up
                               /\ session'[v].ludo = session[v].ludo
                               /\ session'[v].game = IF v \in {u} /\ session[v].up THEN m ELSE session[v].game
          BY <2>2, <1>t, SetsGame DEF OnlineTypes
    <3>2. searching' = searching \ {u}
          BY <2>2 DEF Online!Told
    <3>3. QED BY <3>1, <3>2, <1>t DEF StillIdle, Online!Idle, OnlineInv, SearchInv
  <2>3. asking[u].match \in Online!Numbers \cup {Online!NoMatch}
        BY <1>t DEF OnlineTypes, AskTypes
  <2>4. QED BY <2>1, <2>2, <2>3 DEF Online!SendState
<1>5. Beside
      BY <1>1, <1>4, SameMatches DEF Beside
<1>6. QED BY <1>2, <1>3, <1>4, <1>5, BesideKeeps

\* Matches go on and end.
LEMMA MatchEnds ==
    ASSUME MatchTypes, NEW m \in Online!Numbers, Online!End(m), leaving' \subseteq leaving
    PROVE  /\ MatchTypes'
           /\ \A u \in Gamers : Online!Live(u)' \subseteq Online!Live(u)
           /\ \A k \in Online!Numbers : match'[k].players = match[k].players
                                        /\ (match'[k].status = "IN_PROGRESS" => match[k].status = "IN_PROGRESS")
<1>1. match' = [match EXCEPT ![m] = [match[m] EXCEPT !.status = "OVER"]] /\ closing' = closing \cup {m}
      BY DEF Online!End, MatchTypes
<1>2. [match[m] EXCEPT !.status = "OVER"] \in MatchRecord
      BY DEF MatchTypes, MatchRecord
<1>3. MatchTypes'
      BY <1>1, <1>2 DEF MatchTypes, Online!Numbers
<1>4. \A k \in Online!Numbers : match'[k].players = match[k].players
                                /\ (match'[k].status = "IN_PROGRESS" => match[k].status = "IN_PROGRESS")
      BY <1>1 DEF MatchTypes, MatchRecord
<1>5. QED BY <1>3, <1>4 DEF Online!Live, Online!Numbers

LEMMA MovesKeep ==
    ASSUME OnlineInv, NEW u \in Gamers, NEW m \in Online!Numbers, Online!OnlineMove(u, m) \/ Online!LastMove(u, m)
    PROVE  OnlineInv'
<1>t. OnlineTypes /\ session \in [Gamers -> SessionRecord]
      BY DEF OnlineInv, OnlineTypes, SessionTypes
<1>1. /\ UNCHANGED <<session, searching, queue, ops, phaseOfOp, look, cand, leaving, asking, ludoQueue, seat, unpublished, outages, calls>>
      BY DEF Online!OnlineMove, Online!LastMove, Online!sessionVars, Online!opVars, Online!ludoVars
<1>2. AskTypes' /\ LudoTypes' /\ CountTypes'
      BY <1>1, <1>t DEF OnlineTypes, AskTypes, LudoTypes, CountTypes
<1>3. \A v \in searching' : StillIdle(v)
      BY <1>1, SameSessions
<1>4. /\ MatchTypes'
      /\ \A v \in Gamers : Online!Live(v)' \subseteq Online!Live(v)
      /\ \A k \in Online!Numbers : match'[k].players = match[k].players
                                   /\ (match'[k].status = "IN_PROGRESS" => match[k].status = "IN_PROGRESS")
  <2>1. CASE Online!LastMove(u, m)
        BY <2>1, <1>1, <1>t, MatchEnds DEF Online!LastMove, OnlineTypes
  <2>2. CASE Online!OnlineMove(u, m)
    <3>1. match[m].status = "IN_PROGRESS" /\ match[m] \in MatchRecord /\ closing' = closing
          BY <2>2, <1>t DEF Online!OnlineMove, Online!Playing, OnlineTypes, MatchTypes
    <3>2. PICK v \in match[m].players : v # u
          BY <3>1 DEF OnlineInv, MatchedOnce
    <3>3. Online!Other(m, u) \in match[m].players
          BY <3>2 DEF Online!Other
    <3> DEFINE next == [match[m] EXCEPT !.turn = Online!Other(m, u)]
    <3>4. next \in MatchRecord /\ next.players = match[m].players /\ next.status = match[m].status
          BY <3>1, <3>3 DEF MatchRecord
    <3>5. match' = [match EXCEPT ![m] = next]
          BY <2>2, <1>t DEF Online!OnlineMove, OnlineTypes, MatchTypes
    <3> HIDE DEF next
    <3>6. MatchTypes'
          BY <3>1, <3>4, <3>5, <1>1, <1>t DEF OnlineTypes, MatchTypes, Online!Numbers
    <3>7. \A k \in Online!Numbers : match'[k].players = match[k].players /\ match'[k].status = match[k].status
          BY <3>4, <3>5, <1>t DEF OnlineTypes, MatchTypes
    <3>8. QED BY <3>6, <3>7 DEF Online!Live, Online!Numbers
  <2>3. QED BY <2>1, <2>2
<1>5. Beside
      BY <1>1, <1>3, <1>4 DEF Beside
<1>6. QED BY <1>1, <1>2, <1>4, <1>5, <1>t, BesideKeeps

LEMMA LeavesKeep ==
    ASSUME OnlineInv, NEW u \in Gamers, NEW m \in Online!Numbers, Online!LeaveMatch(u, m)
    PROVE  OnlineInv'
<1>t. OnlineTypes /\ session \in [Gamers -> SessionRecord]
      BY DEF OnlineInv, OnlineTypes, SessionTypes
<1>1. /\ UNCHANGED <<searching, queue, ops, phaseOfOp, look, cand, asking, ludoQueue, seat, unpublished, outages, calls>>
      /\ leaving' = leaving \ {<<u, m>>}
      BY DEF Online!LeaveMatch, Online!opVars, Online!ludoVars
<1>2. AskTypes' /\ LudoTypes' /\ CountTypes'
      BY <1>1, <1>t DEF OnlineTypes, AskTypes, LudoTypes, CountTypes
<1>3. CASE Online!End(m) /\ UNCHANGED session
  <2>1. /\ MatchTypes'
        /\ \A v \in Gamers : Online!Live(v)' \subseteq Online!Live(v)
        /\ \A k \in Online!Numbers : match'[k].players = match[k].players
                                     /\ (match'[k].status = "IN_PROGRESS" => match[k].status = "IN_PROGRESS")
        BY <1>1, <1>3, <1>t, MatchEnds DEF OnlineTypes
  <2>2. Beside
        BY <2>1, <1>1, <1>3, SameSessions DEF Beside
  <2>3. QED BY <2>1, <2>2, <1>2, <1>3, <1>t, BesideKeeps
<1>4. CASE Online!SetGame({u}, Online!NoMatch) /\ UNCHANGED <<match, closing>>
  <2>1. session' \in [Gamers -> SessionRecord] /\ \A v \in searching : StillIdle(v)
        BY <1>4, Cleared
  <2>2. MatchTypes'
        BY <1>1, <1>4, <1>t DEF OnlineTypes, MatchTypes
  <2>3. Beside
        BY <2>1, <1>1, <1>4, SameMatches DEF Beside
  <2>4. QED BY <2>1, <2>2, <2>3, <1>2, BesideKeeps
<1>5. QED BY <1>3, <1>4 DEF Online!LeaveMatch

LEMMA ClosesKeep ==
    ASSUME OnlineInv, NEW m \in Online!Numbers, Online!ClearRoutes(m) \/ Online!SnapshotFails(m)
    PROVE  OnlineInv'
<1>t. OnlineTypes /\ session \in [Gamers -> SessionRecord]
      BY DEF OnlineInv, OnlineTypes, SessionTypes
<1>1. /\ UNCHANGED <<searching, queue, ops, phaseOfOp, look, cand, match, leaving, asking, ludoQueue, seat, unpublished, calls>>
      /\ closing' = closing \ {m}
      BY DEF Online!ClearRoutes, Online!SnapshotFails, Online!opVars, Online!ludoVars, Online!sessionVars
<1>2. MatchTypes' /\ AskTypes' /\ LudoTypes'
      BY <1>1, <1>t DEF OnlineTypes, MatchTypes, AskTypes, LudoTypes
<1>3. CountTypes'
  <2>1. CASE outages' = outages
        BY <2>1, <1>1, <1>t DEF OnlineTypes, CountTypes
  <2>2. CASE outages < MaxOutages /\ outages' = outages + 1
        BY <2>2, <1>1, <1>t, FaultsCount DEF OnlineTypes
  <2>3. QED BY <2>1, <2>2 DEF Online!ClearRoutes, Online!SnapshotFails
<1>4. session' \in [Gamers -> SessionRecord] /\ \A v \in searching : StillIdle(v)
  <2>1. CASE Online!SnapshotFails(m)
        BY <2>1, <1>t, SameSessions DEF Online!SnapshotFails, Online!sessionVars
  <2>2. CASE Online!ClearRoutes(m)
        BY <2>2, Cleared DEF Online!ClearRoutes
  <2>3. QED BY <2>1, <2>2
<1>5. Beside
      BY <1>1, <1>4, SameMatches DEF Beside
<1>6. QED BY <1>2, <1>3, <1>4, <1>5, BesideKeeps

\* Ludo seats users, tells them, and its games end.
LEMMA LudoKeeps ==
    ASSUME OnlineInv, Online!LudoPublish \/ Online!LudoOver \/ \E pair \in SUBSET Gamers : Online!LudoSeat(pair)
    PROVE  OnlineInv'
<1>t. OnlineTypes /\ searching \subseteq Gamers /\ session \in [Gamers -> SessionRecord]
      BY DEF OnlineInv, OnlineTypes, SessionTypes
<1>1. UNCHANGED <<queue, ops, phaseOfOp, look, cand, match, closing, leaving, asking, calls, outages>>
      BY DEF Online!LudoSeat, Online!LudoPublish, Online!LudoOver, Online!opVars, Online!matchVars
<1>2. MatchTypes' /\ AskTypes' /\ CountTypes'
      BY <1>1, <1>t DEF OnlineTypes, MatchTypes, AskTypes, CountTypes
<1>3. ASSUME NEW pair \in SUBSET Gamers, Online!LudoSeat(pair) PROVE OnlineInv'
  <2>1. UNCHANGED <<session, searching>> /\ LudoTypes'
        BY <1>3, <1>t DEF Online!LudoSeat, Online!sessionVars, OnlineTypes, LudoTypes
  <2>2. QED BY <2>1, <1>1, <1>2, AsidesKeep
<1>4. CASE Online!LudoPublish
  <2>1. LudoTypes' /\ searching' = searching \ unpublished
        BY <1>4, <1>t DEF Online!LudoPublish, OnlineTypes, LudoTypes
  <2>2. session' = [u \in Gamers |-> IF u \in unpublished /\ session[u].up
                                     THEN [session[u] EXCEPT !.ludo = TRUE] ELSE session[u]]
        BY <1>4 DEF Online!LudoPublish
  <2>3. \A u \in Gamers : session[u] \in SessionRecord /\ [session[u] EXCEPT !.ludo = TRUE] \in SessionRecord
        BY <1>t DEF SessionRecord
  <2>4. session' \in [Gamers -> SessionRecord] /\ \A v \in Gamers \ unpublished : session'[v] = session[v]
        BY <2>2, <2>3
  <2>5. \A v \in searching' : StillIdle(v)
        BY <2>1, <2>4, <1>t DEF StillIdle, Online!Idle, OnlineInv, SearchInv
  <2>6. Beside
        BY <2>1, <2>5, <1>1, SameMatches DEF Beside
  <2>7. QED BY <2>1, <2>4, <2>6, <1>2, BesideKeeps
<1>5. CASE Online!LudoOver
  <2>1. LudoTypes' /\ searching' = searching
        BY <1>5, <1>t DEF Online!LudoOver, OnlineTypes, LudoTypes
  <2>2. session' = [u \in Gamers |-> [session[u] EXCEPT !.ludo = FALSE]]
        BY <1>5 DEF Online!LudoOver
  <2>3. \A u \in Gamers : /\ [session[u] EXCEPT !.ludo = FALSE] \in SessionRecord
                          /\ [session[u] EXCEPT !.ludo = FALSE].up = session[u].up
                          /\ [session[u] EXCEPT !.ludo = FALSE].game = session[u].game
                          /\ [session[u] EXCEPT !.ludo = FALSE].ludo = FALSE
        BY <1>t DEF SessionRecord
  <2>4. /\ session' \in [Gamers -> SessionRecord]
        /\ \A v \in Gamers : session'[v].up = session[v].up /\ session'[v].game = session[v].game /\ session'[v].ludo = FALSE
        BY <2>2, <2>3
  <2>5. \A v \in searching' : StillIdle(v)
        BY <2>1, <2>4, <1>t DEF StillIdle, Online!Idle, OnlineInv, SearchInv
  <2>6. Beside
        BY <2>1, <2>5, <1>1, SameMatches DEF Beside
  <2>7. QED BY <2>1, <2>4, <2>6, <1>2, BesideKeeps
<1>6. QED BY <1>3, <1>4, <1>5

\* The operation that runs.
LEMMA ActorIs ==
    ASSUME OpTypes, ops # <<>> PROVE Online!Actor \in Gamers /\ Head(ops).op \in {"join", "leave", "drop"}
<1>1. Head(ops) \in OpRecord
      BY DEF OpTypes
<1>2. QED BY <1>1 DEF Online!Actor, OpRecord

LEMMA MatchesStay ==
    ASSUME MatchedOnce, match' = match PROVE MatchedOnce'
BY DEF MatchedOnce, Online!Live, Online!Numbers

\* It ends: whoever is searched for is in the queue.
LEMMA OpEnds ==
    ASSUME OpTypes, ops # <<>>, Online!EndOp, SessionTypes', IsQueue(queue'), MatchTypes', AskTypes', LudoTypes', CountTypes',
           MatchedOnce', \A u \in searching' : session'[u].up /\ Online!Contains(queue', u)
    PROVE  OnlineInv'
<1>1. /\ ops' = Tail(ops) /\ phaseOfOp' = "begin" /\ look' = Online!NoMatch /\ cand' = Nobody
      BY DEF Online!EndOp
<1>2. ops' \in Seq(OpRecord) /\ Len(ops') <= MaxOps
  <2>1. ops \in Seq(OpRecord) /\ Len(ops) <= MaxOps /\ Len(ops) \in Nat /\ MaxOps \in Nat
        BY OnlineBounds DEF OpTypes
  <2>2. Tail(ops) \in Seq(OpRecord) /\ Len(Tail(ops)) = Len(ops) - 1
        BY <2>1
  <2>3. QED BY <1>1, <2>1, <2>2
<1>3. OpTypes'
      BY <1>1, <1>2 DEF OpTypes, Online!Phases
<1>4. OnlineTypes'
      BY <1>3 DEF OnlineTypes, IsQueue
<1>5. PhaseInv' /\ ActorAlone' /\ CandAlone'
      BY <1>1 DEF PhaseInv, ActorAlone, CandAlone, Pairing
<1>6. SearchInv'
      BY <1>1 DEF SearchInv, Pairing
<1>7. QED BY <1>4, <1>5, <1>6 DEF OnlineInv

\* It goes on to another phase.
LEMMA OpGoes ==
    ASSUME OpTypes, ops # <<>>, NEW p \in Online!Phases, NEW m \in Online!Numbers \cup {Online!NoMatch},
           NEW c \in Gamers \cup {Nobody}, Online!Goto(p, m, c)
    PROVE  /\ OpTypes' /\ ops' = ops /\ phaseOfOp' = p /\ look' = m /\ cand' = c
           /\ Online!Actor' = Online!Actor
BY DEF OpTypes, Online!Goto, Online!Actor

LEMMA SendsExisting ==
    ASSUME SessionTypes, NEW v \in Gamers, NEW m \in Online!Numbers \cup {Online!NoMatch},
           Online!SendExisting(v, m) \/ UNCHANGED session
    PROVE  /\ session' \in [Gamers -> SessionRecord]
           /\ \A u \in Gamers : session'[u].up = session[u].up
           /\ \A u \in Gamers \ {v} : Online!Idle(u)' <=> Online!Idle(u)
<1>1. CASE UNCHANGED session
      BY <1>1 DEF SessionTypes, Online!Idle
<1>2. CASE Online!SetGame({v}, m)
  <2>1. /\ session' \in [Gamers -> SessionRecord]
        /\ \A u \in Gamers : /\ session'[u].up = session[u].up
                             /\ session'[u].ludo = session[u].ludo
                             /\ session'[u].game = IF u \in {v} /\ session[u].up THEN m ELSE session[u].game
        BY <1>2, SetsGame
  <2>2. QED BY <2>1 DEF Online!Idle
<1>3. QED BY <1>1, <1>2 DEF Online!SendExisting

\* The table is read for the user who joins or leaves.
LEMMA LooksKeep ==
    ASSUME OnlineInv, Online!JoinLook \/ Online!LeaveLook PROVE OnlineInv'
<1>t. OnlineTypes /\ OpTypes /\ IsQueue(queue) /\ SessionTypes /\ MatchedOnce
      BY DEF OnlineInv, OnlineTypes
<1>0. /\ ops # <<>> /\ Head(ops).op \in {"join", "leave"} /\ phaseOfOp = "begin"
      /\ UNCHANGED <<session, match, closing, leaving, asking, ludoQueue, seat, unpublished, outages, calls>>
      /\ Online!Goto("looked", Online!ActiveOf(Online!Actor), Nobody)
      BY DEF Online!JoinLook, Online!LeaveLook, Online!Running, Online!sessionVars, Online!matchVars, Online!ludoVars
<1>1. Online!Actor \in Gamers
      BY <1>0, <1>t, ActorIs
<1>2. /\ Online!ActiveOf(Online!Actor) \in Online!Numbers \cup {Online!NoMatch}
      /\ Online!ActiveOf(Online!Actor) = Online!NoMatch <=> Online!Live(Online!Actor) = {}
      BY <1>1, <1>t, NewestIs
<1>3. /\ OpTypes' /\ ops' = ops /\ phaseOfOp' = "looked" /\ look' = Online!ActiveOf(Online!Actor) /\ cand' = Nobody
      /\ Online!Actor' = Online!Actor
      BY <1>0, <1>2, <1>t, OpGoes DEF Online!Phases
<1>4. /\ IsQueue(queue') /\ searching' \subseteq searching
      /\ \A u \in searching' : Online!Contains(queue', u)
  <2>1. \A u \in searching : Online!Contains(queue, u)
        BY <1>0 DEF OnlineInv, SearchInv, Pairing
  <2>2. CASE Online!JoinLook
        BY <2>1, <2>2, <1>t DEF Online!JoinLook, Online!sessionVars
  <2>3. CASE Online!LeaveLook
    <3>1. queue' = Online!Without(queue, Online!Actor) /\ searching' = searching \ {Online!Actor}
          BY <2>3 DEF Online!LeaveLook, Online!Told
    <3>2. QED BY <3>1, <2>1, <1>t, LeavesQueue
  <2>4. QED BY <2>2, <2>3
<1>5. MatchTypes' /\ AskTypes' /\ LudoTypes' /\ CountTypes' /\ SessionTypes'
      BY <1>0, <1>4, <1>t DEF OnlineTypes, MatchTypes, AskTypes, LudoTypes, CountTypes, SessionTypes
<1>6. OnlineTypes'
      BY <1>3, <1>4, <1>5 DEF OnlineTypes, IsQueue
<1>7. MatchedOnce'
      BY <1>0, <1>t, MatchesStay
<1>8. PhaseInv' /\ CandAlone'
      BY <1>0, <1>3 DEF PhaseInv, CandAlone, Pairing
<1>9. ActorAlone'
      BY <1>0, <1>1, <1>2, <1>3, SameMatches DEF ActorAlone
<1>10. SearchInv'
      BY <1>0, <1>3, <1>4 DEF SearchInv, Pairing, OnlineInv
<1>11. QED BY <1>6, <1>7, <1>8, <1>9, <1>10 DEF OnlineInv

\* The operation ends before it has looked at the queue.
LEMMA EarlyEndsKeep ==
    ASSUME OnlineInv, Online!JoinFound \/ Online!JoinRefused \/ Online!LeaveDone \/ Online!Drop PROVE OnlineInv'
<1>t. /\ OnlineTypes /\ OpTypes /\ IsQueue(queue) /\ SessionTypes /\ MatchedOnce /\ searching \subseteq Gamers
      /\ session \in [Gamers -> SessionRecord]
      BY DEF OnlineInv, OnlineTypes, SessionTypes
<1>0. /\ ops # <<>> /\ phaseOfOp \notin Pairing
      /\ UNCHANGED <<match, closing, asking, ludoQueue, seat, unpublished, outages, calls>>
      /\ Online!EndOp
      BY DEF Online!JoinFound, Online!JoinRefused, Online!LeaveDone, Online!Drop, Online!Running, Online!matchVars,
         Online!ludoVars, OnlineInv, PhaseInv, Pairing
<1>1. Online!Actor \in Gamers
      BY <1>0, <1>t, ActorIs
<1>2. /\ MatchedOnce' /\ AskTypes' /\ LudoTypes' /\ CountTypes'
      BY <1>0, <1>t, MatchesStay DEF OnlineTypes, AskTypes, LudoTypes, CountTypes
<1>3. \A u \in searching : session[u].up /\ Online!Contains(queue, u)
      BY <1>0 DEF OnlineInv, SearchInv
<1>4. CASE Online!JoinFound
  <2>1. /\ queue' = Online!Without(queue, Online!Actor) /\ searching' = searching \ {Online!Actor}
        /\ leaving' = leaving /\ Online!SendExisting(Online!Actor, look)
        BY <1>4 DEF Online!JoinFound, Online!Told, Online!matchVars
  <2>2. session' \in [Gamers -> SessionRecord] /\ \A u \in Gamers : session'[u].up = session[u].up
        BY <2>1, <1>1, <1>t, SendsExisting DEF OpTypes
  <2>3. IsQueue(queue') /\ \A y : Online!Contains(queue', y) <=> y # Online!Actor /\ Online!Contains(queue, y)
        BY <2>1, <1>t, LeavesQueue
  <2>4. SessionTypes' /\ MatchTypes'
        BY <2>1, <2>2, <1>0, <1>t DEF SessionTypes, OnlineTypes, MatchTypes
  <2>5. QED BY <2>1, <2>2, <2>3, <2>4, <1>0, <1>2, <1>3, <1>t, OpEnds
<1>5. CASE Online!JoinRefused \/ Online!LeaveDone
  <2>1. UNCHANGED <<session, searching, queue>> /\ leaving' \in {leaving, leaving \cup {<<Online!Actor, look>>}}
        BY <1>5 DEF Online!JoinRefused, Online!LeaveDone, Online!sessionVars, Online!matchVars
  <2>2. leaving' = leaving \/ look \in Online!Numbers
        BY <1>5, <1>t DEF Online!JoinRefused, Online!LeaveDone, Online!matchVars, OpTypes
  <2>3. SessionTypes' /\ MatchTypes'
        BY <2>1, <2>2, <1>0, <1>1, <1>t DEF SessionTypes, OnlineTypes, MatchTypes
  <2>4. QED BY <2>1, <2>3, <1>0, <1>2, <1>3, <1>t, OpEnds
<1>6. CASE Online!Drop
  <2>1. /\ UNCHANGED <<session, searching, leaving>>
        /\ queue' = IF session[Online!Actor].up THEN queue ELSE Online!Without(queue, Online!Actor)
        BY <1>6 DEF Online!Drop, Online!sessionVars, Online!matchVars
  <2>2. IsQueue(queue') /\ \A u \in searching : Online!Contains(queue', u)
        BY <2>1, <1>3, <1>t, LeavesQueue
  <2>3. SessionTypes' /\ MatchTypes'
        BY <2>1, <1>0, <1>t DEF SessionTypes, OnlineTypes, MatchTypes
  <2>4. QED BY <2>1, <2>2, <2>3, <1>0, <1>2, <1>3, <1>t, OpEnds
<1>7. QED BY <1>4, <1>5, <1>6

\* A candidate is taken out of the queue and looked at next.
LEMMA CandidateTaken ==
    ASSUME OpTypes, ops # <<>>, Head(ops).op = "join", NEW q, IsQueue(q), Online!Candidates(q) # {},
           LET i == CHOOSE i \in Online!Candidates(q) : \A j \in Online!Candidates(q) : i <= j
           IN  queue' = Online!RemoveAt(q, i) /\ Online!Goto("cand", Online!NoMatch, q[i]),
           match' = match, Online!Live(Online!Actor) = {}
    PROVE  /\ OpTypes' /\ IsQueue(queue') /\ PhaseInv' /\ ActorAlone' /\ CandAlone'
           /\ phaseOfOp' = "cand" /\ Online!Actor' = Online!Actor /\ cand' # Online!Actor
           /\ \A u : Online!Contains(q, u) => Online!Contains(queue', u) \/ u = cand'
<1> DEFINE k == CHOOSE i \in Online!Candidates(q) : \A j \in Online!Candidates(q) : i <= j
<1>1. k \in DOMAIN q /\ q[k] # Online!Actor
      BY FirstCandidate
<1>2. queue' = Online!RemoveAt(q, k) /\ Online!Goto("cand", Online!NoMatch, q[k])
      OBVIOUS
<1> HIDE DEF k
<1>3. /\ q[k] \in Gamers /\ IsQueue(queue')
      /\ \A y : Online!Contains(queue', y) <=> y # q[k] /\ Online!Contains(q, y)
  <2>1. /\ q[k] \in Gamers /\ IsQueue(Online!RemoveAt(q, k))
        /\ \A y : Online!Contains(Online!RemoveAt(q, k), y) <=> y # q[k] /\ Online!Contains(q, y)
        BY <1>1, TakenOut
  <2>2. queue' = Online!RemoveAt(q, k)
        BY <1>2
  <2>3. QED BY <2>1, <2>2, Zenon
<1>4. /\ OpTypes' /\ ops' = ops /\ phaseOfOp' = "cand" /\ look' = Online!NoMatch /\ cand' = q[k]
      /\ Online!Actor' = Online!Actor
      BY <1>2, <1>3, OpGoes DEF Online!Phases
<1>5. PhaseInv'
      BY <1>1, <1>3, <1>4 DEF PhaseInv, Pairing
<1>6. ActorAlone' /\ CandAlone'
  <2>1. \A u \in Gamers : Online!Live(u)' = Online!Live(u)
        BY SameMatches
  <2>2. QED BY <1>4, <2>1, ActorIs DEF ActorAlone, CandAlone
<1>7. QED BY <1>1, <1>3, <1>4, <1>5, <1>6

LEMMA ScanKeeps ==
    ASSUME OnlineInv, Online!JoinScan PROVE OnlineInv'
<1>t. /\ OnlineTypes /\ OpTypes /\ IsQueue(queue) /\ SessionTypes /\ MatchedOnce /\ searching \subseteq Gamers
      BY DEF OnlineInv, OnlineTypes, SessionTypes
<1>0. /\ ops # <<>> /\ Head(ops).op = "join" /\ phaseOfOp = "looked" /\ look = Online!NoMatch
      /\ UNCHANGED <<session, match, closing, leaving, asking, ludoQueue, seat, unpublished, outages, calls>>
      /\ Online!Idle(Online!Actor)
      /\ Online!Scan(Online!Without(queue, Online!Actor))
      BY DEF Online!JoinScan, Online!Running, Online!matchVars, Online!ludoVars
<1>1. Online!Actor \in Gamers /\ session[Online!Actor].up
      BY <1>0, <1>t, ActorIs DEF Online!Idle
<1>2. MatchedOnce' /\ MatchTypes' /\ AskTypes' /\ LudoTypes' /\ CountTypes'
      BY <1>0, <1>t, MatchesStay DEF OnlineTypes, MatchTypes, AskTypes, LudoTypes, CountTypes
<1>3. \A u \in searching : session[u].up /\ Online!Contains(queue, u)
      BY <1>0 DEF OnlineInv, SearchInv, Pairing
<1> DEFINE w == Online!Without(queue, Online!Actor)
<1>4. IsQueue(w) /\ \A y : Online!Contains(w, y) <=> y # Online!Actor /\ Online!Contains(queue, y)
      BY <1>t, LeavesQueue
<1>5. Online!Live(Online!Actor) = {}
      BY <1>0 DEF OnlineInv, ActorAlone
<1> HIDE DEF w
<1>6. CASE Online!Candidates(w) = {}
  <2>1. /\ queue' = Append(Online!Without(w, Online!Actor), Online!Actor)
        /\ searching' = searching \cup {Online!Actor} /\ Online!EndOp
        BY <1>0, <1>1, <1>6 DEF Online!Scan, w
  <2>2. IsQueue(queue') /\ \A y : Online!Contains(queue', y) <=> y = Online!Actor \/ Online!Contains(w, y)
        BY <2>1, <1>1, <1>4, JoinsQueue
  <2>3. SessionTypes'
        BY <2>1, <1>0, <1>1, <1>t DEF SessionTypes
  <2>4. \A u \in searching' : session'[u].up /\ Online!Contains(queue', u)
        BY <2>1, <2>2, <1>0, <1>1, <1>3, <1>4
  <2>5. QED BY <2>1, <2>2, <2>3, <2>4, <1>0, <1>2, <1>t, OpEnds
<1>7. CASE Online!Candidates(w) # {}
  <2>1. /\ LET i == CHOOSE i \in Online!Candidates(w) : \A j \in Online!Candidates(w) : i <= j
           IN  queue' = Online!RemoveAt(w, i) /\ Online!Goto("cand", Online!NoMatch, w[i])
        /\ searching' = searching
        BY <1>0, <1>7 DEF Online!Scan, w
  <2>2. /\ OpTypes' /\ IsQueue(queue') /\ PhaseInv' /\ ActorAlone' /\ CandAlone'
        /\ phaseOfOp' = "cand" /\ Online!Actor' = Online!Actor /\ cand' # Online!Actor
        /\ \A u : Online!Contains(w, u) => Online!Contains(queue', u) \/ u = cand'
        BY <2>1, <1>0, <1>4, <1>5, <1>7, <1>t, CandidateTaken
  <2>3. OnlineTypes'
        BY <2>1, <2>2, <1>0, <1>2, <1>t DEF OnlineTypes, SessionTypes, IsQueue
  <2>4. SearchInv'
    <3>1. \A u \in searching : Online!Contains(queue', u) \/ u \in {cand', Online!Actor}
          BY <2>2, <1>3, <1>4
    <3>2. \A u \in searching : u = Online!Actor => Online!Idle(u)'
          BY <1>0 DEF Online!Idle
    <3>3. QED BY <3>1, <3>2, <2>1, <2>2, <1>0, <1>3 DEF SearchInv, Pairing
  <2>5. QED BY <2>2, <2>3, <2>4, <1>2 DEF OnlineInv
<1>8. QED BY <1>6, <1>7

LEMMA CandLookKeeps ==
    ASSUME OnlineInv, Online!CandLook PROVE OnlineInv'
<1>t. /\ OnlineTypes /\ OpTypes /\ IsQueue(queue) /\ SessionTypes /\ MatchedOnce
      BY DEF OnlineInv, OnlineTypes
<1>0. /\ ops # <<>> /\ Head(ops).op = "join" /\ phaseOfOp = "cand" /\ cand \in Gamers /\ cand # Online!Actor
      /\ UNCHANGED <<session, searching, queue, match, closing, leaving, asking, ludoQueue, seat, unpublished, outages, calls>>
      /\ Online!Goto("candLooked", Online!ActiveOf(cand), cand)
      BY DEF Online!CandLook, Online!Running, Online!sessionVars, Online!matchVars, Online!ludoVars, OnlineInv, PhaseInv, Pairing
<1>1. Online!Actor \in Gamers
      BY <1>0, <1>t, ActorIs
<1>2. MatchedOnce' /\ MatchTypes' /\ AskTypes' /\ LudoTypes' /\ CountTypes' /\ SessionTypes'
      BY <1>0, <1>t, MatchesStay DEF OnlineTypes, MatchTypes, AskTypes, LudoTypes, CountTypes, SessionTypes
<1>3. /\ Online!ActiveOf(cand) \in Online!Numbers \cup {Online!NoMatch}
      /\ Online!ActiveOf(cand) = Online!NoMatch <=> Online!Live(cand) = {}
      BY <1>0, <1>t, NewestIs
<1>4. /\ OpTypes' /\ ops' = ops /\ phaseOfOp' = "candLooked" /\ look' = Online!ActiveOf(cand) /\ cand' = cand
      /\ Online!Actor' = Online!Actor
      BY <1>0, <1>3, <1>t, OpGoes DEF Online!Phases
<1>5. OnlineTypes'
      BY <1>0, <1>2, <1>4, <1>t DEF OnlineTypes, IsQueue
<1>6. PhaseInv'
      BY <1>0, <1>4 DEF PhaseInv, Pairing
<1>7. ActorAlone' /\ CandAlone'
  <2>1. \A u \in Gamers : Online!Live(u)' = Online!Live(u)
        BY <1>0, SameMatches
  <2>2. Online!Live(Online!Actor) = {}
        BY <1>0 DEF OnlineInv, ActorAlone
  <2>3. QED BY <2>1, <2>2, <1>0, <1>1, <1>3, <1>4 DEF ActorAlone, CandAlone
<1>8. SearchInv'
  <2>1. \A u : Online!Idle(u)' <=> Online!Idle(u)
        BY <1>0 DEF Online!Idle
  <2>2. QED BY <2>1, <1>0, <1>4 DEF OnlineInv, SearchInv, Pairing
<1>9. QED BY <1>2, <1>5, <1>6, <1>7, <1>8 DEF OnlineInv

\* What the steps of a join past the search for the user's own match have in common.
LEMMA PairingIs ==
    ASSUME OnlineInv, phaseOfOp \in Pairing
    PROVE  /\ ops # <<>> /\ Head(ops).op = "join" /\ Online!Actor \in Gamers /\ cand \in Gamers /\ cand # Online!Actor
           /\ \A u \in searching : session[u].up /\ (Online!Contains(queue, u) \/ u \in {cand, Online!Actor})
<1>1. ops # <<>> /\ Head(ops).op = "join" /\ cand \in Gamers /\ cand # Online!Actor
      BY DEF OnlineInv, PhaseInv, Pairing
<1>2. Online!Actor \in Gamers
      BY <1>1, ActorIs DEF OnlineInv, OnlineTypes
<1>3. QED BY <1>1, <1>2 DEF OnlineInv, SearchInv

LEMMA PassedKeeps ==
    ASSUME OnlineInv, Online!CandPassed PROVE OnlineInv'
<1>t. /\ OnlineTypes /\ OpTypes /\ IsQueue(queue) /\ SessionTypes /\ MatchedOnce /\ searching \subseteq Gamers
      /\ look \in Online!Numbers \cup {Online!NoMatch}
      BY DEF OnlineInv, OnlineTypes, SessionTypes, OpTypes
<1>0. /\ phaseOfOp = "candLooked" /\ phaseOfOp \in Pairing
      /\ UNCHANGED <<match, closing, leaving, asking, ludoQueue, seat, unpublished, outages, calls>>
      /\ Online!SendExisting(cand, look) \/ UNCHANGED session
      BY DEF Online!CandPassed, Online!matchVars, Online!ludoVars, Pairing
<1>1. /\ ops # <<>> /\ Head(ops).op = "join" /\ Online!Actor \in Gamers /\ cand \in Gamers /\ cand # Online!Actor
      /\ \A u \in searching : session[u].up /\ (Online!Contains(queue, u) \/ u \in {cand, Online!Actor})
      BY <1>0, PairingIs
<1>2. MatchedOnce' /\ MatchTypes' /\ AskTypes' /\ LudoTypes' /\ CountTypes'
      BY <1>0, <1>t, MatchesStay DEF OnlineTypes, MatchTypes, AskTypes, LudoTypes, CountTypes
<1>3. /\ session' \in [Gamers -> SessionRecord]
      /\ \A u \in Gamers : session'[u].up = session[u].up
      /\ \A u \in Gamers \ {cand} : Online!Idle(u)' <=> Online!Idle(u)
      BY <1>0, <1>1, <1>t, SendsExisting
<1>4. CASE Online!Candidates(queue) = {}
  <2>1. /\ queue' = Append(Online!Without(queue, Online!Actor), Online!Actor) /\ Online!EndOp
        /\ searching' = (searching \ {cand}) \cup (IF session[Online!Actor].up THEN {Online!Actor} ELSE {})
        BY <1>4 DEF Online!CandPassed
  <2>2. IsQueue(queue') /\ \A y : Online!Contains(queue', y) <=> y = Online!Actor \/ Online!Contains(queue, y)
        BY <2>1, <1>1, <1>t, JoinsQueue
  <2>3. SessionTypes'
        BY <2>1, <1>1, <1>3, <1>t DEF SessionTypes
  <2>4. \A u \in searching' : session'[u].up /\ Online!Contains(queue', u)
    <3>1. ASSUME NEW u \in searching' PROVE session'[u].up /\ Online!Contains(queue', u)
      <4>1. CASE u \in searching /\ u # cand
            BY <4>1, <2>2, <1>1, <1>3, <1>t
      <4>2. CASE u = Online!Actor /\ session[Online!Actor].up
            BY <4>2, <2>2, <1>1, <1>3
      <4>3. QED BY <2>1, <4>1, <4>2
    <3>2. QED BY <3>1
  <2>5. QED BY <2>1, <2>2, <2>3, <2>4, <1>1, <1>2, <1>t, OpEnds
<1>5. CASE Online!Candidates(queue) # {}
  <2>1. /\ LET i == CHOOSE i \in Online!Candidates(queue) : \A j \in Online!Candidates(queue) : i <= j
           IN  queue' = Online!RemoveAt(queue, i) /\ Online!Goto("cand", Online!NoMatch, queue[i])
        /\ searching' = searching \ {cand}
        BY <1>5 DEF Online!CandPassed, Online!Told
  <2>2. Online!Live(Online!Actor) = {}
        BY <1>0 DEF OnlineInv, ActorAlone
  <2>3. /\ OpTypes' /\ IsQueue(queue') /\ PhaseInv' /\ ActorAlone' /\ CandAlone'
        /\ phaseOfOp' = "cand" /\ Online!Actor' = Online!Actor /\ cand' # Online!Actor
        /\ \A u : Online!Contains(queue, u) => Online!Contains(queue', u) \/ u = cand'
        BY <2>1, <2>2, <1>0, <1>1, <1>5, <1>t, CandidateTaken
  <2>4. OnlineTypes'
        BY <2>1, <2>3, <1>2, <1>3, <1>t DEF OnlineTypes, SessionTypes, IsQueue
  <2>5. SearchInv'
    <3>1. \A u \in searching' : session'[u].up /\ (Online!Contains(queue', u) \/ u \in {cand', Online!Actor})
          BY <2>1, <2>3, <1>1, <1>3, <1>t
    <3>2. \A u \in searching' : u = Online!Actor => Online!Idle(u)'
          BY <2>1, <1>0, <1>1, <1>3, <1>t DEF OnlineInv, SearchInv
    <3>3. QED BY <3>1, <3>2, <2>3 DEF SearchInv, Pairing
  <2>6. QED BY <2>3, <2>4, <2>5, <1>2 DEF OnlineInv
<1>6. QED BY <1>4, <1>5

LEMMA TakenKeeps ==
    ASSUME OnlineInv, Online!CandTaken PROVE OnlineInv'
<1>t. /\ OnlineTypes /\ OpTypes /\ IsQueue(queue) /\ SessionTypes /\ MatchedOnce /\ searching \subseteq Gamers
      BY DEF OnlineInv, OnlineTypes, SessionTypes
<1>0. /\ phaseOfOp = "candLooked" /\ phaseOfOp \in Pairing /\ look = Online!NoMatch /\ Online!Idle(cand)
      /\ UNCHANGED <<session, searching, match, closing, leaving, asking, ludoQueue, seat, unpublished, outages, calls>>
      BY DEF Online!CandTaken, Online!CandFree, Online!sessionVars, Online!matchVars, Online!ludoVars, Pairing
<1>1. /\ ops # <<>> /\ Head(ops).op = "join" /\ Online!Actor \in Gamers /\ cand \in Gamers /\ cand # Online!Actor
      /\ \A u \in searching : session[u].up /\ (Online!Contains(queue, u) \/ u \in {cand, Online!Actor})
      BY <1>0, PairingIs
<1>2. MatchedOnce' /\ MatchTypes' /\ AskTypes' /\ LudoTypes' /\ CountTypes' /\ SessionTypes'
      BY <1>0, <1>t, MatchesStay DEF OnlineTypes, MatchTypes, AskTypes, LudoTypes, CountTypes, SessionTypes
<1>3. CASE Online!Idle(Online!Actor)
  <2>1. Online!Goto("create", Online!NoMatch, cand) /\ queue' = queue
        BY <1>3 DEF Online!CandTaken
  <2>2. /\ OpTypes' /\ ops' = ops /\ phaseOfOp' = "create" /\ look' = Online!NoMatch /\ cand' = cand
        /\ Online!Actor' = Online!Actor
        BY <2>1, <1>1, <1>t, OpGoes DEF Online!Phases
  <2>3. OnlineTypes'
        BY <2>1, <2>2, <1>2, <1>t DEF OnlineTypes, IsQueue
  <2>4. PhaseInv'
        BY <2>2, <1>1 DEF PhaseInv, Pairing
  <2>5. ActorAlone' /\ CandAlone'
    <3>1. \A u \in Gamers : Online!Live(u)' = Online!Live(u)
          BY <1>0, SameMatches
    <3>2. Online!Live(Online!Actor) = {} /\ Online!Live(cand) = {}
          BY <1>0 DEF OnlineInv, ActorAlone, CandAlone
    <3>3. QED BY <3>1, <3>2, <2>2, <1>1 DEF ActorAlone, CandAlone
  <2>6. SearchInv'
    <3>1. \A u : Online!Idle(u)' <=> Online!Idle(u)
          BY <1>0 DEF Online!Idle
    <3>2. \A u \in searching : (u = Online!Actor => Online!Idle(u)') /\ (u = cand => Online!Idle(u)')
          BY <3>1, <1>0, <1>3
    <3>3. QED BY <3>2, <2>1, <2>2, <1>0, <1>1 DEF SearchInv, Pairing
  <2>7. QED BY <2>3, <2>4, <2>5, <2>6, <1>2 DEF OnlineInv
<1>4. CASE ~Online!Idle(Online!Actor)
  <2>1. queue' = <<cand>> \o Online!Without(queue, cand) /\ Online!EndOp
        BY <1>4 DEF Online!CandTaken
  <2>2. IsQueue(queue') /\ \A y : Online!Contains(queue', y) <=> y = cand \/ Online!Contains(queue, y)
        BY <2>1, <1>1, <1>t, PutInFront
  <2>3. Online!Actor \notin searching
        BY <1>0, <1>4 DEF OnlineInv, SearchInv
  <2>4. \A u \in searching' : session'[u].up /\ Online!Contains(queue', u)
        BY <2>2, <2>3, <1>0, <1>1
  <2>5. QED BY <2>1, <2>2, <2>4, <1>1, <1>2, <1>t, OpEnds
<1>5. QED BY <1>3, <1>4

\* A row is written for two users without a match.
LEMMA Inserted ==
    ASSUME MatchTypes, MatchedOnce, Online!Actor \in Gamers, cand \in Gamers, cand # Online!Actor,
           Online!Live(Online!Actor) = {}, Online!Live(cand) = {},
           NEW first \in {Online!Actor, cand}, Online!Insert(first), UNCHANGED <<closing, leaving>>
    PROVE  MatchTypes' /\ MatchedOnce' /\ Online!NewMatch \in Online!Numbers
<1> DEFINE n == Online!NewMatch
           new == [players |-> {Online!Actor, cand}, turn |-> first, status |-> "IN_PROGRESS"]
<1>1. n \in Online!Numbers /\ match' = [match EXCEPT ![n] = new]
      BY DEF Online!Insert
<1>2. new \in MatchRecord /\ new.players = {Online!Actor, cand} /\ new.status = "IN_PROGRESS"
      BY DEF MatchRecord
<1> HIDE DEF n, new
<1>3. MatchTypes'
      BY <1>1, <1>2 DEF MatchTypes, Online!Numbers
<1>4. \A m \in Online!Numbers : match'[m] = IF m = n THEN new ELSE match[m]
      BY <1>1 DEF MatchTypes
<1>5. ASSUME NEW u \in Gamers PROVE \A j, k \in Online!Live(u)' : j = k
  <2>1. CASE u \in {Online!Actor, cand}
    <3>1. Online!Live(u) = {}
          BY <2>1
    <3>2. \A m \in Online!Numbers : m # n => ~(match'[m].status = "IN_PROGRESS" /\ u \in match'[m].players)
          BY <3>1, <1>4 DEF Online!Live
    <3>3. \A m \in Online!Live(u)' : m = n
          BY <3>2 DEF Online!Live, Online!Numbers
    <3>4. QED BY <3>3
  <2>2. CASE u \notin {Online!Actor, cand}
    <3>1. Online!Live(u)' \subseteq Online!Live(u)
          BY <2>2, <1>2, <1>4 DEF Online!Live, Online!Numbers
    <3>2. QED BY <3>1 DEF MatchedOnce
  <2>3. QED BY <2>1, <2>2
<1>6. ASSUME NEW m \in Online!Numbers, match'[m].status = "IN_PROGRESS", NEW u \in Gamers
      PROVE  \E v \in match'[m].players : v # u
  <2>1. CASE m = n
        BY <2>1, <1>2, <1>4
  <2>2. CASE m # n
        BY <2>2, <1>4, <1>6 DEF MatchedOnce
  <2>3. QED BY <2>1, <2>2
<1>7. MatchedOnce'
      BY <1>5, <1>6 DEF MatchedOnce, Online!Numbers
<1>8. QED BY <1>1, <1>3, <1>7 DEF n

LEMMA CreatesKeep ==
    ASSUME OnlineInv, Online!Create \/ Online!CreateFails PROVE OnlineInv'
<1>t. /\ OnlineTypes /\ OpTypes /\ IsQueue(queue) /\ SessionTypes /\ MatchedOnce /\ MatchTypes /\ searching \subseteq Gamers
      BY DEF OnlineInv, OnlineTypes, SessionTypes
<1>0. /\ phaseOfOp = "create" /\ phaseOfOp \in Pairing
      /\ UNCHANGED <<session, searching, closing, leaving, asking, ludoQueue, seat, unpublished, calls>>
      BY DEF Online!Create, Online!CreateFails, Online!sessionVars, Online!ludoVars, Pairing
<1>1. /\ ops # <<>> /\ Head(ops).op = "join" /\ Online!Actor \in Gamers /\ cand \in Gamers /\ cand # Online!Actor
      /\ \A u \in searching : session[u].up /\ (Online!Contains(queue, u) \/ u \in {cand, Online!Actor})
      BY <1>0, PairingIs
<1>2. Online!Live(Online!Actor) = {} /\ Online!Live(cand) = {}
      BY <1>0 DEF OnlineInv, ActorAlone, CandAlone
<1>3. AskTypes' /\ LudoTypes' /\ SessionTypes'
      BY <1>0, <1>t DEF OnlineTypes, AskTypes, LudoTypes, SessionTypes
<1>4. CASE Online!Create
  <2>1. PICK first \in {Online!Actor, cand} : Online!Insert(first)
        BY <1>4 DEF Online!Create
  <2>2. MatchTypes' /\ MatchedOnce' /\ Online!NewMatch \in Online!Numbers
        BY <2>1, <1>0, <1>1, <1>2, <1>t, Inserted
  <2>3. Online!Goto("publish", Online!NewMatch, cand) /\ queue' = queue /\ outages' = outages
        BY <1>4 DEF Online!Create
  <2>4. /\ OpTypes' /\ ops' = ops /\ phaseOfOp' = "publish" /\ cand' = cand /\ Online!Actor' = Online!Actor
        BY <2>2, <2>3, <1>1, <1>t, OpGoes DEF Online!Phases
  <2>5. OnlineTypes'
        BY <2>2, <2>3, <2>4, <1>0, <1>3, <1>t DEF OnlineTypes, CountTypes, IsQueue
  <2>6. PhaseInv' /\ ActorAlone' /\ CandAlone'
        BY <2>4, <1>1 DEF PhaseInv, ActorAlone, CandAlone, Pairing
  <2>7. SearchInv'
        BY <2>3, <2>4, <1>0, <1>1 DEF SearchInv, Pairing
  <2>8. QED BY <2>2, <2>5, <2>6, <2>7 DEF OnlineInv
<1>5. CASE Online!CreateFails
  <2>1. /\ match' = match \/ Online!Insert(Online!Actor)
        /\ queue' = Online!Requeued(queue) /\ Online!EndOp /\ outages < MaxOutages /\ outages' = outages + 1
        BY <1>5 DEF Online!CreateFails
  <2>2. MatchTypes' /\ MatchedOnce'
    <3>1. CASE match' = match
          BY <3>1, <1>0, <1>t, MatchesStay DEF MatchTypes
    <3>2. CASE Online!Insert(Online!Actor)
          BY <3>2, <1>0, <1>1, <1>2, <1>t, Inserted
    <3>3. QED BY <2>1, <3>1, <3>2
  <2>3. CountTypes'
        BY <2>1, <1>0, <1>t, FaultsCount DEF OnlineTypes
  <2> DEFINE front == IF Online!Idle(cand) THEN <<cand>> \o Online!Without(queue, cand) ELSE queue
  <2>4. /\ IsQueue(front) /\ \A y : Online!Contains(queue, y) => Online!Contains(front, y)
        /\ Online!Idle(cand) => Online!Contains(front, cand)
        BY <1>1, <1>t, PutInFront
  <2>5. queue' = IF Online!Idle(Online!Actor) THEN Append(Online!Without(front, Online!Actor), Online!Actor) ELSE front
        BY <2>1 DEF Online!Requeued
  <2> HIDE DEF front
  <2>6. /\ IsQueue(queue') /\ \A y : Online!Contains(front, y) => Online!Contains(queue', y)
        /\ Online!Idle(Online!Actor) => Online!Contains(queue', Online!Actor)
    <3>1. CASE Online!Idle(Online!Actor)
          BY <3>1, <2>4, <2>5, <1>1, JoinsQueue
    <3>2. CASE ~Online!Idle(Online!Actor)
          BY <3>2, <2>4, <2>5
    <3>3. QED BY <3>1, <3>2
  <2>7. \A u \in searching : (u = Online!Actor => Online!Idle(u)) /\ (u = cand => Online!Idle(u))
        BY <1>0 DEF OnlineInv, SearchInv
  <2>8. \A u \in searching' : session'[u].up /\ Online!Contains(queue', u)
        BY <2>4, <2>6, <2>7, <1>0, <1>1
  <2>9. QED BY <2>1, <2>2, <2>3, <2>6, <2>8, <1>1, <1>3, <1>t, OpEnds
<1>6. QED BY <1>4, <1>5

LEMMA PublishKeeps ==
    ASSUME OnlineInv, Online!Publish PROVE OnlineInv'
<1>t. /\ OnlineTypes /\ OpTypes /\ IsQueue(queue) /\ SessionTypes /\ MatchedOnce /\ searching \subseteq Gamers
      /\ look \in Online!Numbers \cup {Online!NoMatch}
      BY DEF OnlineInv, OnlineTypes, SessionTypes, OpTypes
<1>0. /\ phaseOfOp \in Pairing
      /\ UNCHANGED <<queue, match, closing, leaving, asking, ludoQueue, seat, unpublished, outages, calls>>
      /\ Online!SetGame({Online!Actor, cand}, look) /\ searching' = searching \ {Online!Actor, cand}
      /\ Online!EndOp
      BY DEF Online!Publish, Online!matchVars, Online!ludoVars, Pairing
<1>1. /\ ops # <<>>
      /\ \A u \in searching : session[u].up /\ (Online!Contains(queue, u) \/ u \in {cand, Online!Actor})
      BY <1>0, PairingIs
<1>2. MatchedOnce' /\ MatchTypes' /\ AskTypes' /\ LudoTypes' /\ CountTypes'
      BY <1>0, <1>t, MatchesStay DEF OnlineTypes, MatchTypes, AskTypes, LudoTypes, CountTypes
<1>3. session' \in [Gamers -> SessionRecord] /\ \A u \in Gamers : session'[u].up = session[u].up
      BY <1>0, <1>t, SetsGame
<1>4. SessionTypes' /\ IsQueue(queue')
      BY <1>0, <1>3, <1>t DEF SessionTypes
<1>5. \A u \in searching' : session'[u].up /\ Online!Contains(queue', u)
      BY <1>0, <1>1, <1>3, <1>t
<1>6. QED BY <1>0, <1>1, <1>2, <1>4, <1>5, <1>t, OpEnds

\* In the beginning, and after a restart, nobody is searched for.
LEMMA NobodySearches ==
    ASSUME session = [u \in Gamers |-> Online!Away], searching = {}, queue = <<>>, ops = <<>>,
           phaseOfOp = "begin", look = Online!NoMatch, cand = Nobody, asking = [u \in Gamers |-> Online!NotAsking],
           MatchTypes, MatchedOnce, LudoTypes, CountTypes
    PROVE  OnlineInv
<1>1. Online!Away \in SessionRecord /\ Online!NotAsking \in [match : Online!Numbers \cup {Online!NoMatch}, live : BOOLEAN]
      BY DEF Online!Away, SessionRecord, Online!NotAsking
<1>2. SessionTypes /\ AskTypes
      BY <1>1 DEF SessionTypes, AskTypes
<1>3. IsQueue(queue) /\ OpTypes
      BY OnlineBounds DEF IsQueue, Online!IsInjective, OpTypes, Online!Phases
<1>4. PhaseInv /\ ActorAlone /\ CandAlone /\ SearchInv
      BY DEF PhaseInv, ActorAlone, CandAlone, SearchInv, Pairing
<1>5. QED BY <1>2, <1>3, <1>4 DEF OnlineInv, OnlineTypes

LEMMA OnlineInitHolds == Online!Init => OnlineInv
<1> SUFFICES ASSUME Online!Init PROVE OnlineInv
    OBVIOUS
<1> DEFINE none == [players |-> {}, turn |-> Nobody, status |-> "NONE"]
<1>1. none \in MatchRecord /\ none.status # "IN_PROGRESS" /\ match = [m \in Online!Numbers |-> none]
      BY DEF MatchRecord, Online!Init
<1> HIDE DEF none
<1>2. MatchTypes /\ LudoTypes /\ CountTypes
  <2>1. closing = {} /\ leaving = {} /\ ludoQueue = {} /\ seat = {} /\ unpublished = {} /\ calls = 0 /\ outages = 0
        BY DEF Online!Init
  <2>2. MatchTypes
        BY <1>1, <2>1 DEF MatchTypes
  <2>3. LudoTypes /\ CountTypes
        BY <2>1, OnlineBounds DEF LudoTypes, CountTypes
  <2>4. QED BY <2>2, <2>3
<1>3. MatchedOnce
      BY <1>1 DEF MatchedOnce, Online!Live
<1>4. QED BY <1>2, <1>3, NobodySearches DEF Online!Init

LEMMA RestartKeeps ==
    ASSUME OnlineInv, Online!Restart PROVE OnlineInv'
<1>t. OnlineTypes /\ MatchedOnce
      BY DEF OnlineInv
<1>1. /\ session' = [u \in Gamers |-> Online!Away] /\ searching' = {} /\ queue' = <<>> /\ ops' = <<>>
      /\ phaseOfOp' = "begin" /\ look' = Online!NoMatch /\ cand' = Nobody
      /\ asking' = [u \in Gamers |-> Online!NotAsking]
      /\ closing' = {} /\ leaving' = {} /\ unpublished' = {} /\ UNCHANGED <<match, ludoQueue, seat, calls>>
      /\ outages < MaxOutages /\ outages' = outages + 1
      BY DEF Online!Restart
<1>2. MatchTypes' /\ LudoTypes' /\ MatchedOnce'
      BY <1>1, <1>t, MatchesStay DEF OnlineTypes, MatchTypes, LudoTypes
<1>3. CountTypes'
      BY <1>1, <1>t, FaultsCount DEF OnlineTypes
<1>4. Online!Away \in SessionRecord /\ Online!NotAsking \in [match : Online!Numbers \cup {Online!NoMatch}, live : BOOLEAN]
      BY DEF Online!Away, SessionRecord, Online!NotAsking
<1>5. SessionTypes' /\ AskTypes'
      BY <1>1, <1>4 DEF SessionTypes, AskTypes
<1>6. IsQueue(queue)' /\ OpTypes'
      BY <1>1, OnlineBounds DEF IsQueue, Online!IsInjective, OpTypes, Online!Phases
<1>7. PhaseInv' /\ ActorAlone' /\ CandAlone' /\ SearchInv'
      BY <1>1 DEF PhaseInv, ActorAlone, CandAlone, SearchInv, Pairing
<1>8. QED BY <1>2, <1>3, <1>5, <1>6, <1>7 DEF OnlineInv, OnlineTypes

LEMMA OnlineStep ==
    ASSUME OnlineInv, Online!Next PROVE OnlineInv'
<1>1. ASSUME NEW u \in Gamers,
             Online!Connect(u) \/ Online!ResumeLudo(u) \/ Online!Close(u) \/ Online!Request(u, "join")
             \/ Online!Request(u, "leave") \/ Online!SendState(u) \/ Online!LudoJoin(u)
      PROVE  OnlineInv'
      BY <1>1, SocketsKeep, CallsKeep, SendStateKeeps
<1>2. ASSUME NEW u \in Gamers, NEW m \in Online!Numbers,
             Online!OnlineMove(u, m) \/ Online!LastMove(u, m) \/ Online!RequestLeave(u, m)
             \/ Online!LeaveMatch(u, m) \/ Online!AskState(u, m)
      PROVE  OnlineInv'
      BY <1>2, MovesKeep, CallsKeep, LeavesKeep
<1>3. CASE \/ Online!JoinLook \/ Online!JoinFound \/ Online!JoinRefused \/ Online!JoinScan
           \/ Online!CandLook \/ Online!CandPassed \/ Online!CandTaken
           \/ Online!Create \/ Online!CreateFails \/ Online!Publish
           \/ Online!LeaveLook \/ Online!LeaveDone \/ Online!Drop
      BY <1>3, LooksKeep, EarlyEndsKeep, ScanKeeps, CandLookKeeps, PassedKeeps, TakenKeeps, CreatesKeep, PublishKeeps
<1>4. ASSUME NEW m \in Online!Numbers, Online!ClearRoutes(m) \/ Online!SnapshotFails(m) PROVE OnlineInv'
      BY <1>4, ClosesKeep
<1>5. CASE Online!Restart
      BY <1>5, RestartKeeps
<1>6. CASE Online!LudoPublish \/ Online!LudoOver \/ \E pair \in SUBSET Gamers : Online!LudoSeat(pair)
      BY <1>6, LudoKeeps
<1>7. QED BY <1>1, <1>2, <1>3, <1>4, <1>5, <1>6 DEF Online!Next

\* The other games leave the online matches alone.
LEMMA OnlineStays ==
    ASSUME OnlineInv, UNCHANGED onlineVars PROVE OnlineInv'
<1>1. Beside
      BY SameMatches, SameSessions DEF Beside, onlineVars
<1>2. session' \in [Gamers -> SessionRecord] /\ MatchTypes' /\ AskTypes' /\ LudoTypes' /\ CountTypes'
      BY DEF onlineVars, OnlineInv, OnlineTypes, SessionTypes, MatchTypes, AskTypes, LudoTypes, CountTypes
<1>3. QED BY <1>1, <1>2, BesideKeeps

-------------------------------------------------------------------------------
\* The board of Ludo.

\* The board counts its seats with a Cardinality of its own.
LEMMA SeatsAreCounted ==
    /\ IsFiniteSet(Seats) /\ Cardinality(Seats) \in Nat \ {0, 1}
    /\ Board!Cardinality(Seats) = Cardinality(Seats)
    /\ Seats = 0..Cardinality(Seats) - 1
<1>1. \A S : Board!Cardinality(S) = Cardinality(S)
      BY DEF Board!Cardinality, Cardinality
<1>2. \A S : Board!IsFiniteSet(S) <=> IsFiniteSet(S)
      BY DEF Board!IsFiniteSet, IsFiniteSet
<1>3. IsFiniteSet(Seats) /\ Cardinality(Seats) >= 2 /\ Seats = 0..Cardinality(Seats) - 1
      BY <1>1, <1>2, BoardBounds, Zenon DEF Board!BoardAssumption
<1>4. Cardinality(Seats) \in Nat
      BY <1>3, FS_CardinalityType
<1>5. QED BY <1>1, <1>3, <1>4

\* At most one seat is active, or at least two are.
LEMMA DecidedMeans ==
    ASSUME NEW stat
    PROVE  /\ Board!Active(stat) \subseteq Seats
           /\ Board!Decided(stat) => \A p, q \in Board!Active(stat) : p = q
           /\ ~Board!Decided(stat) => Board!Active(stat) # {}
<1> DEFINE A == Board!Active(stat)
<1>1. A \subseteq Seats
      BY DEF Board!Active
<1>2. Board!Cardinality(A) = Cardinality(A)
      BY DEF Board!Cardinality, Cardinality
<1>3. IsFiniteSet(A) /\ Cardinality(A) \in Nat
      BY <1>1, SeatsAreCounted, FS_Subset, FS_CardinalityType
<1> HIDE DEF A
<1>4. ASSUME Board!Decided(stat), NEW p \in A, NEW q \in A, p # q PROVE FALSE
  <2>1. {p, q} \subseteq A /\ Cardinality(A) <= 1
        BY <1>2, <1>4 DEF Board!Decided, A
  <2>2. IsFiniteSet({p}) /\ Cardinality({p}) = 1 /\ q \notin {p}
        BY <1>4, FS_Singleton
  <2>3. Cardinality({p} \cup {q}) = 2
        BY <2>2, FS_AddElement
  <2>4. {p} \cup {q} = {p, q}
        OBVIOUS
  <2>5. Cardinality({p, q}) <= Cardinality(A)
        BY <1>3, <2>1, FS_Subset
  <2>6. QED BY <1>3, <2>1, <2>3, <2>4, <2>5
<1>5. ASSUME ~Board!Decided(stat), A = {} PROVE FALSE
  <2>1. Cardinality(A) = 0
        BY <1>5, FS_EmptySet
  <2>2. QED BY <1>2, <1>5, <2>1 DEF Board!Decided, A
<1>6. QED BY <1>1, <1>4, <1>5 DEF A

LEMMA BackToSeat ==
    ASSUME NEW n \in Nat, n > 0, NEW t \in 0..n - 1
    PROVE  t % n = t /\ (t + n) % n = t
OBVIOUS

\* While somebody plays, the turn goes to somebody who plays.
LEMMA NextIsActive ==
    ASSUME NEW stat, NEW s \in Seats, Board!Active(stat) # {}
    PROVE  /\ Board!nextActiveSeat(stat, s) \in Board!Active(stat)
           /\ Board!nextActiveSeat(stat, s) \in Seats
<1> DEFINE n == Cardinality(Seats)
           A == Board!Active(stat)
           near == {k \in 1..n : Board!Ahead(s, k) \in A}
<1>1. n \in Nat /\ n > 0 /\ Seats = 0..n - 1 /\ A \subseteq Seats
      BY SeatsAreCounted, DecidedMeans
<1>2. \A k : Board!Ahead(s, k) = (s + k) % n
      BY SeatsAreCounted DEF Board!Ahead
<1>3. Board!nextActiveSeat(stat, s) = Board!Ahead(s, CHOOSE k \in near : \A j \in near : k <= j)
      BY SeatsAreCounted DEF Board!nextActiveSeat
<1>4. PICK t \in A : TRUE
      OBVIOUS
<1> HIDE DEF n, A
<1>5. t \in 0..n - 1 /\ s \in 0..n - 1
      BY <1>1
<1>6. t % n = t /\ (t + n) % n = t
      BY <1>1, <1>5, BackToSeat
<1>7. near # {}
  <2>1. CASE t > s
    <3>1. t - s \in 1..n /\ s + (t - s) = t
          BY <1>1, <1>5, <2>1
    <3>2. Board!Ahead(s, t - s) = t
          BY <1>2, <1>6, <3>1
    <3>3. QED BY <3>1, <3>2
  <2>2. CASE ~(t > s)
    <3>1. t - s + n \in 1..n /\ s + (t - s + n) = t + n
          BY <1>1, <1>5, <2>2
    <3>2. Board!Ahead(s, t - s + n) = t
          BY <1>2, <1>6, <3>1
    <3>3. QED BY <3>1, <3>2
  <2>3. QED BY <2>1, <2>2
<1>8. near \in SUBSET Nat
      BY <1>1
<1>9. \E k \in near : \A j \in near : k <= j
      BY <1>7, <1>8, LeastOf
<1>10. (CHOOSE k \in near : \A j \in near : k <= j) \in near
      BY <1>9
<1>11. QED BY <1>1, <1>3, <1>10 DEF A

-------------------------------------------------------------------------------
\* Lists of seats, each named once.

IsList(f) == f \in Seq(Seats) /\ Board!IsInjective(f)

LEMMA InList ==
    ASSUME NEW f \in Seq(Seats)
    PROVE  /\ \A x : Board!Contains(f, x) <=> \E k \in 1..Len(f) : f[k] = x
           /\ \A k \in 1..Len(f) : f[k] \in Seats
           /\ Len(f) \in Nat /\ DOMAIN f = 1..Len(f)
BY DEF Board!Contains

\* Two lists with no seat in common make one.
LEMMA Joined ==
    ASSUME NEW f, NEW g, IsList(f), IsList(g), \A x \in Seats : ~(Board!Contains(f, x) /\ Board!Contains(g, x))
    PROVE  /\ Board!AppendNew(f, g) = f \o g
           /\ IsList(f \o g)
           /\ \A x : Board!Contains(f \o g, x) <=> Board!Contains(f, x) \/ Board!Contains(g, x)
           /\ Len(f \o g) = Len(f) + Len(g)
           /\ \A k \in 1..Len(f) : (f \o g)[k] = f[k]
           /\ \A k \in 1..Len(g) : (f \o g)[Len(f) + k] = g[k]
<1> DEFINE h == f \o g
<1>1. f \in Seq(Seats) /\ g \in Seq(Seats) /\ Len(f) \in Nat /\ Len(g) \in Nat
      /\ DOMAIN f = 1..Len(f) /\ DOMAIN g = 1..Len(g)
      BY DEF IsList
<1>2. /\ h \in Seq(Seats) /\ Len(h) = Len(f) + Len(g) /\ DOMAIN h = 1..Len(h)
      /\ \A k \in 1..Len(h) : h[k] = IF k <= Len(f) THEN f[k] ELSE g[k - Len(f)]
      BY <1>1
<1> HIDE DEF h
<1>3. \A k \in 1..Len(f) : k \in 1..Len(h) /\ h[k] = f[k]
      BY <1>1, <1>2
<1>4. \A k \in 1..Len(g) : Len(f) + k \in 1..Len(h) /\ h[Len(f) + k] = g[k]
  <2> SUFFICES ASSUME NEW k \in 1..Len(g)
               PROVE  Len(f) + k \in 1..Len(h) /\ h[Len(f) + k] = g[k]
      OBVIOUS
  <2>1. Len(f) + k \in 1..Len(h) /\ ~(Len(f) + k <= Len(f)) /\ Len(f) + k - Len(f) = k
        BY <1>1, <1>2
  <2>2. QED BY <1>2, <2>1
<1>5. \A k \in 1..Len(h) : k \in 1..Len(f) \/ (k - Len(f) \in 1..Len(g) /\ h[k] = g[k - Len(f)])
      BY <1>1, <1>2
<1>6. \A x : Board!Contains(h, x) <=> Board!Contains(f, x) \/ Board!Contains(g, x)
  <2>1. \A x : Board!Contains(h, x) <=> \E k \in 1..Len(h) : h[k] = x
        BY <1>2, InList
  <2>2. \A x : Board!Contains(f, x) <=> \E k \in 1..Len(f) : f[k] = x
        BY <1>1, InList
  <2>3. \A x : Board!Contains(g, x) <=> \E k \in 1..Len(g) : g[k] = x
        BY <1>1, InList
  <2>4. QED BY <1>3, <1>4, <1>5, <2>1, <2>2, <2>3
<1>7. Board!IsInjective(h)
  <2> SUFFICES ASSUME NEW i \in 1..Len(h), NEW j \in 1..Len(h), h[i] = h[j]
               PROVE  i = j
      BY <1>2 DEF Board!IsInjective
  <2>1. \A k, m \in 1..Len(f) : f[k] = f[m] => k = m
        BY <1>1 DEF IsList, Board!IsInjective
  <2>2. \A k, m \in 1..Len(g) : g[k] = g[m] => k = m
        BY <1>1 DEF IsList, Board!IsInjective
  <2>3. \A k \in 1..Len(f), m \in 1..Len(g) : f[k] # g[m]
        BY <1>1, InList
  <2>4. CASE i \in 1..Len(f) /\ j \in 1..Len(f)
        BY <1>3, <2>1, <2>4
  <2>5. CASE i \in 1..Len(f) /\ j \notin 1..Len(f)
        BY <1>3, <1>5, <2>3, <2>5
  <2>6. CASE i \notin 1..Len(f) /\ j \in 1..Len(f)
        BY <1>3, <1>5, <2>3, <2>6
  <2>7. CASE i \notin 1..Len(f) /\ j \notin 1..Len(f)
    <3>1. i - Len(f) = j - Len(f)
          BY <1>5, <2>2, <2>7
    <3>2. QED BY <1>1, <3>1
  <2>8. QED BY <2>4, <2>5, <2>6, <2>7
<1>8. Board!AppendNew(f, g) = f \o g
  <2>1. \A k \in DOMAIN g : ~Board!Contains(f, g[k])
        BY <1>1, InList
  <2>2. QED BY <2>1 DEF Board!AppendNew
<1>9. QED BY <1>2, <1>3, <1>4, <1>6, <1>7, <1>8 DEF h, IsList

LEMMA ReversedList ==
    ASSUME NEW f, IsList(f)
    PROVE  /\ IsList(Board!Reverse(f))
           /\ Len(Board!Reverse(f)) = Len(f)
           /\ \A k \in 1..Len(f) : Board!Reverse(f)[k] = f[Len(f) - k + 1]
           /\ \A x : Board!Contains(Board!Reverse(f), x) <=> Board!Contains(f, x)
<1> DEFINE r == Board!Reverse(f)
<1>1. f \in Seq(Seats) /\ Len(f) \in Nat /\ DOMAIN f = 1..Len(f)
      BY DEF IsList
<1>2. /\ r \in Seq(Seats) /\ Len(r) = Len(f) /\ DOMAIN r = 1..Len(f)
      /\ \A k \in 1..Len(f) : r[k] = f[Len(f) - k + 1]
      BY <1>1 DEF Board!Reverse
<1> HIDE DEF r
<1>3. \A k \in 1..Len(f) : Len(f) - k + 1 \in 1..Len(f) /\ Len(f) - (Len(f) - k + 1) + 1 = k
      BY <1>1
<1>4. Board!IsInjective(r)
  <2> SUFFICES ASSUME NEW i \in 1..Len(f), NEW j \in 1..Len(f), r[i] = r[j]
               PROVE  i = j
      BY <1>2 DEF Board!IsInjective
  <2>1. Len(f) - i + 1 = Len(f) - j + 1
        BY <1>1, <1>2, <1>3 DEF IsList, Board!IsInjective
  <2>2. QED BY <1>1, <2>1
<1>5. \A x : Board!Contains(r, x) <=> Board!Contains(f, x)
  <2>1. \A x : Board!Contains(r, x) <=> \E k \in 1..Len(f) : r[k] = x
        BY <1>2, InList
  <2>2. \A x : Board!Contains(f, x) <=> \E k \in 1..Len(f) : f[k] = x
        BY <1>1, InList
  <2>3. ASSUME NEW k \in 1..Len(f) PROVE r[Len(f) - k + 1] = f[k]
        BY <1>2, <1>3
  <2>4. QED BY <1>2, <1>3, <2>1, <2>2, <2>3
<1>6. QED BY <1>2, <1>4, <1>5 DEF r, IsList

LEMMA OneIsList ==
    ASSUME NEW s \in Seats
    PROVE  IsList(<<s>>) /\ Len(<<s>>) = 1 /\ <<s>>[1] = s /\ \A x : Board!Contains(<<s>>, x) <=> x = s
<1>1. <<s>> \in Seq(Seats) /\ Len(<<s>>) = 1 /\ <<s>>[1] = s /\ DOMAIN <<s>> = 1..1
      OBVIOUS
<1>2. \A k : k \in 1..1 <=> k = 1
      OBVIOUS
<1> DEFINE e == <<s>>
<1>3. Board!IsInjective(e)
  <2>1. DOMAIN e = 1..1
        BY <1>1
  <2> HIDE DEF e
  <2>2. QED BY <1>2, <2>1 DEF Board!IsInjective
<1>4. \A x : Board!Contains(<<s>>, x) <=> \E k \in 1..1 : <<s>>[k] = x
      BY <1>1, Zenon DEF Board!Contains
<1>5. \A x : Board!Contains(<<s>>, x) <=> x = s
      BY <1>1, <1>2, <1>4, Zenon
<1>6. QED BY <1>1, <1>3, <1>5, Zenon DEF IsList

LEMMA NoneIsList == IsList(<<>>) /\ Len(<<>>) = 0 /\ \A x : ~Board!Contains(<<>>, x)
<1>1. <<>> \in Seq(Seats) /\ Len(<<>>) = 0 /\ DOMAIN <<>> = 1..0
      OBVIOUS
<1>2. \A k : k \notin 1..0
      OBVIOUS
<1>3. Board!IsInjective(<<>>)
      BY <1>1, <1>2, Zenon DEF Board!IsInjective
<1>4. \A x : ~Board!Contains(<<>>, x)
      BY <1>1, <1>2, Zenon DEF Board!Contains
<1>5. QED BY <1>1, <1>3, <1>4, Zenon DEF IsList

\* Who is still playing once the game is decided.
LEMMA FirstOfOne ==
    ASSUME NEW stat, Board!Decided(stat)
    PROVE  /\ IsList(Board!FirstActive(stat))
           /\ \A x : Board!Contains(Board!FirstActive(stat), x) <=> x \in Board!Active(stat)
<1>1. CASE Board!Active(stat) = {}
      BY <1>1, NoneIsList DEF Board!FirstActive
<1>2. CASE Board!Active(stat) # {}
  <2> DEFINE s == CHOOSE t \in Board!Active(stat) : TRUE
  <2>1. s \in Board!Active(stat) /\ s \in Seats
        BY <1>2, DecidedMeans
  <2>2. \A x : x \in Board!Active(stat) <=> x = s
        BY <2>1, DecidedMeans
  <2>3. Board!FirstActive(stat) = <<s>>
        BY <1>2 DEF Board!FirstActive
  <2> HIDE DEF s
  <2>4. QED BY <2>1, <2>2, <2>3, OneIsList
<1>3. QED BY <1>1, <1>2

\* The lists agree with the players: one names who came home, the other who gave up.
Agrees(order, stat, forfeits) ==
    /\ IsList(order) /\ IsList(forfeits)
    /\ stat \in [Seats -> {"ACTIVE", "FINISHED", "FORFEITED"}]
    /\ \A s \in Seats : Board!Contains(order, s) <=> stat[s] = "FINISHED"
    /\ \A s \in Seats : Board!Contains(forfeits, s) <=> stat[s] = "FORFEITED"

\* Those who stayed come first, and behind them the forfeits backwards.
RanksBehind(final, stat, forfeits) ==
    \E b \in Nat :
        /\ Len(final) = b + Len(forfeits)
        /\ \A k \in 1..b : stat[final[k]] # "FORFEITED"
        /\ \A k \in 1..Len(forfeits) : final[b + k] = forfeits[Len(forfeits) - k + 1]

\* The final order: everyone, those who stayed first, forfeits backwards behind them.
LEMMA FinalOrderIs ==
    ASSUME NEW order, NEW stat, NEW forfeits, Agrees(order, stat, forfeits), Board!Decided(stat),
           NEW final, final = Board!FinalOrder(order, stat, forfeits)
    PROVE  /\ IsList(final) /\ \A s \in Seats : Board!Contains(final, s)
           /\ RanksBehind(final, stat, forfeits)
<1> DEFINE act == Board!FirstActive(stat)
           rev == Board!Reverse(forfeits)
           h == order \o act
<1>1. IsList(order) /\ IsList(forfeits) /\ order \in Seq(Seats) /\ forfeits \in Seq(Seats)
      BY DEF Agrees, IsList
<1>2. IsList(act) /\ \A x : Board!Contains(act, x) <=> x \in Board!Active(stat)
      BY FirstOfOne
<1>3. /\ IsList(rev) /\ Len(rev) = Len(forfeits)
      /\ \A k \in 1..Len(forfeits) : rev[k] = forfeits[Len(forfeits) - k + 1]
      /\ \A x : Board!Contains(rev, x) <=> Board!Contains(forfeits, x)
      BY <1>1, ReversedList
<1>4. \A s \in Seats : s \in Board!Active(stat) <=> stat[s] = "ACTIVE"
      BY DEF Board!Active
<1>5. Board!FinalOrder(order, stat, forfeits) = Board!AppendNew(Board!AppendNew(order, act), rev)
      BY DEF Board!FinalOrder
<1> HIDE DEF act, rev
<1>6. \A x \in Seats : ~(Board!Contains(order, x) /\ Board!Contains(act, x))
      BY <1>2, <1>4 DEF Agrees
<1>7. /\ Board!AppendNew(order, act) = h /\ IsList(h)
      /\ \A x : Board!Contains(h, x) <=> Board!Contains(order, x) \/ Board!Contains(act, x)
      BY <1>1, <1>2, <1>6, Joined
<1> HIDE DEF h
<1>8. \A x \in Seats : ~(Board!Contains(h, x) /\ Board!Contains(rev, x))
      BY <1>2, <1>3, <1>4, <1>7 DEF Agrees
<1> DEFINE f == h \o rev
<1>9. /\ Board!AppendNew(h, rev) = f /\ IsList(f)
      /\ \A x : Board!Contains(f, x) <=> Board!Contains(h, x) \/ Board!Contains(rev, x)
      /\ Len(f) = Len(h) + Len(rev)
      /\ \A k \in 1..Len(h) : f[k] = h[k]
      /\ \A k \in 1..Len(rev) : f[Len(h) + k] = rev[k]
  <2>1. IsList(h) /\ IsList(rev)
        BY <1>3, <1>7
  <2> HIDE <1>3, <1>7
  <2>2. QED BY <1>8, <2>1, Joined, Zenon
<1>10. final = f
      BY <1>5, <1>7, <1>9
<1> HIDE DEF f
<1>11. /\ IsList(final)
       /\ \A x : Board!Contains(final, x) <=> Board!Contains(h, x) \/ Board!Contains(rev, x)
       /\ Len(final) = Len(h) + Len(forfeits)
       /\ \A k \in 1..Len(h) : final[k] = h[k]
       /\ \A k \in 1..Len(forfeits) : final[Len(h) + k] = rev[k]
      BY <1>3, <1>9, <1>10
<1> HIDE <1>10
<1>12. \A s \in Seats : Board!Contains(final, s)
      BY <1>2, <1>3, <1>4, <1>7, <1>11 DEF Agrees
<1>13. Len(h) \in Nat /\ \A k \in 1..Len(h) : h[k] \in Seats /\ Board!Contains(h, h[k])
      BY <1>7, InList DEF IsList
<1>14. \A k \in 1..Len(h) : stat[final[k]] # "FORFEITED"
      BY <1>2, <1>4, <1>7, <1>11, <1>13 DEF Agrees
<1>15. \A k \in 1..Len(forfeits) : final[Len(h) + k] = forfeits[Len(forfeits) - k + 1]
      BY <1>3, <1>11
<1>16. \E b \in Nat :
         /\ Len(final) = b + Len(forfeits)
         /\ \A k \in 1..b : stat[final[k]] # "FORFEITED"
         /\ \A k \in 1..Len(forfeits) : final[b + k] = forfeits[Len(forfeits) - k + 1]
      BY <1>11, <1>13, <1>14, <1>15, Zenon
<1>17. QED BY <1>11, <1>12, <1>16, Zenon DEF RanksBehind

-------------------------------------------------------------------------------
\* The invariant: beside what the run checks, a room that waits is as it was made, the
\* dice of a move has been thrown, and until the end the lists agree with the players.

TurnInv ==
    /\ roomStatus = "WAITING" =>
        phase = "AWAITING_ROLL" /\ dice = NoDice /\ consecutiveSixes = 0 /\ \A s \in Seats : player[s] = "ACTIVE"
    /\ roomStatus = "ACTIVE" /\ phase = "AWAITING_MOVE" => dice \in Board!Faces

ListsInv ==
    /\ IsList(finishOrder) /\ IsList(forfeitOrder)
    /\ roomStatus # "COMPLETED" => Agrees(finishOrder, player, forfeitOrder)

BoardInv ==
    /\ Board!TypeOK /\ Board!NoSharedCell /\ Board!TurnCanBePlayed /\ Board!PlacesAreFair
    /\ TurnInv /\ ListsInv

TurnTypes ==
    /\ phase \in {"AWAITING_ROLL", "AWAITING_MOVE", "COMPLETED"}
    /\ currentTurnSeat \in Seats /\ consecutiveSixes \in Nat
    /\ dice \in Board!Faces \cup {NoDice} /\ legalPawnIds \subseteq Pawns

LEMMA BoardTypes ==
    Board!TypeOK <=>
        /\ TurnTypes
        /\ roomStatus \in {"WAITING", "ACTIVE", "COMPLETED"}
        /\ pawns \in [Seats -> [Pawns -> (-1)..HOME]]
        /\ player \in [Seats -> {"ACTIVE", "FINISHED", "FORFEITED"}]
        /\ finishOrder \in Seq(Seats) /\ forfeitOrder \in Seq(Seats)
        /\ finishedPosition \in [Seats -> Nat]
BY DEF Board!TypeOK, TurnTypes

LEMMA BoardTypesNext ==
    Board!TypeOK' <=>
        /\ TurnTypes'
        /\ roomStatus' \in {"WAITING", "ACTIVE", "COMPLETED"}
        /\ pawns' \in [Seats -> [Pawns -> (-1)..HOME]]
        /\ player' \in [Seats -> {"ACTIVE", "FINISHED", "FORFEITED"}]
        /\ finishOrder' \in Seq(Seats) /\ forfeitOrder' \in Seq(Seats)
        /\ finishedPosition' \in [Seats -> Nat]
BY DEF Board!TypeOK, TurnTypes

\* The places given at the end.
LEMMA FinalPlaces ==
    ASSUME NEW order, NEW stat, NEW forfeits, Agrees(order, stat, forfeits),
           Board!Finalize(order, stat, forfeits), player' = stat, forfeitOrder' = forfeits,
           TurnTypes
    PROVE  /\ roomStatus' = "COMPLETED" /\ TurnTypes'
           /\ finishOrder' \in Seq(Seats) /\ finishedPosition' \in [Seats -> Nat]
           /\ Board!PlacesAreFair' /\ ListsInv'
<1> DEFINE f == finishOrder'
           n == Len(forfeits)
           pos == finishedPosition'
<1>1. Board!Decided(stat) /\ f = Board!FinalOrder(order, stat, forfeits)
      BY DEF Board!Finalize
<1> HIDE DEF f
<1>2. roomStatus' = "COMPLETED" /\ TurnTypes'
      BY DEF Board!Finalize, TurnTypes
<1>3. IsList(f) /\ (\A s \in Seats : Board!Contains(f, s)) /\ RanksBehind(f, stat, forfeits)
      BY <1>1, FinalOrderIs
<1>4. PICK b \in Nat :
         /\ Len(f) = b + Len(forfeits)
         /\ \A k \in 1..b : stat[f[k]] # "FORFEITED"
         /\ \A k \in 1..Len(forfeits) : f[b + k] = forfeits[Len(forfeits) - k + 1]
      BY <1>3 DEF RanksBehind
<1>5. /\ f \in Seq(Seats) /\ Len(f) \in Nat /\ DOMAIN f = 1..Len(f)
      /\ \A k \in 1..Len(f) : f[k] \in Seats
      /\ \A s \in Seats : \E k \in 1..Len(f) : f[k] = s
      /\ \A i, j \in 1..Len(f) : f[i] = f[j] => i = j
      BY <1>3, InList DEF IsList, Board!IsInjective
<1>6. pos = [s \in Seats |-> CHOOSE k \in DOMAIN f : f[k] = s]
  <2>1. pos = [s \in Seats |-> IF Board!Contains(f, s) THEN CHOOSE k \in DOMAIN f : f[k] = s ELSE finishedPosition[s]]
        BY DEF Board!Finalize, f
  <2>2. QED BY <1>3, <2>1
<1>7. ASSUME NEW k \in 1..Len(f) PROVE pos[f[k]] = k
  <2>1. \A j \in 1..Len(f) : f[j] = f[k] <=> j = k
        BY <1>5
  <2>2. f[k] \in Seats
        BY <1>5
  <2>3. pos[f[k]] = CHOOSE j \in DOMAIN f : f[j] = f[k]
        BY <1>6, <2>2
  <2>4. QED BY <1>5, <2>1, <2>3
<1>8. pos \in [Seats -> Nat]
  <2>1. ASSUME NEW s \in Seats PROVE pos[s] \in Nat
        BY <1>5, <1>7
  <2>2. QED BY <1>6, <2>1
<1>9. /\ IsList(forfeits) /\ n \in Nat /\ DOMAIN forfeits = 1..n
      /\ \A k \in 1..n : forfeits[k] \in Seats /\ stat[forfeits[k]] = "FORFEITED"
      BY InList DEF Agrees, IsList
<1>10. forfeitOrder' = forfeits /\ player' = stat
      OBVIOUS
<1> HIDE DEF pos, n
<1>11. ASSUME NEW k \in 1..n
       PROVE  /\ b + (n - k + 1) \in 1..Len(f) /\ f[b + (n - k + 1)] = forfeits[k]
              /\ pos[forfeits[k]] = b + (n - k + 1)
  <2>1. n - k + 1 \in 1..n /\ n - (n - k + 1) + 1 = k
        BY <1>9
  <2>2. b + (n - k + 1) \in 1..Len(f)
        BY <1>4, <1>9, <2>1 DEF n
  <2>3. f[b + (n - k + 1)] = forfeits[k]
        BY <1>4, <2>1 DEF n
  <2>4. QED BY <1>7, <2>2, <2>3
<1>12. ASSUME NEW k \in 1..Len(f), k > b PROVE stat[f[k]] = "FORFEITED"
  <2>1. k - b \in 1..n /\ b + (k - b) = k /\ n - (k - b) + 1 \in 1..n
        BY <1>4, <1>9, <1>12 DEF n
  <2>2. f[k] = forfeits[n - (k - b) + 1]
        BY <1>4, <2>1 DEF n
  <2>3. QED BY <1>9, <2>1, <2>2
<1>13. ASSUME NEW p \in Seats, NEW q \in Seats, stat[p] # "FORFEITED", stat[q] = "FORFEITED"
       PROVE  pos[p] < pos[q]
  <2>1. PICK k \in 1..Len(f) : f[k] = p
        BY <1>5
  <2>2. PICK m \in 1..Len(f) : f[m] = q
        BY <1>5
  <2>3. ~(k > b) /\ m \notin 1..b
        BY <1>4, <1>12, <1>13, <2>1, <2>2
  <2>4. pos[p] = k /\ pos[q] = m
        BY <1>7, <2>1, <2>2
  <2>5. QED BY <1>5, <2>3, <2>4
<1>14. ASSUME NEW i \in 1..n, NEW j \in 1..n, i < j
       PROVE  pos[forfeits[j]] < pos[forfeits[i]]
  <2>1. pos[forfeits[j]] = b + (n - j + 1) /\ pos[forfeits[i]] = b + (n - i + 1)
        BY <1>11
  <2>2. QED BY <1>9, <1>14, <2>1
<1>15. {f[k] : k \in DOMAIN f} = Seats
      BY <1>5
<1>16. Board!IsInjective(f)
      BY <1>3 DEF IsList
<1>17. Board!PlacesAreFair'
  <2>1. Board!IsInjective(finishOrder)'
        BY <1>16 DEF f, Board!IsInjective
  <2>2. (\A k \in DOMAIN finishOrder : finishedPosition[finishOrder[k]] = k)'
        BY <1>5, <1>7 DEF f, pos
  <2>3. ({finishOrder[k] : k \in DOMAIN finishOrder} = Seats)'
        BY <1>15 DEF f
  <2>4. (\A p, q \in Seats : player[p] # "FORFEITED" /\ player[q] = "FORFEITED"
                                => finishedPosition[p] < finishedPosition[q])'
        BY <1>10, <1>13 DEF pos
  <2>5. (\A i, j \in DOMAIN forfeitOrder : i < j
                => finishedPosition[forfeitOrder[j]] < finishedPosition[forfeitOrder[i]])'
        BY <1>9, <1>10, <1>14 DEF pos
  <2>6. QED BY <2>1, <2>2, <2>3, <2>4, <2>5 DEF Board!PlacesAreFair
<1>18. ListsInv'
      BY <1>2, <1>3, <1>9, <1>10 DEF ListsInv, f, IsList, Board!IsInjective
<1>19. QED BY <1>2, <1>5, <1>8, <1>17, <1>18 DEF f, pos

\* The turn handed to the next player who plays.
LEMMA NextTurn ==
    ASSUME NEW stat, ~Board!Decided(stat), player' = stat, NEW s \in Seats,
           Board!beginRoll(Board!nextActiveSeat(stat, s), TRUE)
    PROVE  TurnTypes' /\ Board!TurnCanBePlayed' /\ phase' = "AWAITING_ROLL"
<1>1. Board!Active(stat) # {}
      BY DecidedMeans
<1>2. currentTurnSeat' \in Board!Active(stat) /\ currentTurnSeat' \in Seats
      BY <1>1, NextIsActive DEF Board!beginRoll
<1>3. /\ phase' = "AWAITING_ROLL" /\ dice' = NoDice /\ legalPawnIds' = {} /\ consecutiveSixes' = 0
      BY DEF Board!beginRoll
<1>4. TurnTypes'
      BY <1>2, <1>3 DEF TurnTypes
<1>5. stat[currentTurnSeat'] = "ACTIVE"
      BY <1>2 DEF Board!Active
<1>6. ~Board!Decided(player)'
      BY DEF Board!Decided, Board!Active
<1>7. Board!TurnCanBePlayed'
      BY <1>3, <1>5, <1>6 DEF Board!TurnCanBePlayed
<1>8. QED BY <1>3, <1>4, <1>7

LEMMA SameTurn ==
    ASSUME Board!PassTurn, BoardInv, roomStatus = "ACTIVE", UNCHANGED player
    PROVE  TurnTypes' /\ Board!TurnCanBePlayed' /\ phase' = "AWAITING_ROLL"
<1>1. ~Board!Decided(player) /\ currentTurnSeat \in Seats
      BY DEF BoardInv, Board!TurnCanBePlayed, Board!TypeOK
<1>2. player' = player
      OBVIOUS
<1>3. Board!beginRoll(Board!nextActiveSeat(player, currentTurnSeat), TRUE)
      BY DEF Board!PassTurn
<1>4. QED BY <1>1, <1>2, <1>3, NextTurn

-------------------------------------------------------------------------------
\* Pawns.

LEMMA BoardIsBig ==
    /\ TrackLast \in Nat /\ HOME \in Nat /\ TrackLast < HOME
    /\ Six \in Nat \ {0} /\ NoDice \notin 1..Six
    /\ Board!YARD = -1 /\ Board!Faces = 1..Six /\ Board!Track = 0..TrackLast
    /\ extraTurnOnSix \in BOOLEAN /\ extraTurnOnCapture \in BOOLEAN /\ threeConsecutiveSixes \in BOOLEAN
BY BoardBounds DEF Board!BoardAssumption, Board!YARD, Board!Faces, Board!Track

LEMMA YardIsOffTheTrack == \A s : Board!globalCellFor(s, Board!YARD) = Board!NoCell
BY BoardIsBig DEF Board!globalCellFor

\* A legal move keeps its pawn on the board.
LEMMA MovedStays ==
    ASSUME BoardInv, roomStatus = "ACTIVE", phase = "AWAITING_MOVE", NEW i \in legalPawnIds
    PROVE  /\ Board!Moved(i) \in [Seats -> [Pawns -> (-1)..HOME]]
           /\ i \in Pawns /\ player[currentTurnSeat] = "ACTIVE" /\ currentTurnSeat \in Seats
<1> DEFINE s == currentTurnSeat
           to == Board!Destination(pawns[s][i])
<1>1. /\ s \in Seats /\ player[s] = "ACTIVE" /\ i \in Pawns /\ dice \in 1..Six
      /\ i \in Board!legalPawnIndices(s, dice) /\ pawns \in [Seats -> [Pawns -> (-1)..HOME]]
      BY BoardIsBig DEF BoardInv, Board!TypeOK, Board!TurnCanBePlayed, TurnInv
<1>2. to \in (-1)..HOME
  <2>1. pawns[s][i] \in (-1)..HOME
        BY <1>1
  <2>2. CASE pawns[s][i] = Board!YARD
        BY <2>2, BoardIsBig DEF Board!Destination
  <2>3. CASE pawns[s][i] # Board!YARD
    <3>1. pawns[s][i] + dice <= HOME
          BY <1>1, <2>3 DEF Board!legalPawnIndices
    <3>2. pawns[s][i] + dice \in (-1)..HOME
          BY <1>1, <2>1, <3>1, BoardIsBig
    <3>3. QED BY <2>3, <3>2 DEF Board!Destination
  <2>4. QED BY <2>2, <2>3
<1>3. Board!YARD \in (-1)..HOME
      BY BoardIsBig
<1> HIDE DEF to
<1>4. QED BY <1>1, <1>2, <1>3 DEF Board!Moved, to

\* A move leaves two players together on safe cells only.
LEMMA MovedKeepsApart ==
    ASSUME BoardInv, roomStatus = "ACTIVE", phase = "AWAITING_MOVE", NEW i \in legalPawnIds,
           pawns' = Board!Moved(i), \A q \in Seats : player'[q] = "FORFEITED" <=> player[q] = "FORFEITED"
    PROVE  Board!NoSharedCell'
<1> DEFINE s == currentTurnSeat
           to == Board!Destination(pawns[s][i])
           dest == Board!globalCellFor(s, to)
           C == Board!Captures(s, dest)
           cell(q, j) == Board!globalCellFor(q, pawns[q][j])
           next(q, j) == Board!globalCellFor(q, pawns'[q][j])
<1>1. i \in Pawns /\ s \in Seats
      BY MovedStays
<1>2. pawns' = [q \in Seats |-> [j \in Pawns |->
                  IF q = s /\ j = i THEN to ELSE IF <<q, j>> \in C THEN Board!YARD ELSE pawns[q][j]]]
      BY DEF Board!Moved
<1>3. \A q \in Seats, j \in Pawns :
         pawns'[q][j] = IF q = s /\ j = i THEN to ELSE IF <<q, j>> \in C THEN Board!YARD ELSE pawns[q][j]
      BY <1>2
<1>4. \A q \in Seats, j \in Pawns :
         <<q, j>> \in C <=> q # s /\ player[q] # "FORFEITED" /\ dest # Board!NoCell /\ dest \notin SafeCells /\ cell(q, j) = dest
      BY DEF Board!Captures
<1>5. next(s, i) = dest
      BY <1>1, <1>3
<1> HIDE DEF C, dest, to
<1>6. ASSUME NEW q \in Seats, NEW j \in Pawns, ~(q = s /\ j = i)
      PROVE  next(q, j) = Board!NoCell \/ (next(q, j) = cell(q, j) /\ <<q, j>> \notin C)
      BY <1>3, <1>6, YardIsOffTheTrack
<1>7. ASSUME NEW q \in Seats, NEW j \in Pawns, q # s, player[q] # "FORFEITED",
             dest # Board!NoCell, next(q, j) = dest
      PROVE  dest \in SafeCells
      BY <1>4, <1>6, <1>7
<1>8. \A p, q \in Seats : \A j, k \in Pawns :
        p # q /\ player[p] # "FORFEITED" /\ player[q] # "FORFEITED"
        /\ cell(p, j) # Board!NoCell /\ cell(p, j) = cell(q, k) => cell(p, j) \in SafeCells
      BY DEF BoardInv, Board!NoSharedCell
<1>9. ASSUME NEW p \in Seats, NEW q \in Seats, NEW j \in Pawns, NEW k \in Pawns, p # q,
             player[p] # "FORFEITED", player[q] # "FORFEITED",
             next(p, j) # Board!NoCell, next(p, j) = next(q, k)
      PROVE  next(p, j) \in SafeCells
  <2>1. CASE p = s /\ j = i
        BY <1>5, <1>7, <1>9, <2>1
  <2>2. CASE q = s /\ k = i
        BY <1>5, <1>7, <1>9, <2>2
  <2>3. CASE ~(p = s /\ j = i) /\ ~(q = s /\ k = i)
    <3>1. next(p, j) = cell(p, j) /\ next(q, k) = cell(q, k)
          BY <1>6, <1>9, <2>3
    <3>2. QED BY <1>8, <1>9, <3>1
  <2>4. QED BY <2>1, <2>2, <2>3
<1>10. QED BY <1>9 DEF Board!NoSharedCell

-------------------------------------------------------------------------------
\* The steps.

LEMMA BoardInitHolds ==
    ASSUME Board!Init
    PROVE  BoardInv
<1>1. /\ roomStatus = "WAITING" /\ phase = "AWAITING_ROLL" /\ currentTurnSeat \in Seats
      /\ consecutiveSixes = 0 /\ dice = NoDice /\ legalPawnIds = {}
      /\ pawns = [s \in Seats |-> [i \in Pawns |-> Board!YARD]]
      /\ player = [s \in Seats |-> "ACTIVE"]
      /\ finishOrder = <<>> /\ forfeitOrder = <<>>
      /\ finishedPosition = [s \in Seats |-> 0]
      BY DEF Board!Init
<1>2. Board!YARD \in (-1)..HOME
      BY BoardIsBig
<1>3. <<>> \in Seq(Seats)
      OBVIOUS
<1>4. Board!TypeOK
      BY <1>1, <1>2, <1>3 DEF Board!TypeOK
<1>5. \A s \in Seats, i \in Pawns : pawns[s][i] = Board!YARD
      BY <1>1
<1>6. Board!NoSharedCell
      BY <1>5, YardIsOffTheTrack DEF Board!NoSharedCell
<1>7. Board!TurnCanBePlayed /\ TurnInv
      BY <1>1 DEF Board!TurnCanBePlayed, TurnInv
<1>8. ListsInv
      BY <1>1, NoneIsList DEF ListsInv, Agrees
<1>9. DOMAIN finishOrder = 1..0
      BY <1>1
<1>10. Board!PlacesAreFair
      BY <1>1, <1>9, NoneIsList DEF Board!PlacesAreFair, IsList
<1>11. QED BY <1>4, <1>6, <1>7, <1>8, <1>10 DEF BoardInv

\* A step that leaves the players, their pawns and their places alone.
LEMMA TurnOnly ==
    ASSUME BoardInv, roomStatus = "ACTIVE", UNCHANGED <<roomStatus, pawns, player, forfeitOrder, finishOrder, finishedPosition>>,
           TurnTypes', Board!TurnCanBePlayed', phase' = "AWAITING_MOVE" => dice' \in Board!Faces
    PROVE  BoardInv'
<1>1. /\ roomStatus' = roomStatus /\ pawns' = pawns /\ player' = player /\ forfeitOrder' = forfeitOrder
      /\ finishOrder' = finishOrder /\ finishedPosition' = finishedPosition
      OBVIOUS
<1>2. Board!TypeOK'
      BY <1>1, BoardTypes, BoardTypesNext DEF BoardInv
<1>3. Board!NoSharedCell'
      BY <1>1 DEF BoardInv, Board!NoSharedCell
<1>4. Board!PlacesAreFair'
      BY <1>1 DEF BoardInv, Board!PlacesAreFair
<1>5. ListsInv'
      BY <1>1 DEF BoardInv, ListsInv, IsList, Agrees
<1>6. TurnInv'
      BY <1>1 DEF TurnInv
<1>7. QED BY <1>2, <1>3, <1>4, <1>5, <1>6 DEF BoardInv

LEMMA StartStep ==
    ASSUME BoardInv, Board!startGame
    PROVE  BoardInv'
<1>1. /\ roomStatus = "WAITING" /\ roomStatus' = "ACTIVE"
      /\ UNCHANGED <<phase, currentTurnSeat, consecutiveSixes, dice, legalPawnIds, pawns, player, forfeitOrder,
                     finishOrder, finishedPosition>>
      BY DEF Board!startGame, Board!turnVars, Board!places
<1>2. Board!TypeOK'
      BY <1>1 DEF BoardInv, Board!TypeOK
<1>3. Board!NoSharedCell'
      BY <1>1 DEF BoardInv, Board!NoSharedCell
<1>4. phase = "AWAITING_ROLL" /\ dice = NoDice /\ consecutiveSixes = 0 /\ \A s \in Seats : player[s] = "ACTIVE"
      BY <1>1 DEF BoardInv, TurnInv
<1>5. ~Board!Decided(player)
  <2>1. Board!Active(player) = Seats
        BY <1>4 DEF Board!Active
  <2>2. QED BY <2>1, SeatsAreCounted DEF Board!Decided
<1>6. currentTurnSeat \in Seats
      BY DEF BoardInv, Board!TypeOK
<1>7. ~Board!Decided(player)'
      BY <1>1, <1>5 DEF Board!Decided, Board!Active
<1>8. Board!TurnCanBePlayed'
      BY <1>1, <1>4, <1>6, <1>7 DEF Board!TurnCanBePlayed
<1>9. TurnInv' /\ ListsInv'
      BY <1>1, <1>4 DEF BoardInv, ListsInv, TurnInv, IsList, Agrees
<1>10. Board!PlacesAreFair'
      BY <1>1 DEF BoardInv, Board!PlacesAreFair
<1>11. QED BY <1>2, <1>3, <1>8, <1>9, <1>10 DEF BoardInv

LEMMA RollStep ==
    ASSUME BoardInv, NEW d \in Board!Faces, Board!applyRoll(d)
    PROVE  BoardInv'
<1> DEFINE sixes == IF d = Six THEN consecutiveSixes + 1 ELSE 0
           legal == Board!legalPawnIndices(currentTurnSeat, d)
<1>1. /\ roomStatus = "ACTIVE" /\ phase = "AWAITING_ROLL"
      /\ UNCHANGED <<roomStatus, pawns, player, forfeitOrder, finishOrder, finishedPosition>>
      BY DEF Board!applyRoll, Board!places
<1>2. /\ currentTurnSeat \in Seats /\ consecutiveSixes \in Nat /\ player[currentTurnSeat] = "ACTIVE"
      /\ ~Board!Decided(player) /\ legal \subseteq Pawns
      BY <1>1 DEF BoardInv, Board!TypeOK, Board!TurnCanBePlayed, Board!legalPawnIndices
<1>3. d \in 1..Six /\ sixes \in Nat
      BY <1>2, BoardIsBig
<1>4. ~Board!Decided(player)' /\ player'[currentTurnSeat] = "ACTIVE"
      BY <1>1, <1>2 DEF Board!Decided, Board!Active
<1>5. \/ Board!PassTurn
      \/ /\ threeConsecutiveSixes => sixes < 3
         /\ \/ /\ legal # {} /\ phase' = "AWAITING_MOVE" /\ dice' = d /\ legalPawnIds' = legal
               /\ consecutiveSixes' = sixes /\ currentTurnSeat' = currentTurnSeat
            \/ Board!beginRoll(currentTurnSeat, FALSE) /\ consecutiveSixes' = sixes
  <2>1. \/ Board!PassTurn
        \/ /\ ~(d = Six /\ threeConsecutiveSixes /\ sixes >= 3)
           /\ \/ /\ legal # {} /\ phase' = "AWAITING_MOVE" /\ dice' = d /\ legalPawnIds' = legal
                 /\ consecutiveSixes' = sixes /\ currentTurnSeat' = currentTurnSeat
              \/ Board!beginRoll(currentTurnSeat, FALSE) /\ consecutiveSixes' = sixes
        BY Zenon DEF Board!applyRoll
  <2>2. ~(d = Six /\ threeConsecutiveSixes /\ sixes >= 3) => (threeConsecutiveSixes => sixes < 3)
        BY <1>3, BoardIsBig
  <2> HIDE DEF sixes, legal
  <2>3. QED BY <2>1, <2>2
<1>6. CASE Board!PassTurn
  <2>1. TurnTypes' /\ Board!TurnCanBePlayed' /\ phase' = "AWAITING_ROLL"
        BY <1>1, <1>6, SameTurn
  <2>2. QED BY <1>1, <2>1, TurnOnly
<1>7. CASE /\ threeConsecutiveSixes => sixes < 3
           /\ legal # {} /\ phase' = "AWAITING_MOVE" /\ dice' = d /\ legalPawnIds' = legal
           /\ consecutiveSixes' = sixes /\ currentTurnSeat' = currentTurnSeat
  <2>1. TurnTypes'
        BY <1>2, <1>3, <1>7 DEF TurnTypes
  <2>2. legalPawnIds' = Board!legalPawnIndices(currentTurnSeat, dice)'
        BY <1>1, <1>7 DEF Board!legalPawnIndices
  <2>3. Board!TurnCanBePlayed'
        BY <1>4, <1>7, <2>2 DEF Board!TurnCanBePlayed
  <2>4. QED BY <1>1, <1>7, <2>1, <2>3, TurnOnly
<1>8. CASE /\ threeConsecutiveSixes => sixes < 3
           /\ Board!beginRoll(currentTurnSeat, FALSE) /\ consecutiveSixes' = sixes
  <2>1. /\ phase' = "AWAITING_ROLL" /\ currentTurnSeat' = currentTurnSeat /\ dice' = NoDice /\ legalPawnIds' = {}
        BY <1>8 DEF Board!beginRoll
  <2>2. TurnTypes'
        BY <1>2, <1>3, <1>8, <2>1 DEF TurnTypes
  <2>3. Board!TurnCanBePlayed'
        BY <1>4, <1>8, <2>1 DEF Board!TurnCanBePlayed
  <2>4. QED BY <1>1, <2>1, <2>2, <2>3, TurnOnly
<1>9. QED BY <1>5, <1>6, <1>7, <1>8

LEMMA ExpireStep ==
    ASSUME BoardInv, Board!expireTurn
    PROVE  BoardInv'
<1>1. /\ roomStatus = "ACTIVE" /\ Board!PassTurn
      /\ UNCHANGED <<roomStatus, pawns, player, forfeitOrder, finishOrder, finishedPosition>>
      BY DEF Board!expireTurn, Board!places
<1>2. TurnTypes' /\ Board!TurnCanBePlayed' /\ phase' = "AWAITING_ROLL"
      BY <1>1, SameTurn
<1>3. QED BY <1>1, <1>2, TurnOnly

\* A step that ends the game.
LEMMA LastStep ==
    ASSUME BoardInv, NEW order, Agrees(order, player', forfeitOrder'), Board!Finalize(order, player', forfeitOrder'),
           pawns' \in [Seats -> [Pawns -> (-1)..HOME]], Board!NoSharedCell'
    PROVE  BoardInv'
<1>1. /\ roomStatus' = "COMPLETED" /\ TurnTypes'
      /\ finishOrder' \in Seq(Seats) /\ finishedPosition' \in [Seats -> Nat]
      /\ Board!PlacesAreFair' /\ ListsInv'
      BY FinalPlaces, BoardTypes DEF BoardInv
<1>2. player' \in [Seats -> {"ACTIVE", "FINISHED", "FORFEITED"}] /\ forfeitOrder' \in Seq(Seats)
      BY DEF Agrees, IsList
<1>3. Board!TypeOK'
      BY <1>1, <1>2, BoardTypesNext
<1>4. Board!TurnCanBePlayed' /\ TurnInv'
      BY <1>1 DEF Board!TurnCanBePlayed, TurnInv
<1>5. QED BY <1>1, <1>3, <1>4 DEF BoardInv

LEMMA ForfeitStep ==
    ASSUME BoardInv, NEW s \in Seats, Board!forfeitPlayer(s)
    PROVE  BoardInv'
<1> DEFINE stat == [player EXCEPT ![s] = "FORFEITED"]
           list == Append(forfeitOrder, s)
<1>1. /\ roomStatus = "ACTIVE" /\ player[s] = "ACTIVE" /\ pawns' = pawns
      /\ player' = stat /\ forfeitOrder' = list
      BY DEF Board!forfeitPlayer
<1>2. \/ Board!Finalize(finishOrder, player', forfeitOrder')
      \/ /\ ~Board!Decided(stat)
         /\ IF s = currentTurnSeat THEN Board!beginRoll(Board!nextActiveSeat(stat, s), TRUE) ELSE UNCHANGED Board!turnVars
         /\ UNCHANGED <<roomStatus, finishOrder, finishedPosition>>
      BY <1>1, Zenon DEF Board!forfeitPlayer, Board!places
<1>3. /\ player \in [Seats -> {"ACTIVE", "FINISHED", "FORFEITED"}] /\ currentTurnSeat \in Seats
      /\ forfeitOrder \in Seq(Seats) /\ IsList(forfeitOrder) /\ IsList(finishOrder)
      /\ Agrees(finishOrder, player, forfeitOrder)
      BY <1>1 DEF BoardInv, ListsInv, Board!TypeOK
<1>4. /\ stat \in [Seats -> {"ACTIVE", "FINISHED", "FORFEITED"}] /\ stat[s] = "FORFEITED"
      /\ \A q \in Seats : q # s => stat[q] = player[q]
      BY <1>3
<1>5. IsList(list) /\ \A x : Board!Contains(list, x) <=> Board!Contains(forfeitOrder, x) \/ x = s
  <2>1. ~Board!Contains(forfeitOrder, s)
        BY <1>1, <1>3 DEF Agrees
  <2>2. \A x \in Seats : ~(Board!Contains(forfeitOrder, x) /\ Board!Contains(<<s>>, x))
        BY <2>1, OneIsList
  <2>3. /\ IsList(forfeitOrder \o <<s>>)
        /\ \A x : Board!Contains(forfeitOrder \o <<s>>, x) <=> Board!Contains(forfeitOrder, x) \/ Board!Contains(<<s>>, x)
        BY <1>3, <2>2, OneIsList, Joined
  <2>4. list = forfeitOrder \o <<s>>
        BY <1>3, AppendIsConcat
  <2>5. QED BY <2>3, <2>4, OneIsList
<1> HIDE DEF stat, list
<1>6. Agrees(finishOrder, stat, list)
      BY <1>1, <1>3, <1>4, <1>5 DEF Agrees
<1>7. pawns' \in [Seats -> [Pawns -> (-1)..HOME]]
      BY <1>1 DEF BoardInv, Board!TypeOK
<1>8. Board!NoSharedCell'
      BY <1>1, <1>4 DEF BoardInv, Board!NoSharedCell
<1>9. CASE Board!Finalize(finishOrder, player', forfeitOrder')
      BY <1>1, <1>6, <1>7, <1>8, <1>9, LastStep
<1>10. CASE /\ ~Board!Decided(stat)
            /\ IF s = currentTurnSeat THEN Board!beginRoll(Board!nextActiveSeat(stat, s), TRUE) ELSE UNCHANGED Board!turnVars
            /\ UNCHANGED <<roomStatus, finishOrder, finishedPosition>>
  <2>1. TurnTypes' /\ Board!TurnCanBePlayed' /\ (phase' = "AWAITING_MOVE" => dice' \in Board!Faces)
    <3>1. CASE s = currentTurnSeat
          BY <1>1, <1>10, <3>1, NextTurn
    <3>2. CASE s # currentTurnSeat
      <4>1. /\ phase' = phase /\ currentTurnSeat' = currentTurnSeat /\ consecutiveSixes' = consecutiveSixes
            /\ dice' = dice /\ legalPawnIds' = legalPawnIds
            BY <1>10, <3>2 DEF Board!turnVars
      <4>2. TurnTypes'
            BY <4>1, BoardTypes DEF BoardInv, TurnTypes
      <4>3. ~Board!Decided(player)' /\ player'[currentTurnSeat'] = "ACTIVE"
            BY <1>1, <1>3, <1>4, <1>10, <3>2, <4>1 DEF Board!Decided, Board!Active, BoardInv, Board!TurnCanBePlayed
      <4>4. Board!legalPawnIndices(currentTurnSeat, dice)' = Board!legalPawnIndices(currentTurnSeat, dice)
            BY <1>1, <4>1 DEF Board!legalPawnIndices
      <4>5. Board!TurnCanBePlayed'
            BY <1>1, <4>1, <4>3, <4>4 DEF BoardInv, Board!TurnCanBePlayed
      <4>6. QED BY <1>1, <4>1, <4>2, <4>5 DEF BoardInv, TurnInv
    <3>3. QED BY <3>1, <3>2
  <2>2. finishOrder' = finishOrder /\ finishedPosition' = finishedPosition /\ roomStatus' = "ACTIVE"
        BY <1>1, <1>10
  <2>3. ListsInv'
        BY <1>1, <1>3, <1>5, <1>6, <2>2 DEF ListsInv, IsList, Agrees
  <2>4. Board!PlacesAreFair'
        BY <1>1, <2>2 DEF BoardInv, Board!PlacesAreFair
  <2>5. Board!TypeOK'
    <3>1. finishOrder \in Seq(Seats) /\ finishedPosition \in [Seats -> Nat] /\ list \in Seq(Seats)
          BY <1>5 DEF BoardInv, Board!TypeOK, IsList
    <3>2. QED BY <1>1, <1>4, <1>7, <2>1, <2>2, <3>1, BoardTypesNext
  <2>6. QED BY <1>8, <2>1, <2>2, <2>3, <2>4, <2>5 DEF BoardInv, TurnInv
<1>11. QED BY <1>2, <1>9, <1>10

LEMMA MoveStep ==
    ASSUME BoardInv, NEW i \in legalPawnIds, Board!applyMove(i)
    PROVE  BoardInv'
<1> DEFINE s == currentTurnSeat
           captured == Board!Captures(s, Board!globalCellFor(s, Board!Destination(pawns[s][i]))) # {}
           finished == \A j \in Pawns : Board!Moved(i)[s][j] = HOME
           stat == [player EXCEPT ![s] = IF finished THEN "FINISHED" ELSE player[s]]
           order == IF finished THEN Board!AppendNew(finishOrder, <<s>>) ELSE finishOrder
           place == [finishedPosition EXCEPT ![s] = IF finished THEN Len(order) ELSE finishedPosition[s]]
<1>1. /\ roomStatus = "ACTIVE" /\ phase = "AWAITING_MOVE"
      /\ pawns' = Board!Moved(i) /\ player' = stat /\ forfeitOrder' = forfeitOrder
      BY DEF Board!applyMove
<1>2. \/ Board!Finalize(order, player', forfeitOrder')
      \/ /\ ~Board!Decided(stat)
         /\ IF Board!KeepsTurn(finished, captured)
            THEN Board!beginRoll(s, dice # Six) /\ (dice = Six => UNCHANGED consecutiveSixes)
            ELSE Board!beginRoll(Board!nextActiveSeat(stat, s), TRUE)
         /\ finishOrder' = order /\ finishedPosition' = place /\ roomStatus' = roomStatus
      BY <1>1, Zenon DEF Board!applyMove
<1>3. /\ player \in [Seats -> {"ACTIVE", "FINISHED", "FORFEITED"}] /\ finishOrder \in Seq(Seats)
      /\ finishedPosition \in [Seats -> Nat]
      /\ IsList(forfeitOrder) /\ IsList(finishOrder) /\ Agrees(finishOrder, player, forfeitOrder)
      BY <1>1 DEF BoardInv, ListsInv, Board!TypeOK
<1>4. s \in Seats /\ player[s] = "ACTIVE" /\ i \in Pawns /\ pawns' \in [Seats -> [Pawns -> (-1)..HOME]]
      BY <1>1, MovedStays
<1>5. finished \in BOOLEAN
      OBVIOUS
<1> HIDE DEF finished, captured
<1>6. /\ stat \in [Seats -> {"ACTIVE", "FINISHED", "FORFEITED"}]
      /\ stat[s] = IF finished THEN "FINISHED" ELSE "ACTIVE"
      /\ \A q \in Seats : q # s => stat[q] = player[q]
      BY <1>3, <1>4
<1>7. /\ IsList(order)
      /\ \A x : Board!Contains(order, x) <=> Board!Contains(finishOrder, x) \/ (finished /\ x = s)
      /\ finished => /\ Len(order) = Len(finishOrder) + 1 /\ order[Len(finishOrder) + 1] = s
                     /\ \A k \in 1..Len(finishOrder) : order[k] = finishOrder[k]
  <2>1. CASE ~finished
        BY <1>3, <2>1
  <2>2. CASE finished
    <3>1. ~Board!Contains(finishOrder, s)
          BY <1>3, <1>4 DEF Agrees
    <3> DEFINE g == <<s>>
    <3>2. IsList(g) /\ Len(g) = 1 /\ g[1] = s /\ \A x : Board!Contains(g, x) <=> x = s
          BY <1>4, OneIsList
    <3>3. \A x \in Seats : ~(Board!Contains(finishOrder, x) /\ Board!Contains(g, x))
          BY <3>1, <3>2
    <3> HIDE DEF g
    <3> DEFINE h == finishOrder \o g
    <3>4. /\ Board!AppendNew(finishOrder, g) = h /\ IsList(h)
          /\ \A x : Board!Contains(h, x) <=> Board!Contains(finishOrder, x) \/ Board!Contains(g, x)
          /\ Len(h) = Len(finishOrder) + Len(g)
          /\ \A k \in 1..Len(finishOrder) : h[k] = finishOrder[k]
          /\ \A k \in 1..Len(g) : h[Len(finishOrder) + k] = g[k]
      <4>1. IsList(finishOrder) /\ IsList(g)
            BY <1>3, <3>2
      <4>2. QED BY <3>3, <4>1, Joined, Zenon
    <3>5. order = h
          BY <2>2, <3>4 DEF g
    <3> HIDE DEF h, order
    <3>6. 1 \in 1..Len(g)
          BY <3>2
    <3>7. h[Len(finishOrder) + 1] = s /\ Len(h) = Len(finishOrder) + 1
          BY <3>2, <3>4, <3>6
    <3>8. QED BY <2>2, <3>2, <3>4, <3>5, <3>7
  <2>3. QED BY <2>1, <2>2
<1> HIDE DEF stat, order
<1>8. Agrees(order, stat, forfeitOrder)
      BY <1>3, <1>4, <1>6, <1>7 DEF Agrees
<1>9. Board!NoSharedCell'
  <2>1. \A q \in Seats : player'[q] = "FORFEITED" <=> player[q] = "FORFEITED"
        BY <1>1, <1>4, <1>6
  <2>2. QED BY <1>1, <2>1, MovedKeepsApart
<1>10. CASE Board!Finalize(order, player', forfeitOrder')
      BY <1>1, <1>4, <1>8, <1>9, <1>10, LastStep
<1>11. CASE /\ ~Board!Decided(stat)
            /\ IF Board!KeepsTurn(finished, captured)
               THEN Board!beginRoll(s, dice # Six) /\ (dice = Six => UNCHANGED consecutiveSixes)
               ELSE Board!beginRoll(Board!nextActiveSeat(stat, s), TRUE)
            /\ finishOrder' = order /\ finishedPosition' = place /\ roomStatus' = roomStatus
  <2>1. TurnTypes' /\ Board!TurnCanBePlayed' /\ phase' = "AWAITING_ROLL"
    <3>1. CASE Board!KeepsTurn(finished, captured)
      <4>1. Board!beginRoll(s, dice # Six) /\ (dice = Six => consecutiveSixes' = consecutiveSixes) /\ ~finished
            BY <1>11, <3>1 DEF Board!KeepsTurn
      <4>2. /\ phase' = "AWAITING_ROLL" /\ currentTurnSeat' = s /\ dice' = NoDice /\ legalPawnIds' = {}
            /\ consecutiveSixes' = 0 \/ consecutiveSixes' = consecutiveSixes
            BY <4>1 DEF Board!beginRoll
      <4>3. consecutiveSixes \in Nat /\ (threeConsecutiveSixes => consecutiveSixes < 3)
            BY <1>1 DEF BoardInv, Board!TypeOK, Board!TurnCanBePlayed
      <4>4. TurnTypes'
            BY <1>4, <4>2, <4>3 DEF TurnTypes
      <4>5. ~Board!Decided(player)' /\ player'[s] = "ACTIVE"
            BY <1>1, <1>6, <1>11, <4>1 DEF Board!Decided, Board!Active
      <4>6. Board!TurnCanBePlayed'
            BY <4>2, <4>3, <4>5 DEF Board!TurnCanBePlayed
      <4>7. QED BY <4>2, <4>4, <4>6
    <3>2. CASE ~Board!KeepsTurn(finished, captured)
          BY <1>1, <1>4, <1>11, <3>2, NextTurn
    <3>3. QED BY <3>1, <3>2
  <2>2. finishOrder' = order /\ finishedPosition' = place /\ roomStatus' = "ACTIVE"
        BY <1>1, <1>11
  <2>3. ListsInv'
        BY <1>1, <1>3, <1>7, <1>8, <2>2 DEF ListsInv, IsList, Agrees
  <2>4. Len(order) \in Nat /\ order \in Seq(Seats) /\ DOMAIN order = 1..Len(order)
        BY <1>7 DEF IsList
  <2>5. place \in [Seats -> Nat]
        BY <1>3, <2>4
  <2>6. \A k \in DOMAIN order : place[order[k]] = k
    <3>1. \A k \in 1..Len(finishOrder) : finishOrder[k] \in Seats /\ finishedPosition[finishOrder[k]] = k /\ finishOrder[k] # s
      <4>1. \A k \in 1..Len(finishOrder) : finishOrder[k] \in Seats /\ Board!Contains(finishOrder, finishOrder[k])
            BY <1>3, InList
      <4>2. ~Board!Contains(finishOrder, s)
            BY <1>3, <1>4 DEF Agrees
      <4>3. \A k \in 1..Len(finishOrder) : finishedPosition[finishOrder[k]] = k
            BY <1>3 DEF BoardInv, Board!PlacesAreFair
      <4>4. QED BY <4>1, <4>2, <4>3
    <3>2. CASE ~finished
      <4>1. order = finishOrder
            BY <3>2 DEF order
      <4>2. \A q \in Seats : place[q] = finishedPosition[q]
            BY <1>3, <3>2
      <4>3. QED BY <2>4, <3>1, <4>1, <4>2
    <3>3. CASE finished
      <4>1. \A q \in Seats : place[q] = IF q = s THEN Len(order) ELSE finishedPosition[q]
            BY <1>3, <3>3
      <4>2. Len(finishOrder) \in Nat
            BY <1>3
      <4>3. \A k \in 1..Len(order) : k \in 1..Len(finishOrder) \/ k = Len(finishOrder) + 1
            BY <1>7, <3>3, <4>2
      <4> HIDE DEF place
      <4>4. ASSUME NEW k \in 1..Len(order) PROVE place[order[k]] = k
        <5>1. CASE k \in 1..Len(finishOrder)
          <6>1. order[k] = finishOrder[k]
                BY <1>7, <3>3, <5>1
          <6>2. QED BY <3>1, <4>1, <5>1, <6>1
        <5>2. CASE k = Len(finishOrder) + 1
          <6>1. order[k] = s /\ Len(order) = k
                BY <1>7, <3>3, <5>2
          <6>2. QED BY <1>4, <4>1, <6>1
        <5>3. QED BY <4>3, <5>1, <5>2
      <4>5. QED BY <2>4, <4>4
    <3>4. QED BY <3>2, <3>3
  <2> HIDE DEF place
  <2>7. Board!PlacesAreFair'
    <3>1. Board!IsInjective(finishOrder)'
          BY <1>7, <2>2 DEF IsList, Board!IsInjective
    <3>2. QED BY <2>2, <2>6, <3>1 DEF Board!PlacesAreFair
  <2>8. Board!TypeOK'
    <3>1. forfeitOrder \in Seq(Seats)
          BY <1>3 DEF IsList
    <3>2. QED BY <1>1, <1>4, <1>6, <2>1, <2>2, <2>4, <2>5, <3>1, BoardTypesNext
  <2>9. QED BY <1>9, <2>1, <2>2, <2>3, <2>7, <2>8 DEF BoardInv, TurnInv
<1>12. QED BY <1>2, <1>10, <1>11

LEMMA BoardStep ==
    ASSUME BoardInv, Board!Next
    PROVE  BoardInv'
<1>1. CASE Board!startGame
      BY <1>1, StartStep
<1>2. ASSUME NEW d \in Board!Faces, Board!applyRoll(d) PROVE BoardInv'
      BY <1>2, RollStep
<1>3. ASSUME NEW i \in legalPawnIds, Board!applyMove(i) PROVE BoardInv'
      BY <1>3, MoveStep
<1>4. CASE Board!expireTurn
      BY <1>4, ExpireStep
<1>5. ASSUME NEW s \in Seats, Board!forfeitPlayer(s) PROVE BoardInv'
      BY <1>5, ForfeitStep
<1>6. QED BY <1>1, <1>2, <1>3, <1>4, <1>5 DEF Board!Next

LEMMA BoardStays ==
    ASSUME BoardInv, UNCHANGED boardVars
    PROVE  BoardInv'
<1>1. /\ roomStatus' = roomStatus /\ phase' = phase /\ currentTurnSeat' = currentTurnSeat
      /\ consecutiveSixes' = consecutiveSixes /\ dice' = dice /\ legalPawnIds' = legalPawnIds
      /\ pawns' = pawns /\ player' = player /\ finishOrder' = finishOrder /\ forfeitOrder' = forfeitOrder
      /\ finishedPosition' = finishedPosition
      BY DEF boardVars
<1>2. Board!TypeOK'
      BY <1>1 DEF BoardInv, Board!TypeOK
<1>3. Board!NoSharedCell'
      BY <1>1 DEF BoardInv, Board!NoSharedCell
<1>4. Board!TurnCanBePlayed'
      BY <1>1 DEF BoardInv, Board!TurnCanBePlayed, Board!legalPawnIndices, Board!Decided, Board!Active
<1>5. Board!PlacesAreFair'
      BY <1>1 DEF BoardInv, Board!PlacesAreFair
<1>6. TurnInv' /\ ListsInv'
      BY <1>1 DEF BoardInv, TurnInv, ListsInv, IsList, Agrees
<1>7. QED BY <1>2, <1>3, <1>4, <1>5, <1>6 DEF BoardInv

-------------------------------------------------------------------------------
\* The wheel.  Its sums and its draws are recursive functions under CHOOSE: each exists, by the
\* sums of the pockets so far and by the first pocket whose sum passes the target, and what it
\* returns follows by induction over the pockets.

\* Induction over the pockets.
LEMMA PocketInduction ==
    ASSUME NEW G, 0 \in G, \A n \in 0..35 : n \in G => n + 1 \in G
    PROVE  \A n \in 0..36 : n \in G
<1> DEFINE Bad == (0..36) \ G
           R == {ss \in Nat \X Nat : ss[1] < ss[2]}
<1> SUFFICES ASSUME Bad # {} PROVE FALSE
    OBVIOUS
<1>1. IsWellFoundedOn(R, Nat)
      BY NatLessThanWellFounded, Zenon DEF OpToRel
<1>2. Bad \subseteq Nat
      OBVIOUS
<1>3. PICK b \in Bad : \A y \in Bad : ~ (<<y, b>> \in R)
  <2> HIDE DEF Bad, R
  <2>1. QED BY <1>1, <1>2, WFMin
<1>4. b - 1 \in 0..35 /\ b - 1 \notin Bad
      BY <1>3
<1>5. QED BY <1>3, <1>4

\* The sums up to each pocket.
SumTo(f) == CHOOSE g : g = [n \in Wheel!Pockets |-> IF n = 0 THEN f[0] ELSE g[n - 1] + f[n]]

LEMMA SumIs == ASSUME NEW f PROVE Wheel!SumOf(f) = SumTo(f)[36]
BY DEF Wheel!SumOf, SumTo, Wheel!WHEEL_SIZE

LEMMA SumToIs ==
    ASSUME NEW f \in [0..36 -> Int]
    PROVE  /\ SumTo(f) \in [0..36 -> Int]
           /\ SumTo(f)[0] = f[0]
           /\ \A n \in 1..36 : SumTo(f)[n] = SumTo(f)[n - 1] + f[n]
<1> DEFINE Upto(k, g) == g[0] = f[0] /\ \A n \in 1..k : g[n] = g[n - 1] + f[n]
           G == {k \in 0..36 : \E g \in [0..36 -> Int] : Upto(k, g)}
<1>1. 0 \in G
  <2>1. [n \in 0..36 |-> f[0]] \in [0..36 -> Int] /\ Upto(0, [n \in 0..36 |-> f[0]])
        OBVIOUS
  <2>2. QED BY <2>1
<1>2. ASSUME NEW k \in 0..35, k \in G PROVE k + 1 \in G
  <2>1. PICK g \in [0..36 -> Int] : Upto(k, g)
        BY <1>2
  <2> DEFINE h == [g EXCEPT ![k + 1] = g[k] + f[k + 1]]
  <2>2. h \in [0..36 -> Int] /\ Upto(k + 1, h)
        BY <2>1
  <2> HIDE DEF h, Upto
  <2>3. QED BY <2>2
<1>3. PICK g \in [0..36 -> Int] : Upto(36, g)
  <2>1. \A n \in 0..36 : n \in G
    <3> HIDE DEF G
    <3> QED BY <1>1, <1>2, PocketInduction
  <2>2. QED BY <2>1
<1>4. g = [n \in Wheel!Pockets |-> IF n = 0 THEN f[0] ELSE g[n - 1] + f[n]]
  <2>1. \A n \in 0..36 : g[n] = IF n = 0 THEN f[0] ELSE g[n - 1] + f[n]
        BY <1>3
  <2>2. Wheel!Pockets = 0..36
        BY DEF Wheel!Pockets, Wheel!WHEEL_SIZE
  <2> QED BY <2>1, <2>2
<1>5. SumTo(f) = [n \in Wheel!Pockets |-> IF n = 0 THEN f[0] ELSE SumTo(f)[n - 1] + f[n]]
      BY <1>4 DEF SumTo
<1>6. /\ Wheel!Pockets = 0..36
      /\ \A n \in 0..36 : SumTo(f)[n] = IF n = 0 THEN f[0] ELSE SumTo(f)[n - 1] + f[n]
      /\ DOMAIN SumTo(f) = 0..36 /\ SumTo(f) = [n \in 0..36 |-> SumTo(f)[n]]
  <2>1. Wheel!Pockets = 0..36
        BY DEF Wheel!Pockets, Wheel!WHEEL_SIZE
  <2> DEFINE s == SumTo(f)
  <2>2. s = [n \in 0..36 |-> IF n = 0 THEN f[0] ELSE s[n - 1] + f[n]]
        BY <1>5, <2>1
  <2> HIDE DEF s
  <2>3. QED BY <2>1, <2>2 DEF s
<1>7. \A n \in 0..36 : SumTo(f)[n] \in Int
  <2> DEFINE T == {n \in 0..36 : SumTo(f)[n] \in Int}
  <2>1. 0 \in T
        BY <1>6
  <2>2. \A n \in 0..35 : n \in T => n + 1 \in T
        BY <1>6
  <2>3. \A n \in 0..36 : n \in T
    <3> HIDE DEF T
    <3> QED BY <2>1, <2>2, PocketInduction
  <2>4. QED BY <2>3
<1>8. QED BY <1>6, <1>7

\* Facts about the sums: of a multiple, of a table with one place filled, and of bounds.
LEMMA SumOfMultiple ==
    ASSUME NEW f \in [0..36 -> Int], NEW g \in [0..36 -> Int], NEW c \in Int,
           \A n \in 0..36 : g[n] = c * f[n]
    PROVE  Wheel!SumOf(g) = c * Wheel!SumOf(f)
<1> DEFINE T == {n \in 0..36 : SumTo(g)[n] = c * SumTo(f)[n]}
<1>1. /\ SumTo(f) \in [0..36 -> Int] /\ SumTo(f)[0] = f[0] /\ \A n \in 1..36 : SumTo(f)[n] = SumTo(f)[n - 1] + f[n]
      /\ SumTo(g) \in [0..36 -> Int] /\ SumTo(g)[0] = g[0] /\ \A n \in 1..36 : SumTo(g)[n] = SumTo(g)[n - 1] + g[n]
      BY SumToIs
<1>2. 0 \in T
      BY <1>1
<1>3. ASSUME NEW n \in 0..35, n \in T PROVE n + 1 \in T
  <2>1. /\ n + 1 \in 1..36 /\ (n + 1) - 1 = n /\ n \in 0..36
        /\ SumTo(f)[n] \in Int /\ SumTo(g)[n] \in Int /\ f[n + 1] \in Int /\ g[n + 1] = c * f[n + 1]
        BY <1>1
  <2>2. SumTo(g)[n + 1] = SumTo(g)[n] + g[n + 1] /\ SumTo(f)[n + 1] = SumTo(f)[n] + f[n + 1]
        BY <1>1, <2>1
  <2>3. SumTo(g)[n] = c * SumTo(f)[n]
        BY <1>3
  <2> DEFINE a == SumTo(f)[n]
             b == f[n + 1]
  <2>4. c * a + c * b = c * (a + b)
    <3> HIDE DEF a, b
    <3>1. a \in Int /\ b \in Int
          BY <2>1 DEF a, b
    <3>2. QED BY <3>1
  <2>5. QED BY <2>1, <2>2, <2>3, <2>4
<1>4. \A n \in 0..36 : n \in T
  <2> HIDE DEF T
  <2> QED BY <1>2, <1>3, PocketInduction
<1>5. QED BY <1>4, SumIs

LEMMA SumOfOne ==
    ASSUME NEW f \in [0..36 -> Int], NEW k \in 0..36, \A n \in 0..36 : n # k => f[n] = 0
    PROVE  Wheel!SumOf(f) = f[k]
<1> DEFINE T == {n \in 0..36 : SumTo(f)[n] = IF n < k THEN 0 ELSE f[k]}
<1>1. SumTo(f) \in [0..36 -> Int] /\ SumTo(f)[0] = f[0] /\ \A n \in 1..36 : SumTo(f)[n] = SumTo(f)[n - 1] + f[n]
      BY SumToIs
<1>2. 0 \in T
      BY <1>1
<1>3. ASSUME NEW n \in 0..35, n \in T PROVE n + 1 \in T
  <2>1. n + 1 \in 1..36 /\ (n + 1) - 1 = n /\ n \in 0..36 /\ f[n + 1] \in Int /\ f[k] \in Int
        OBVIOUS
  <2>2. SumTo(f)[n + 1] = SumTo(f)[n] + f[n + 1]
        BY <1>1, <2>1
  <2>3. SumTo(f)[n] = IF n < k THEN 0 ELSE f[k]
        BY <1>3
  <2>4. CASE n + 1 = k
        BY <2>1, <2>2, <2>3, <2>4
  <2>5. CASE n + 1 # k
    <3>1. f[n + 1] = 0
          BY <2>1, <2>5
    <3>2. QED BY <2>1, <2>2, <2>3, <2>5, <3>1
  <2>6. QED BY <2>4, <2>5
<1>4. \A n \in 0..36 : n \in T
  <2> HIDE DEF T
  <2> QED BY <1>2, <1>3, PocketInduction
<1>5. QED BY <1>4, SumIs

LEMMA SumOfEven == Wheel!SumOf(Wheel!Even) = 37 /\ Wheel!Even \in [0..36 -> Nat]
<1> DEFINE T == {n \in 0..36 : SumTo(Wheel!Even)[n] = n + 1}
<1>1. Wheel!Even = [n \in 0..36 |-> 1]
      BY DEF Wheel!Even, Wheel!Pockets, Wheel!WHEEL_SIZE
<1>2. Wheel!Even \in [0..36 -> Int] /\ Wheel!Even \in [0..36 -> Nat] /\ \A n \in 0..36 : Wheel!Even[n] = 1
      BY <1>1
<1>3. SumTo(Wheel!Even)[0] = Wheel!Even[0] /\ \A n \in 1..36 : SumTo(Wheel!Even)[n] = SumTo(Wheel!Even)[n - 1] + Wheel!Even[n]
      BY <1>2, SumToIs
<1>4. 0 \in T
      BY <1>2, <1>3
<1>5. \A n \in 0..35 : n \in T => n + 1 \in T
      BY <1>2, <1>3
<1>6. \A n \in 0..36 : n \in T
  <2> HIDE DEF T
  <2> QED BY <1>4, <1>5, PocketInduction
<1>7. QED BY <1>2, <1>6, SumIs

\* One pocket has the greatest value.
LEMMA GreatestPocket ==
    ASSUME NEW f \in [0..36 -> Int]
    PROVE  \E k \in 0..36 : \A n \in 0..36 : f[n] <= f[k]
<1> DEFINE T == {n \in 0..36 : \E k \in 0..n : \A i \in 0..n : f[i] <= f[k]}
<1>1. 0 \in T
      OBVIOUS
<1>2. ASSUME NEW n \in 0..35, n \in T PROVE n + 1 \in T
  <2>1. PICK k \in 0..n : \A i \in 0..n : f[i] <= f[k]
        BY <1>2
  <2>2. f[n + 1] \in Int /\ f[k] \in Int /\ \A i \in 0..n + 1 : i \in 0..n \/ i = n + 1
        OBVIOUS
  <2>3. CASE f[n + 1] <= f[k]
    <3>1. k \in 0..n + 1 /\ \A i \in 0..n + 1 : f[i] <= f[k]
          BY <2>1, <2>2, <2>3
    <3>2. QED BY <3>1
  <2>4. CASE f[k] <= f[n + 1]
    <3>1. \A i \in 0..n : f[i] \in Int
          OBVIOUS
    <3>2. n + 1 \in 0..n + 1 /\ \A i \in 0..n + 1 : f[i] <= f[n + 1]
          BY <2>1, <2>2, <2>4, <3>1
    <3>3. QED BY <3>2
  <2>5. QED BY <2>2, <2>3, <2>4
<1>3. \A n \in 0..36 : n \in T
  <2> HIDE DEF T
  <2> QED BY <1>1, <1>2, PocketInduction
<1>4. QED BY <1>3

LEMMA GreatestIs ==
    ASSUME NEW f \in [0..36 -> Int], NEW k \in 0..36, \A n \in 0..36 : f[n] <= f[k]
    PROVE  Wheel!Max({f[n] : n \in Wheel!Pockets}) = f[k]
<1> DEFINE S == {f[n] : n \in Wheel!Pockets}
           top == CHOOSE x \in S : \A y \in S : x >= y
<1>1. Wheel!Pockets = 0..36
      BY DEF Wheel!Pockets, Wheel!WHEEL_SIZE
<1>2. f[k] \in S /\ \A y \in S : y \in Int /\ y <= f[k]
      BY <1>1
<1>3. top \in S /\ \A y \in S : top >= y
  <2> HIDE DEF S
  <2>1. \E x \in S : \A y \in S : x >= y
        BY <1>2
  <2>2. QED BY <2>1
<1>4. top = f[k]
      BY <1>2, <1>3
<1>5. QED BY <1>4 DEF Wheel!Max

\* The scan of the weights: what it leaves of the target and where it ends.
Scan(w) == CHOOSE g : g = [pos \in Wheel!Pockets \X Int |->
    IF pos[2] - w[pos[1]] * Resolution < 0 \/ pos[1] = Wheel!WHEEL_SIZE - 1 THEN pos[1]
    ELSE g[<<pos[1] + 1, pos[2] - w[pos[1]] * Resolution>>]]

LEMMA PickIs ==
    ASSUME NEW w, NEW roll
    PROVE  Wheel!pickWinningNumber(roll, Wheel!Weighted(w)) = Scan(w)[<<0, roll * Wheel!SumOf(w)>>]
BY DEF Wheel!pickWinningNumber, Scan, Wheel!Weighted, Wheel!Total

\* The scan is well defined: it ends in the first pocket whose sum passes the target.
LEMMA ScanIs ==
    ASSUME NEW w \in [0..36 -> Nat], Resolution \in Nat, NEW n \in 0..36, NEW target \in Int
    PROVE  Scan(w)[<<n, target>>] = IF target - w[n] * Resolution < 0 \/ n = 36 THEN n
                                ELSE Scan(w)[<<n + 1, target - w[n] * Resolution>>]
<1> DEFINE P == SumTo(w)
           K(k, t) == {i \in k..36 : i = 36 \/ t < Resolution * (P[i] - (P[k] - w[k]))}
           First(S) == CHOOSE i \in S : \A j \in S : i <= j
           F == [pos \in (0..36) \X Int |-> First(K(pos[1], pos[2]))]
<1>1. Wheel!Pockets = 0..36
      BY DEF Wheel!Pockets, Wheel!WHEEL_SIZE
<1>2. P \in [0..36 -> Int] /\ \A k \in 1..36 : P[k] = P[k - 1] + w[k]
      BY SumToIs
<1> HIDE DEF P
<1>3. ASSUME NEW k \in 0..36, NEW t \in Int
      PROVE  First(K(k, t)) = IF t - w[k] * Resolution < 0 \/ k = 36 THEN k
                              ELSE First(K(k + 1, t - w[k] * Resolution))
  <2>1. Resolution * (P[k] - (P[k] - w[k])) = w[k] * Resolution
    <3>1. P[k] \in Int /\ w[k] \in Int
          BY <1>2
    <3>2. P[k] - (P[k] - w[k]) = w[k]
          BY <3>1
    <3>3. QED BY <3>1, <3>2
  <2>2. w[k] * Resolution \in Int
        OBVIOUS
  <2>3. CASE t - w[k] * Resolution < 0 \/ k = 36
    <3>1. k \in K(k, t)
          BY <2>1, <2>2, <2>3
    <3>2. \A j \in K(k, t) : j \in Int /\ k <= j
          OBVIOUS
    <3> DEFINE S == K(k, t)
    <3>3. k \in S /\ k \in Int /\ \A j \in S : j \in Int /\ k <= j
          BY <3>1, <3>2
    <3> HIDE DEF S, K
    <3>4. First(S) \in S /\ \A j \in S : First(S) <= j
          BY <3>3
    <3>5. First(S) = k
      <4> DEFINE f == First(S)
      <4>1. f \in S /\ f <= k
            BY <3>3, <3>4
      <4> HIDE DEF f, First
      <4>2. f \in Int /\ k <= f
            BY <3>3, <4>1
      <4>3. f = k
            BY <3>3, <4>1, <4>2
      <4>4. QED BY <4>3 DEF f
    <3>6. QED BY <2>3, <3>5 DEF S
  <2>4. CASE ~(t - w[k] * Resolution < 0 \/ k = 36)
    <3>1. k + 1 \in 0..36 /\ P[k + 1] - w[k + 1] = P[k]
      <4>1. k + 1 \in 1..36 /\ (k + 1) - 1 = k /\ P[k] \in Int /\ w[k + 1] \in Int
            BY <1>2, <2>4
      <4>2. P[k + 1] = P[k] + w[k + 1]
            BY <1>2, <4>1
      <4>3. QED BY <4>1, <4>2
    <3>2. ASSUME NEW i \in k + 1..36
          PROVE  t < Resolution * (P[i] - (P[k] - w[k])) <=> t - w[k] * Resolution < Resolution * (P[i] - P[k])
      <4>1. P[i] \in Int /\ P[k] \in Int /\ w[k] \in Int /\ Resolution \in Int
            BY <1>2
      <4> DEFINE a == P[i] - P[k]
                 b == w[k]
      <4>2. P[i] - (P[k] - w[k]) = a + b /\ a \in Int /\ b \in Int
            BY <4>1
      <4> HIDE DEF a, b
      <4>3. Resolution * (a + b) = Resolution * a + b * Resolution
            BY <4>1, <4>2
      <4>4. Resolution * a \in Int /\ b * Resolution \in Int
            BY <4>1, <4>2
      <4>5. t < Resolution * (a + b) <=> t - b * Resolution < Resolution * a
            BY <4>3, <4>4
      <4>6. QED BY <4>2, <4>5 DEF a, b
    <3>3. k \notin K(k, t)
          BY <2>1, <2>2, <2>4
    <3>4. K(k, t) = K(k + 1, t - w[k] * Resolution)
      <4> DEFINE rest == t - w[k] * Resolution
      <4>1. \A i \in k..36 : i = k \/ i \in k + 1..36
            OBVIOUS
      <4>2. K(k + 1, rest) = {i \in k + 1..36 : i = 36 \/ rest < Resolution * (P[i] - P[k])}
            BY <3>1
      <4>3. K(k, t) = {i \in k + 1..36 : i = 36 \/ t < Resolution * (P[i] - (P[k] - w[k]))}
        <5>1. \A i \in K(k, t) : i \in k + 1..36
              BY <3>3, <4>1
        <5>2. k + 1..36 \subseteq k..36
              OBVIOUS
        <5>3. QED BY <5>1, <5>2
      <4>4. QED BY <3>2, <4>2, <4>3
    <3> HIDE DEF K, First
    <3>5. First(K(k, t)) = First(K(k + 1, t - w[k] * Resolution))
          BY <3>4
    <3>6. QED BY <2>4, <3>5
  <2>5. QED BY <2>3, <2>4
<1> DEFINE Step(g, k, t) == IF t - w[k] * Resolution < 0 \/ k = 36 THEN k ELSE g[<<k + 1, t - w[k] * Resolution>>]
<1>4. F = [pos \in (0..36) \X Int |-> Step(F, pos[1], pos[2])]
  <2>1. ASSUME NEW pos \in (0..36) \X Int
        PROVE  First(K(pos[1], pos[2])) = Step(F, pos[1], pos[2])
    <3> DEFINE k == pos[1]
               t == pos[2]
    <3>0. k \in 0..36 /\ t \in Int
          OBVIOUS
    <3> HIDE DEF First, K, k, t
    <3>1. CASE t - w[k] * Resolution < 0 \/ k = 36
          BY <1>3, <3>0, <3>1 DEF k, t
    <3>2. CASE ~(t - w[k] * Resolution < 0 \/ k = 36)
      <4>1. k + 1 \in 0..36 /\ t - w[k] * Resolution \in Int
            BY <3>0, <3>2
      <4>2. F[<<k + 1, t - w[k] * Resolution>>] = First(K(k + 1, t - w[k] * Resolution))
            BY <4>1
      <4> HIDE DEF F
      <4>3. QED BY <1>3, <3>0, <3>2, <4>2 DEF k, t
    <3>3. QED BY <3>1, <3>2
  <2> DEFINE D == (0..36) \X Int
             f(pos) == First(K(pos[1], pos[2]))
             g(pos) == Step(F, pos[1], pos[2])
  <2>2. \A pos \in D : f(pos) = g(pos)
        BY <2>1
  <2> HIDE DEF D, f, g
  <2>3. [pos \in D |-> f(pos)] = [pos \in D |-> g(pos)]
        BY <2>2
  <2>4. QED BY <2>3, Zenon DEF D, f, g
<1>5. Scan(w) = [pos \in (0..36) \X Int |-> Step(Scan(w), pos[1], pos[2])]
  <2> HIDE DEF F
  <2>1. \E g : g = [pos \in (0..36) \X Int |-> Step(g, pos[1], pos[2])]
        BY <1>4
  <2>2. Scan(w) = CHOOSE g : g = [pos \in (0..36) \X Int |-> Step(g, pos[1], pos[2])]
        BY <1>1 DEF Scan, Wheel!WHEEL_SIZE
  <2>3. QED BY <2>1, <2>2
<1>6. Scan(w)[<<n, target>>] = Step(Scan(w), n, target)
  <2> DEFINE s == Scan(w)
  <2>1. s = [pos \in (0..36) \X Int |-> Step(s, pos[1], pos[2])]
        BY <1>5
  <2> HIDE DEF s
  <2>2. QED BY <2>1 DEF s
<1>7. QED BY <1>6

\* The weights up to a pocket only grow, and end in the total.
LEMMA SumsGrow ==
    ASSUME NEW w \in [0..36 -> Nat]
    PROVE  /\ SumTo(w) \in [0..36 -> Nat]
           /\ \A n \in 0..36 : w[n] <= SumTo(w)[n] /\ \A k \in n + 1..36 : SumTo(w)[n] <= SumTo(w)[k] - w[k]
<1> DEFINE P == SumTo(w)
           T == {n \in 0..36 : P[n] \in Nat /\ w[n] <= P[n] /\ \A i \in 0..n - 1 : P[i] <= P[n] - w[n]}
<1>1. P \in [0..36 -> Int] /\ P[0] = w[0] /\ \A n \in 1..36 : P[n] = P[n - 1] + w[n]
      BY SumToIs
<1> HIDE DEF P
<1>2. 0 \in T
      BY <1>1
<1>3. ASSUME NEW n \in 0..35, n \in T PROVE n + 1 \in T
  <2>1. n + 1 \in 1..36 /\ (n + 1) - 1 = n /\ P[n + 1] = P[n] + w[n + 1] /\ w[n + 1] \in Nat /\ w[n] \in Nat /\ P[n] \in Nat
        BY <1>1, <1>3
  <2>2. \A i \in 0..n : i = n \/ i \in 0..n - 1
        OBVIOUS
  <2>3. \A i \in 0..n : P[i] \in Int /\ P[i] <= P[n]
        BY <1>1, <1>3, <2>1, <2>2
  <2>4. QED BY <2>1, <2>3
<1>4. \A n \in 0..36 : n \in T
  <2> HIDE DEF T
  <2> QED BY <1>2, <1>3, PocketInduction
<1>5. P \in [0..36 -> Nat]
      BY <1>1, <1>4
<1>6. ASSUME NEW n \in 0..36, NEW k \in n + 1..36 PROVE P[n] <= P[k] - w[k]
  <2>1. k \in 0..36 /\ n \in 0..k - 1
        OBVIOUS
  <2>2. k \in T
        BY <1>4, <2>1
  <2>3. QED BY <2>1, <2>2
<1>7. QED BY <1>4, <1>5, <1>6 DEF P

\* A target is scanned to the pocket whose weights it falls into.
LEMMA ScanEnds ==
    ASSUME NEW w \in [0..36 -> Nat], Resolution \in Nat, NEW k \in 0..36, NEW t \in Int,
           (SumTo(w)[k] - w[k]) * Resolution <= t, t < SumTo(w)[k] * Resolution
    PROVE  Scan(w)[<<0, t>>] = k
<1> DEFINE P == SumTo(w)
           T == {n \in 0..36 : n <= k => Scan(w)[<<0, t>>] = Scan(w)[<<n, t - (P[n] - w[n]) * Resolution>>]}
<1>1. /\ P \in [0..36 -> Nat] /\ P[0] = w[0] /\ \A n \in 1..36 : P[n] = P[n - 1] + w[n]
      /\ \A n \in 0..36, i \in 0..36 : n < i => P[n] <= P[i] - w[i]
  <2>1. w \in [0..36 -> Int]
        OBVIOUS
  <2>2. QED BY <2>1, SumToIs, SumsGrow
<1>2. 0 \in T
  <2>1. P[0] - w[0] = 0 /\ 0 * Resolution = 0 /\ t - 0 = t
        BY <1>1
  <2>2. QED BY <2>1
<1> HIDE DEF P
<1>3. ASSUME NEW n \in 0..35, n \in T PROVE n + 1 \in T
  <2> SUFFICES ASSUME n + 1 <= k
               PROVE  Scan(w)[<<0, t>>] = Scan(w)[<<n + 1, t - (P[n + 1] - w[n + 1]) * Resolution>>]
      OBVIOUS
  <2> DEFINE target == t - (P[n] - w[n]) * Resolution
  <2>1. Scan(w)[<<0, t>>] = Scan(w)[<<n, target>>]
        BY <1>3
  <2>2. n + 1 \in 1..36 /\ (n + 1) - 1 = n /\ n \in 0..36 /\ P[n] \in Nat /\ w[n] \in Nat /\ w[n + 1] \in Nat
        BY <1>1
  <2>3. P[n + 1] - w[n + 1] = P[n]
        BY <1>1, <2>2
  <2>4. target - w[n] * Resolution = t - P[n] * Resolution /\ target \in Int
    <3> DEFINE a == P[n]
               b == w[n]
    <3>1. a \in Int /\ b \in Int
          BY <2>2
    <3> HIDE DEF a, b
    <3>2. (a - b) * Resolution = a * Resolution - b * Resolution /\ (a - b) * Resolution \in Int
          /\ a * Resolution \in Int /\ b * Resolution \in Int
          BY <3>1
    <3>3. (t - (a - b) * Resolution) - b * Resolution = t - a * Resolution
          BY <3>2
    <3>4. QED BY <3>2, <3>3 DEF a, b
  <2>5. P[n] * Resolution <= t
    <3>0. n < k /\ n \in 0..36
          BY <2>2
    <3>1. P[n] <= P[k] - w[k] /\ P[k] \in Nat /\ w[k] \in Nat
          BY <1>1, <3>0
    <3> DEFINE a == P[n]
               b == P[k] - w[k]
    <3>2. a \in Int /\ b \in Int /\ a <= b
          BY <2>2, <3>1
    <3>3. b * Resolution <= t
          BY DEF P
    <3> HIDE DEF a, b
    <3>4. a * Resolution <= b * Resolution /\ a * Resolution \in Int /\ b * Resolution \in Int
          BY <3>2
    <3>5. a * Resolution <= t
          BY <3>3, <3>4
    <3>6. QED BY <3>5 DEF a
  <2>6. ~(target - w[n] * Resolution < 0 \/ n = 36)
    <3>1. P[n] * Resolution \in Int
          BY <2>2
    <3>2. QED BY <2>4, <2>5, <3>1
  <2> HIDE DEF target
  <2>7. Scan(w)[<<n, target>>] = Scan(w)[<<n + 1, target - w[n] * Resolution>>]
        BY <2>2, <2>4, <2>6, ScanIs
  <2>8. QED BY <2>1, <2>3, <2>4, <2>7
<1>4. \A n \in 0..36 : n \in T
  <2> HIDE DEF T
  <2> QED BY <1>2, <1>3, PocketInduction
<1>5. Scan(w)[<<0, t>>] = Scan(w)[<<k, t - (P[k] - w[k]) * Resolution>>]
  <2>1. k \in T
    <3> HIDE DEF T
    <3> QED BY <1>4
  <2>2. k <= k
        OBVIOUS
  <2>3. QED BY <2>1, <2>2
<1> DEFINE last == t - (P[k] - w[k]) * Resolution
<1>6. last - w[k] * Resolution < 0 /\ last \in Int
  <2> DEFINE a == P[k]
             b == w[k]
  <2>1. a \in Int /\ b \in Int
        BY <1>1
  <2>2. t < a * Resolution
        BY DEF P
  <2> HIDE DEF a, b
  <2>3. (a - b) * Resolution = a * Resolution - b * Resolution /\ (a - b) * Resolution \in Int
        /\ a * Resolution \in Int /\ b * Resolution \in Int
        BY <2>1
  <2>4. (t - (a - b) * Resolution) - b * Resolution < 0
        BY <2>2, <2>3
  <2>5. QED BY <2>3, <2>4 DEF a, b
<1> HIDE DEF last
<1>7. Scan(w)[<<k, last>>] = k
      BY <1>6, ScanIs
<1>8. QED BY <1>5, <1>7 DEF last

\* Each target falls into the weights of one pocket.
LEMMA TargetFalls ==
    ASSUME NEW w \in [0..36 -> Nat], NEW r \in Nat, NEW t \in Nat, t < SumTo(w)[36] * r
    PROVE  \E k \in 0..36 : (SumTo(w)[k] - w[k]) * r <= t /\ t < SumTo(w)[k] * r
<1> DEFINE P == SumTo(w)
           T == {n \in 0..36 : t < P[n] * r => \E k \in 0..n : (P[k] - w[k]) * r <= t /\ t < P[k] * r}
<1>1. P \in [0..36 -> Int] /\ P[0] = w[0] /\ \A n \in 1..36 : P[n] = P[n - 1] + w[n]
      BY SumToIs
<1> HIDE DEF P
<1>2. 0 \in T
  <2>1. P[0] - w[0] = 0 /\ 0 * r = 0
        BY <1>1
  <2>2. QED BY <2>1
<1>3. ASSUME NEW n \in 0..35, n \in T PROVE n + 1 \in T
  <2> SUFFICES ASSUME t < P[n + 1] * r
               PROVE  \E k \in 0..n + 1 : (P[k] - w[k]) * r <= t /\ t < P[k] * r
      OBVIOUS
  <2>1. n + 1 \in 1..36 /\ (n + 1) - 1 = n /\ P[n] \in Int /\ w[n + 1] \in Int /\ P[n + 1] = P[n] + w[n + 1]
        BY <1>1
  <2>2. P[n + 1] - w[n + 1] = P[n] /\ P[n] * r \in Int
        BY <2>1
  <2>3. CASE P[n] * r <= t
        BY <2>2, <2>3
  <2>4. CASE t < P[n] * r
    <3>1. \E k \in 0..n : (P[k] - w[k]) * r <= t /\ t < P[k] * r
          BY <1>3, <2>4
    <3>2. QED BY <3>1
  <2>5. QED BY <2>2, <2>3, <2>4
<1>4. \A n \in 0..36 : n \in T
  <2> HIDE DEF T
  <2> QED BY <1>2, <1>3, PocketInduction
<1>5. 36 \in T
  <2> HIDE DEF T
  <2> QED BY <1>4
<1>6. QED BY <1>5 DEF P

LEMMA SameDraw ==
    ASSUME NEW w, NEW roll, NEW total, NEW k, total = Wheel!SumOf(w), Scan(w)[<<0, roll * total>>] = k
    PROVE  Wheel!pickWinningNumber(roll, Wheel!Weighted(w)) = k
BY PickIs

\* A pocket is drawn as often as its weight says: the rolls that draw it are those between two
\* multiples of the steps one weight takes.
LEMMA WeightedDraws ==
    ASSUME NEW w \in [0..36 -> Nat], Resolution \in Nat, NEW q \in Nat,
           Resolution = Wheel!SumOf(w) * q, Wheel!SumOf(w) >= 1, NEW n \in 0..36
    PROVE  {roll \in 0..Resolution - 1 : Wheel!pickWinningNumber(roll, Wheel!Weighted(w)) = n}
               = ((SumTo(w)[n] - w[n]) * q)..(SumTo(w)[n] * q - 1)
<1> DEFINE P == SumTo(w)
           total == Wheel!SumOf(w)
<1>1. /\ P \in [0..36 -> Nat] /\ total = P[36] /\ total \in Nat
      /\ \A k \in 0..36 : w[k] <= P[k] /\ P[k] <= total
      /\ \A k \in 0..36, i \in 0..36 : k < i => P[k] <= P[i] - w[i]
  <2>1. P \in [0..36 -> Nat] /\ total = P[36]
        BY SumsGrow, SumIs
  <2>2. \A k \in 0..36 : w[k] <= P[k]
        BY SumsGrow
  <2>3. \A k \in 0..36, i \in 0..36 : k < i => P[k] <= P[i] - w[i]
        BY SumsGrow
  <2>4. ASSUME NEW k \in 0..36 PROVE P[k] <= P[36]
    <3>1. CASE k = 36
          BY <2>1, <3>1
    <3>2. CASE k < 36
      <4>1. P[k] <= P[36] - w[36] /\ w[36] \in Nat /\ P[36] \in Nat /\ P[k] \in Nat
            BY <2>1, <2>3, <3>2
      <4>2. QED BY <4>1
    <3>3. QED BY <3>1, <3>2
  <2> HIDE DEF P, total
  <2>5. total \in Nat /\ \A k \in 0..36 : P[k] <= total
        BY <2>1, <2>4
  <2>6. QED BY <2>1, <2>2, <2>3, <2>5
<1>2. Resolution = total * q
      OBVIOUS
<1>3. total >= 1
      OBVIOUS
<1> HIDE DEF P, total
\* A roll is within the steps of a weight when its target is.
<1>4. ASSUME NEW x \in Nat, NEW roll \in Nat
      PROVE  x * q <= roll <=> x * Resolution <= roll * total
  <2>1. x * Resolution = (x * q) * total
        BY <1>1, <1>2
  <2> DEFINE a == x * q
  <2>2. a \in Nat
        OBVIOUS
  <2> HIDE DEF a
  <2>3. a <= roll => a * total <= roll * total
        BY <1>1, <2>2
  <2>4. roll < a => roll * total < a * total
        BY <1>1, <1>3, <2>2
  <2>5. a * total \in Int /\ roll * total \in Int
        BY <1>1, <2>2
  <2>6. a <= roll <=> a * total <= roll * total
        BY <2>2, <2>3, <2>4, <2>5
  <2>7. QED BY <2>1, <2>6 DEF a
<1>5. ASSUME NEW k \in 0..36, NEW roll \in Nat, (P[k] - w[k]) * q <= roll, roll < P[k] * q
      PROVE  Wheel!pickWinningNumber(roll, Wheel!Weighted(w)) = k
  <2>1. P[k] - w[k] \in Nat /\ P[k] \in Nat
        BY <1>1
  <2>2. (P[k] - w[k]) * Resolution <= roll * total
        BY <1>4, <1>5, <2>1
  <2>3. ~(P[k] * q <= roll)
        BY <1>5, <2>1
  <2>4. ~(P[k] * Resolution <= roll * total)
        BY <1>4, <2>1, <2>3
  <2>5. roll * total \in Int /\ P[k] * Resolution \in Int
        BY <1>1, <2>1
  <2>6. roll * total < P[k] * Resolution
        BY <2>4, <2>5
  <2>7. Scan(w)[<<0, roll * total>>] = k
        BY <2>2, <2>5, <2>6, ScanEnds DEF P
  <2>8. QED BY <2>7, SameDraw DEF total
<1>6. ASSUME NEW roll \in 0..Resolution - 1
      PROVE  \E k \in 0..36 : (P[k] - w[k]) * q <= roll /\ roll < P[k] * q
  <2>1. roll \in Nat /\ roll < P[36] * q
        BY <1>1, <1>2
  <2>2. QED BY <2>1, TargetFalls DEF P
<1>7. ASSUME NEW roll \in 0..Resolution - 1
      PROVE  Wheel!pickWinningNumber(roll, Wheel!Weighted(w)) = n <=> (P[n] - w[n]) * q <= roll /\ roll < P[n] * q
  <2>1. roll \in Nat
        OBVIOUS
  <2>2. QED BY <1>5, <1>6, <2>1
<1>8. (P[n] - w[n]) * q \in Nat /\ P[n] * q \in Nat /\ P[n] * q <= Resolution
  <2>1. P[n] - w[n] \in Nat /\ P[n] \in Nat /\ P[n] <= total
        BY <1>1
  <2>2. P[n] * q <= total * q
        BY <1>1, <2>1
  <2>3. QED BY <1>2, <2>1, <2>2
<1> DEFINE a == (P[n] - w[n]) * q
           b == P[n] * q
<1>9. \A roll \in a..b - 1 : roll \in 0..Resolution - 1
      BY <1>8
<1>10. {roll \in 0..Resolution - 1 : a <= roll /\ roll < b} = a..b - 1
  <2>1. a \in Nat /\ b \in Nat /\ b <= Resolution
        BY <1>8
  <2> HIDE DEF a, b
  <2>2. QED BY <2>1
<1>11. {roll \in 0..Resolution - 1 : Wheel!pickWinningNumber(roll, Wheel!Weighted(w)) = n} = {roll \in 0..Resolution - 1 : a <= roll /\ roll < b}
       BY <1>7
<1>12. QED BY <1>10, <1>11 DEF P

LEMMA Division ==
    ASSUME NEW a \in Nat, NEW n \in Nat \ {0}
    PROVE  a \div n \in Int /\ a % n \in 0..n - 1 /\ a = n * (a \div n) + (a % n)
OBVIOUS

LEMMA FairDraws ==
    ASSUME Resolution \in Nat, NEW q \in Nat, Resolution = 37 * q, NEW n \in 0..36
    PROVE  {roll \in 0..Resolution - 1 : Wheel!pickWinningNumber(roll, Wheel!FairPolicy) = n} = (n * q)..((n + 1) * q - 1)
<1>1. \A roll : Wheel!pickWinningNumber(roll, Wheel!FairPolicy) = (roll * 37) \div Resolution
      BY DEF Wheel!pickWinningNumber, Wheel!FairPolicy, Wheel!WHEEL_SIZE
<1>2. n * q \in Nat /\ (n + 1) * q = n * q + q /\ (n + 1) * q <= 37 * q
      OBVIOUS
<1>3. ASSUME NEW roll \in 0..Resolution - 1
      PROVE  (roll * 37) \div Resolution = n <=> n * q <= roll /\ roll < (n + 1) * q
  <2> DEFINE d == (roll * 37) \div Resolution
             m == (roll * 37) % Resolution
  <2>1. Resolution \in Nat \ {0} /\ roll * 37 \in Nat
        OBVIOUS
  <2>2. d \in Int /\ m \in 0..Resolution - 1 /\ roll * 37 = Resolution * d + m
        BY <2>1, Division
  <2> HIDE DEF d, m
  <2> DEFINE e == d * q
             b == n * q
  <2>3. Resolution * d = 37 * e /\ e \in Int /\ b \in Int
        BY <2>2
  <2>4. d = n => e = b
        OBVIOUS
  <2>5. d < n => e + q <= b
    <3>1. ASSUME d < n PROVE (d + 1) * q <= n * q
          BY <2>2, <3>1
    <3>2. (d + 1) * q = d * q + q
          BY <2>2
    <3>3. QED BY <3>1, <3>2
  <2>6. n < d => b + q <= e
    <3>1. ASSUME n < d PROVE (n + 1) * q <= d * q
          BY <2>2, <3>1
    <3>2. (n + 1) * q = n * q + q
          OBVIOUS
    <3>3. QED BY <3>1, <3>2
  <2>7. (n + 1) * q = b + q
        BY <1>2
  <2> HIDE DEF e, b
  <2>8. d = n => b <= roll /\ roll < b + q
        BY <2>2, <2>3, <2>4
  <2>9. d < n => ~(b <= roll)
        BY <2>2, <2>3, <2>5
  <2>10. n < d => ~(roll < b + q)
        BY <2>2, <2>3, <2>6
  <2>11. d = n <=> b <= roll /\ roll < b + q
        BY <2>2, <2>8, <2>9, <2>10
  <2>12. QED BY <2>7, <2>11 DEF d, b
<1> DEFINE a == n * q
           b == (n + 1) * q
<1>4. {roll \in 0..Resolution - 1 : a <= roll /\ roll < b} = a..b - 1
  <2>1. a \in Nat /\ b \in Nat /\ b <= Resolution
        BY <1>2
  <2> HIDE DEF a, b
  <2>2. QED BY <2>1
<1>5. {roll \in 0..Resolution - 1 : Wheel!pickWinningNumber(roll, Wheel!FairPolicy) = n} = {roll \in 0..Resolution - 1 : a <= roll /\ roll < b}
      BY <1>1, <1>3
<1>6. QED BY <1>4, <1>5

\* What policies are in force: equal chances, or a table that was validated, of whose total the
\* resolution of the rolls is a multiple.
Drawable(p) ==
    LET total == Wheel!SumOf(p.weights)
    IN  /\ p = Wheel!FairPolicy \/ p = Wheel!Weighted(p.weights)
        /\ p.weights \in [0..36 -> Nat] /\ total \in Nat \ {0}
        /\ \E q \in Nat : Resolution = total * q

LEMMA DrawnByWeight ==
    ASSUME Resolution \in Nat, NEW p, Drawable(p), NEW n \in 0..36
    PROVE  LET drawn == Cardinality({roll \in 0..Resolution - 1 : Wheel!pickWinningNumber(roll, p) = n})
           IN  drawn \in Nat /\ drawn * Wheel!SumOf(p.weights) = p.weights[n] * Resolution
<1> DEFINE w == p.weights
           drawn == Cardinality({roll \in 0..Resolution - 1 : Wheel!pickWinningNumber(roll, p) = n})
<1>1. PICK q \in Nat : Resolution = Wheel!SumOf(w) * q
      BY DEF Drawable
<1>2. w \in [0..36 -> Nat] /\ Wheel!SumOf(w) \in Nat /\ Wheel!SumOf(w) >= 1 /\ w[n] \in Nat
      BY DEF Drawable
<1>3. w[n] * q \in Nat
      BY <1>2
<1>4. drawn = w[n] * q
  <2>1. CASE p = Wheel!FairPolicy
    <3>1. w[n] = 1 /\ Wheel!SumOf(w) = 37
      <4>1. w = Wheel!Even
            BY <2>1 DEF Wheel!FairPolicy
      <4>2. QED BY <4>1, SumOfEven DEF Wheel!Even, Wheel!Pockets, Wheel!WHEEL_SIZE
    <3>2. {roll \in 0..Resolution - 1 : Wheel!pickWinningNumber(roll, p) = n} = (n * q)..((n + 1) * q - 1)
          BY <1>1, <2>1, <3>1, FairDraws
    <3>3. n * q \in Nat /\ (n + 1) * q = n * q + q
          OBVIOUS
    <3>4. Cardinality((n * q)..((n + 1) * q - 1)) = q
      <4> DEFINE a == n * q
                 b == (n + 1) * q
      <4>1. a \in Int /\ b - 1 \in Int /\ b = a + q
            BY <3>3
      <4> HIDE DEF a, b
      <4>2. Cardinality(a..b - 1) = IF a > b - 1 THEN 0 ELSE (b - 1) - a + 1
            BY <4>1, FS_Interval
      <4>3. Cardinality(a..b - 1) = q
            BY <4>1, <4>2
      <4>4. QED BY <4>3 DEF a, b
    <3>5. drawn = q
          BY <3>2, <3>4, Zenon
    <3> HIDE DEF w, drawn
    <3>6. QED BY <3>1, <3>5
  <2>2. CASE p = Wheel!Weighted(w)
    <3> DEFINE a == (SumTo(w)[n] - w[n]) * q
               b == SumTo(w)[n] * q
    <3>1. {roll \in 0..Resolution - 1 : Wheel!pickWinningNumber(roll, Wheel!Weighted(w)) = n} = a..b - 1
          BY <1>1, <1>2, WeightedDraws
    <3>2. a \in Int /\ b - 1 \in Int /\ b = a + w[n] * q
      <4>1. SumTo(w)[n] \in Nat
            BY <1>2, SumsGrow
      <4> DEFINE x == SumTo(w)[n]
                 y == w[n]
      <4>2. x \in Int /\ y \in Int
            BY <1>2, <4>1
      <4> HIDE DEF x, y
      <4>3. (x - y) * q \in Int /\ x * q \in Int /\ x * q = (x - y) * q + y * q
            BY <4>2
      <4>4. QED BY <4>3 DEF x, y
    <3> HIDE DEF a, b
    <3>3. Cardinality(a..b - 1) = IF a > b - 1 THEN 0 ELSE (b - 1) - a + 1
          BY <3>2, FS_Interval
    <3>4. Cardinality(a..b - 1) = w[n] * q
          BY <1>3, <3>2, <3>3
    <3> HIDE DEF w
    <3>5. QED BY <2>2, <3>1, <3>4
  <2>3. QED BY <2>1, <2>2 DEF Drawable
<1>5. (w[n] * q) * Wheel!SumOf(w) = w[n] * Resolution
      BY <1>1, <1>2
<1>6. QED BY <1>3, <1>4, <1>5

LEMMA WheelCardinality == \A S : Wheel!Cardinality(S) = Cardinality(S)
BY DEF Wheel!Cardinality, Cardinality

\* What is drawn by its weight pays what is estimated.
LEMMA PaysByWeight ==
    ASSUME Resolution \in Nat, Drawable(wheelPolicy), payouts \in [Wheel!EvenMoney \cup {"NUMBER"} -> Nat]
    PROVE  Wheel!PaysAsEstimated
<1> DEFINE drawn == [n \in 0..36 |-> Cardinality(Wheel!Draws(n))]
           w == wheelPolicy.weights
           total == Wheel!SumOf(w)
           R == Resolution
           returned(bet) == Wheel!Returned(drawn, bet)
           number(n) == [type |-> "NUMBER", number |-> n]
           picked == [n \in 0..36 |-> returned(number(n))]
<1>1. Wheel!Pockets = 0..36
      BY DEF Wheel!Pockets, Wheel!WHEEL_SIZE
<1>2. total \in Nat /\ total >= 1 /\ w \in [0..36 -> Nat] /\ R \in Nat
      BY DEF Drawable
<1>3. /\ drawn \in [0..36 -> Nat]
      /\ \A n \in 0..36 : drawn[n] * total = w[n] * R
      BY DrawnByWeight DEF Wheel!Draws
<1> HIDE DEF drawn, w, total, R
\* The bets on a category.
<1>4. ASSUME NEW bet \in Wheel!Bets, bet.type \in Wheel!EvenMoney
      PROVE  returned(bet) * total = Wheel!CategoryRtp(bet.type, wheelPolicy, payouts) * R
  <2> DEFINE m == payouts[bet.type] + 1
             wins(n) == Wheel!Wins([type |-> bet.type, number |-> Wheel!NoNumber], n)
             f == [n \in 0..36 |-> drawn[n] * Wheel!settleBet(bet, 1, n, payouts)]
             v == [n \in 0..36 |-> IF wins(n) THEN w[n] ELSE 0]
             g == [n \in 0..36 |-> total * f[n]]
  <2>1. bet = [type |-> bet.type, number |-> Wheel!NoNumber]
    <3>1. bet.type # "NUMBER"
          BY <1>4 DEF Wheel!EvenMoney
    <3>2. QED BY <3>1 DEF Wheel!Bets
  <2>2. m \in Nat
        BY <1>4
  <2> HIDE DEF m
  <2>3. \A n \in 0..36 : Wheel!settleBet(bet, 1, n, payouts) = IF wins(n) THEN m ELSE 0
    <3>1. 1 * (payouts[bet.type] + 1) = m
          BY <2>2 DEF m
    <3>2. QED BY <2>1, <3>1 DEF Wheel!settleBet, Wheel!FullPayout
  <2> HIDE DEF wins
  <2>4. /\ f \in [0..36 -> Int] /\ v \in [0..36 -> Int] /\ g \in [0..36 -> Int] /\ m * R \in Int
    <3>1. ASSUME NEW n \in 0..36
          PROVE  drawn[n] * Wheel!settleBet(bet, 1, n, payouts) \in Int /\ (IF wins(n) THEN w[n] ELSE 0) \in Int
      <4>1. Wheel!settleBet(bet, 1, n, payouts) \in Nat /\ drawn[n] \in Nat /\ w[n] \in Nat
            BY <1>2, <1>3, <2>2, <2>3
      <4>2. QED BY <4>1
    <3>2. f \in [0..36 -> Int] /\ v \in [0..36 -> Int]
          BY <3>1
    <3> HIDE DEF f
    <3>3. g \in [0..36 -> Int]
          BY <1>2, <3>2
    <3>4. m * R \in Int
          BY <1>2, <2>2
    <3>5. QED BY <3>2, <3>3, <3>4
  <2>5. \A n \in 0..36 : g[n] = (m * R) * v[n]
    <3> SUFFICES ASSUME NEW n \in 0..36 PROVE g[n] = (m * R) * v[n]
        OBVIOUS
    <3>1. drawn[n] \in Nat /\ w[n] \in Nat /\ drawn[n] * total = w[n] * R
          BY <1>2, <1>3
    <3>2. CASE wins(n)
      <4>1. g[n] = total * (drawn[n] * m) /\ v[n] = w[n]
            BY <2>3, <3>2
      <4>2. total * (drawn[n] * m) = (drawn[n] * total) * m
            BY <1>2, <2>2, <3>1
      <4>3. (w[n] * R) * m = (m * R) * w[n]
            BY <1>2, <2>2, <3>1
      <4>4. QED BY <3>1, <4>1, <4>2, <4>3
    <3>3. CASE ~wins(n)
      <4>1. g[n] = total * (drawn[n] * 0) /\ v[n] = 0
            BY <2>3, <3>3
      <4>2. QED BY <1>2, <2>4, <3>1, <4>1
    <3>4. QED BY <3>2, <3>3
  <2>6. \A n \in 0..36 : g[n] = total * f[n]
        OBVIOUS
  <2>7. returned(bet) = Wheel!SumOf(f)
        BY <1>1 DEF Wheel!Returned
  <2>8. Wheel!CategoryRtp(bet.type, wheelPolicy, payouts) = m * Wheel!SumOf(v)
        BY <1>1 DEF Wheel!CategoryRtp, m, wins, w
  <2> HIDE DEF f, v, g
  <2>9. Wheel!SumOf(g) = total * Wheel!SumOf(f) /\ Wheel!SumOf(g) = (m * R) * Wheel!SumOf(v)
    <3>1. total \in Int
          BY <1>2
    <3>2. Wheel!SumOf(g) = total * Wheel!SumOf(f)
          BY <2>4, <2>6, <3>1, SumOfMultiple, Zenon
    <3>3. Wheel!SumOf(g) = (m * R) * Wheel!SumOf(v)
          BY <2>4, <2>5, SumOfMultiple, Zenon
    <3>4. QED BY <3>2, <3>3
  <2>10. Wheel!SumOf(f) \in Int /\ Wheel!SumOf(v) \in Int
         BY <2>4, SumIs, SumToIs
  <2>11. Wheel!SumOf(f) * total = total * Wheel!SumOf(f) /\ (m * R) * Wheel!SumOf(v) = (m * Wheel!SumOf(v)) * R
         BY <1>2, <2>2, <2>10
  <2>12. QED BY <2>7, <2>8, <2>9, <2>11
\* The bets on a number.
<1> DEFINE m == payouts["NUMBER"] + 1
<1>5. m \in Nat
      OBVIOUS
<1>6. ASSUME NEW n \in 0..36 PROVE returned(number(n)) = m * drawn[n]
  <2> DEFINE f == [k \in 0..36 |-> drawn[k] * Wheel!settleBet(number(n), 1, k, payouts)]
  <2>1. \A k \in 0..36 : Wheel!settleBet(number(n), 1, k, payouts) = IF k = n THEN m ELSE 0
    <3>1. \A k : Wheel!Wins(number(n), k) <=> k = n
          BY DEF Wheel!Wins, Wheel!colourOf, Wheel!parityOf
    <3>2. 1 * (payouts["NUMBER"] + 1) = m
          BY <1>5
    <3>3. number(n).type = "NUMBER"
          OBVIOUS
    <3> HIDE DEF m
    <3>4. Wheel!FullPayout(number(n), 1, payouts) = m
          BY <3>2, <3>3 DEF Wheel!FullPayout
    <3> HIDE DEF number
    <3>5. QED BY <3>1, <3>4 DEF Wheel!settleBet
  <2> HIDE DEF m, number
  <2>2. f \in [0..36 -> Int] /\ (\A k \in 0..36 : k # n => f[k] = 0) /\ f[n] = m * drawn[n]
    <3>1. \A k \in 0..36 : drawn[k] \in Nat
          BY <1>3
    <3>2. \A k \in 0..36 : f[k] = drawn[k] * (IF k = n THEN m ELSE 0)
          BY <2>1
    <3>3. \A k \in 0..36 : f[k] \in Int /\ (k # n => f[k] = 0)
          BY <1>5, <3>1, <3>2
    <3>4. f[n] = m * drawn[n]
          BY <1>5, <3>1, <3>2
    <3>5. f \in [0..36 -> Int]
          BY <3>3
    <3>6. QED BY <3>3, <3>4, <3>5
  <2>3. returned(number(n)) = Wheel!SumOf(f)
        BY <1>1 DEF Wheel!Returned
  <2> HIDE DEF f
  <2>4. QED BY <2>2, <2>3, SumOfOne
<1> HIDE DEF m
<1>7. /\ picked \in [0..36 -> Int]
      /\ \A n \in 0..36 : picked[n] = m * drawn[n] /\ picked[n] * total = (m * R) * w[n]
  <2>1. \A n \in 0..36 : picked[n] = m * drawn[n]
        BY <1>6
  <2>2. picked = [n \in 0..36 |-> picked[n]]
        OBVIOUS
  <2> HIDE DEF picked
  <2>3. ASSUME NEW n \in 0..36
        PROVE  picked[n] \in Int /\ picked[n] * total = (m * R) * w[n]
    <3> DEFINE d == drawn[n]
               x == w[n]
    <3>1. d \in Nat /\ x \in Nat /\ d * total = x * R /\ picked[n] = m * d
          BY <1>2, <1>3, <2>1
    <3> HIDE DEF d, x
    <3>2. (m * d) * total = m * (d * total) /\ m * (x * R) = (m * R) * x /\ m * d \in Int
          BY <1>2, <1>5, <3>1
    <3>3. QED BY <3>1, <3>2 DEF x
  <2>4. QED BY <2>1, <2>2, <2>3
<1> HIDE DEF picked
<1>8. Wheel!SumOf(picked) = m * R
  <2>1. drawn \in [0..36 -> Int] /\ w \in [0..36 -> Int]
        BY <1>2, <1>3
  <2>2. Wheel!SumOf(picked) = m * Wheel!SumOf(drawn)
    <3>1. m \in Int
          BY <1>5
    <3>2. \A n \in 0..36 : picked[n] = m * drawn[n]
          BY <1>7
    <3>3. QED BY <1>7, <2>1, <3>1, <3>2, SumOfMultiple, Zenon
  <2> DEFINE g == [n \in 0..36 |-> total * drawn[n]]
  <2>3. g \in [0..36 -> Int] /\ \A n \in 0..36 : g[n] = total * drawn[n] /\ g[n] = R * w[n]
    <3>1. ASSUME NEW n \in 0..36 PROVE total * drawn[n] \in Int /\ total * drawn[n] = R * w[n]
      <4>1. drawn[n] \in Int /\ w[n] \in Int /\ drawn[n] * total = w[n] * R
            BY <1>2, <1>3
      <4>2. QED BY <1>2, <4>1
    <3>2. QED BY <3>1
  <2> HIDE DEF g
  <2>4. Wheel!SumOf(g) = total * Wheel!SumOf(drawn) /\ Wheel!SumOf(g) = R * Wheel!SumOf(w)
    <3>1. total \in Int /\ R \in Int
          BY <1>2
    <3>2. (\A n \in 0..36 : g[n] = total * drawn[n]) /\ \A n \in 0..36 : g[n] = R * w[n]
          BY <2>3
    <3>3. Wheel!SumOf(g) = total * Wheel!SumOf(drawn)
          BY <2>1, <2>3, <3>1, <3>2, SumOfMultiple, Zenon
    <3>4. Wheel!SumOf(g) = R * Wheel!SumOf(w)
          BY <2>1, <2>3, <3>1, <3>2, SumOfMultiple, Zenon
    <3>5. QED BY <3>3, <3>4
  <2>5. Wheel!SumOf(drawn) \in Int /\ Wheel!SumOf(w) = total
        BY <2>1, SumIs, SumToIs DEF total
  <2>6. Wheel!SumOf(drawn) = R
    <3> DEFINE s == Wheel!SumOf(drawn)
    <3>1. s \in Int /\ total * s = R * total
          BY <2>4, <2>5
    <3> HIDE DEF s
    <3>2. s < R => total * s < R * total
      <4>1. ASSUME s < R PROVE total * s < total * R
            BY <1>2, <3>1, <4>1
      <4>2. QED BY <1>2, <4>1
    <3>3. s > R => total * s > R * total
      <4>1. ASSUME s > R PROVE total * R < total * s
            BY <1>2, <3>1, <4>1
      <4>2. QED BY <1>2, <4>1
    <3>4. s = R
      <4>1. R * total \in Int
            BY <1>2
      <4>2. QED BY <1>2, <3>1, <3>2, <3>3, <4>1
    <3>5. QED BY <3>4 DEF s
  <2>7. QED BY <2>2, <2>6
\* The number that pays most is one of greatest weight.
<1>9. Wheel!Max({picked[n] : n \in Wheel!Pockets}) * total = Wheel!MaxNumberRtp(wheelPolicy, payouts) * R
  <2>1. w \in [0..36 -> Int]
        BY <1>2
  <2>2. PICK k \in 0..36 : \A n \in 0..36 : w[n] <= w[k]
        BY <2>1, GreatestPocket
  <2>3. \A n \in 0..36 : picked[n] <= picked[k]
    <3> SUFFICES ASSUME NEW n \in 0..36 PROVE picked[n] <= picked[k]
        OBVIOUS
    <3> DEFINE a == picked[n]
               b == picked[k]
               x == w[n]
               y == w[k]
    <3>1. a \in Int /\ b \in Int /\ x \in Int /\ y \in Int /\ x <= y /\ a * total = (m * R) * x /\ b * total = (m * R) * y
          BY <1>7, <2>1, <2>2
    <3>2. m * R \in Nat
          BY <1>2, <1>5
    <3> HIDE DEF a, b, x, y
    <3>3. (m * R) * x <= (m * R) * y
          BY <3>1, <3>2
    <3>4. b < a => b * total < a * total
          BY <1>2, <3>1
    <3>5. a * total \in Int /\ b * total \in Int
          BY <1>2, <3>1
    <3>6. ~(b < a)
          BY <3>1, <3>3, <3>4, <3>5
    <3>7. QED BY <3>1, <3>6 DEF a, b
  <2>4. Wheel!Max({picked[n] : n \in Wheel!Pockets}) = picked[k]
        BY <1>7, <2>3, GreatestIs
  <2>5. Wheel!Max({w[n] : n \in Wheel!Pockets}) = w[k]
        BY <2>1, <2>2, GreatestIs
  <2>6. Wheel!MaxNumberRtp(wheelPolicy, payouts) = m * w[k]
        BY <2>5 DEF Wheel!MaxNumberRtp, m, w
  <2>7. (m * w[k]) * R = (m * R) * w[k]
    <3>1. w[k] \in Int
          BY <2>1
    <3>2. QED BY <1>2, <1>5, <3>1
  <2>8. QED BY <1>7, <2>4, <2>6, <2>7
<1>10. [n \in Wheel!Pockets |-> Wheel!Cardinality(Wheel!Draws(n))] = drawn
       BY <1>1, WheelCardinality DEF drawn
<1>11. [n \in Wheel!Pockets |-> Wheel!Returned(drawn, [type |-> "NUMBER", number |-> n])] = picked
       BY <1>1 DEF picked
<1>12. Wheel!NumberRtp(payouts) = m /\ Wheel!Total(wheelPolicy.weights) = total
       BY DEF Wheel!NumberRtp, Wheel!Total, m, total, w
<1>13. Wheel!AsEstimated(drawn)
       BY <1>1, <1>3, <1>4, <1>8, <1>9, <1>11, <1>12 DEF Wheel!AsEstimated, R, w
<1>14. QED BY <1>10, <1>13 DEF Wheel!PaysAsEstimated

\* Tables of the stored profiles were validated, so that whatever policy is in force can be drawn by.
ProfilesValid == \A w \in profiles : Wheel!validateWeights(w)

LEMMA ProfilesStay ==
    ASSUME ProfilesValid, Wheel!Next \/ UNCHANGED wheelVars
    PROVE  ProfilesValid'
<1>1. CASE \E w \in Tables : Wheel!CreateProfile(w)
  <2>1. PICK w \in Tables : Wheel!validateWeights(w) /\ profiles' = profiles \cup {w}
        BY <1>1 DEF Wheel!CreateProfile
  <2>2. QED BY <2>1 DEF ProfilesValid
<1>2. CASE ~ \E w \in Tables : Wheel!CreateProfile(w)
  <2>1. profiles' = profiles
        BY <1>2 DEF Wheel!Next, Wheel!SetPayouts, Wheel!ChangePolicy, Wheel!AcceptBet, Wheel!Settle, Wheel!Refuse,
                    wheelVars
  <2>2. QED BY <2>1 DEF ProfilesValid
<1>3. QED BY <1>1, <1>2

LEMMA PolicyDrawable ==
    ASSUME Wheel!TypeOK, ProfilesValid
    PROVE  Drawable(wheelPolicy)
<1>1. Resolution \in Nat /\ Resolution % 37 = 0 /\ Tables \subseteq [0..36 -> Int]
      BY WheelBounds DEF Wheel!Pockets, Wheel!WHEEL_SIZE
<1>2. ASSUME NEW total \in Nat \ {0}, Resolution % total = 0
      PROVE  \E q \in Nat : Resolution = total * q
  <2> DEFINE q == Resolution \div total
  <2>1. q \in Int /\ Resolution = total * q + 0
        BY <1>1, <1>2, Division
  <2> HIDE DEF q
  <2>2. q < 0 => total * q < 0
        BY <2>1
  <2>3. q \in Nat /\ Resolution = total * q
        BY <1>1, <2>1, <2>2
  <2>4. QED BY <2>3
<1>3. CASE wheelPolicy = Wheel!FairPolicy
  <2>1. wheelPolicy.weights = Wheel!Even
        BY <1>3 DEF Wheel!FairPolicy
  <2>2. \E q \in Nat : Resolution = 37 * q
        BY <1>1, <1>2
  <2>3. QED BY <1>3, <2>1, <2>2, SumOfEven DEF Drawable
<1>4. ASSUME NEW w \in profiles, wheelPolicy = Wheel!Weighted(w) PROVE Drawable(wheelPolicy)
  <2>1. wheelPolicy.weights = w
        BY <1>4 DEF Wheel!Weighted
  <2>2. w \in Tables /\ Wheel!validateWeights(w)
        BY DEF Wheel!TypeOK, ProfilesValid
  <2>3. w \in [0..36 -> Int]
        BY <1>1, <2>2
  <2>4. w \in [0..36 -> Nat] /\ Wheel!SumOf(w) \in Nat \ {0}
    <3>1. (\A n \in Wheel!Pockets : w[n] >= 0) /\ Wheel!Total(w) \in Nat \ {0}
          BY <2>2, SMT DEF Wheel!validateWeights
    <3>2. \A n \in 0..36 : w[n] >= 0
          BY <3>1 DEF Wheel!Pockets, Wheel!WHEEL_SIZE
    <3>3. w \in [0..36 -> Nat]
          BY <2>3, <3>2
    <3>4. QED BY <3>1, <3>3, Zenon DEF Wheel!Total
  <2>5. Resolution % Wheel!SumOf(w) = 0
        BY <2>2, WheelBounds DEF Wheel!Total
  <2>6. \E q \in Nat : Resolution = Wheel!SumOf(w) * q
        BY <1>2, <2>4, <2>5
  <2>7. QED BY <1>4, <2>1, <2>4, <2>6 DEF Drawable
<1>5. QED BY <1>3, <1>4 DEF Wheel!TypeOK

LEMMA WheelPays ==
    ASSUME Wheel!TypeOK, ProfilesValid
    PROVE  Wheel!PaysAsEstimated
<1>1. Resolution \in Nat /\ payouts \in [Wheel!EvenMoney \cup {"NUMBER"} -> Nat]
      BY WheelBounds DEF Wheel!TypeOK
<1>2. QED BY <1>1, PolicyDrawable, PaysByWeight

WheelInv == Wheel!TypeOK /\ Wheel!RoundVerifies

LEMMA WheelInitHolds ==
    ASSUME Wheel!Init
    PROVE  WheelInv /\ ProfilesValid
<1>1. /\ payouts \in Payouts /\ profiles = {} /\ wheelPolicy = Wheel!FairPolicy /\ credited \in Paid
      /\ spin = Wheel!NoSpin /\ wheelRound = Wheel!NoRound /\ edits = 0
      BY DEF Wheel!Init
<1>2. Wheel!TypeOK
      BY <1>1, WheelBounds DEF Wheel!TypeOK
<1>3. QED BY <1>1, <1>2 DEF WheelInv, Wheel!RoundVerifies, ProfilesValid

\* What a bet returns.
LEMMA FullIsPositive ==
    ASSUME NEW bet \in Wheel!Bets, NEW stake \in Stakes, NEW m \in Payouts
    PROVE  Wheel!FullPayout(bet, stake, m) \in Nat \ {0}
<1>1. stake \in Nat \ {0}
      BY WheelBounds
<1>2. bet.type \in Wheel!EvenMoney \cup {"NUMBER"}
      BY DEF Wheel!Bets
<1>3. m[bet.type] \in Nat
      BY <1>2, WheelBounds
<1> DEFINE k == m[bet.type] + 1
<1>4. k \in Nat \ {0}
      BY <1>3
<1>5. Wheel!FullPayout(bet, stake, m) = stake * k
      BY DEF Wheel!FullPayout
<1> HIDE DEF k
<1>6. stake * k \in Nat \ {0}
      BY <1>1, <1>4
<1>7. QED BY <1>5, <1>6

\* Steps that leave the round, and what has been paid, alone.
LEMMA RoundKept ==
    ASSUME WheelInv, UNCHANGED <<wheelRound, credited>>
    PROVE  Wheel!RoundVerifies'
BY DEF WheelInv, Wheel!RoundVerifies, Wheel!Verified, Wheel!NoRound

\* A round is verified by the policy it was played under.
LEMMA VerifiedAsPlayed ==
    ASSUME Wheel!TypeOK, NEW r, NEW roll, r.seed = roll, r.mode = wheelPolicy.mode, r.weights = wheelPolicy.weights
    PROVE  Wheel!Verified(r) = Wheel!pickWinningNumber(roll, wheelPolicy)
<1>1. CASE wheelPolicy = Wheel!FairPolicy
  <2>1. r.mode = "FAIR"
        BY <1>1 DEF Wheel!FairPolicy
  <2>2. QED BY <1>1, <2>1, Zenon DEF Wheel!Verified
<1>2. CASE wheelPolicy # Wheel!FairPolicy
  <2>1. PICK w \in profiles : wheelPolicy = Wheel!Weighted(w)
        BY <1>2 DEF Wheel!TypeOK
  <2>2. r.mode = "WEIGHTED" /\ r.weights = w
        BY <2>1 DEF Wheel!Weighted
  <2>3. QED BY <2>1, <2>2, Zenon DEF Wheel!Verified
<1>3. QED BY <1>1, <1>2

LEMMA WheelSettles ==
    ASSUME WheelInv, NEW roll \in 0..Resolution - 1, Wheel!Settle(roll)
    PROVE  WheelInv'
<1> DEFINE n == Wheel!pickWinningNumber(roll, wheelPolicy)
           full == Wheel!FullPayout(spin.bet, spin.stake, spin.payouts)
           wins == Wheel!Wins(spin.bet, n)
           back == Wheel!settleBet(spin.bet, spin.stake, n, spin.payouts)
           r == [bet |-> spin.bet, stake |-> spin.stake, seed |-> roll,
                 mode |-> wheelPolicy.mode, weights |-> wheelPolicy.weights, payouts |-> spin.payouts,
                 number |-> n, paid |-> back]
<1>1. /\ spin # Wheel!NoSpin /\ Wheel!Eligible(spin.bet, spin.stake, spin.payouts)
      /\ wheelRound' = r /\ credited' = credited + wheelRound'.paid /\ spin' = Wheel!NoSpin
      /\ UNCHANGED <<payouts, profiles, wheelPolicy, edits>>
      BY DEF Wheel!Settle
<1>2. spin.bet \in Wheel!Bets /\ spin.stake \in Stakes /\ spin.payouts \in Payouts
      BY <1>1 DEF WheelInv, Wheel!TypeOK
<1>3. full \in Nat \ {0}
      BY <1>2, FullIsPositive
<1>4. full <= maxPayoutPerGame /\ full <= maxPayoutPerUserPerDay - credited
      BY <1>1 DEF Wheel!Eligible
<1>5. back = IF wins THEN full ELSE 0
      BY DEF Wheel!settleBet
<1>6. wins \in BOOLEAN
      BY DEF Wheel!Wins
<1>7. /\ r.bet = spin.bet /\ r.stake = spin.stake /\ r.payouts = spin.payouts
      /\ r.seed = roll /\ r.mode = wheelPolicy.mode /\ r.weights = wheelPolicy.weights
      /\ r.number = n /\ r.paid = back
      OBVIOUS
<1> HIDE DEF r, n, full, wins, back
<1>8. /\ credited \in 0..maxPayoutPerUserPerDay
      /\ maxPayoutPerGame \in Nat /\ maxPayoutPerUserPerDay \in Nat
      BY WheelBounds DEF WheelInv, Wheel!TypeOK
<1>9. back \in Nat /\ back <= maxPayoutPerGame /\ credited + back <= maxPayoutPerUserPerDay
      BY <1>3, <1>4, <1>5, <1>6, <1>8
<1>10. credited' = credited + back
      BY <1>1, <1>7
<1>11. Wheel!Verified(r) = n
      BY <1>7, VerifiedAsPlayed DEF WheelInv, n
<1>12. Wheel!Verified(wheelRound)' = n
  <2>1. Wheel!Verified(wheelRound)' = Wheel!Verified(wheelRound')
        OBVIOUS
  <2>2. QED BY <1>1, <1>11, <2>1
<1>13. Wheel!TypeOK'
  <2>1. credited' \in 0..maxPayoutPerUserPerDay
        BY <1>8, <1>9, <1>10
  <2>2. wheelRound'.bet \in Wheel!Bets
        BY <1>1, <1>2, <1>7
  <2>3. QED BY <1>1, <2>1, <2>2 DEF WheelInv, Wheel!TypeOK
<1>14. Wheel!RoundVerifies'
  <2>1. wheelRound'.paid = back /\ wheelRound'.number = n
        BY <1>1, <1>7
  <2>2. Wheel!FullPayout(wheelRound'.bet, wheelRound'.stake, wheelRound'.payouts) = full
        BY <1>1, <1>7 DEF full
  <2>3. Wheel!Wins(wheelRound'.bet, wheelRound'.number) <=> wins
        BY <1>1, <1>7 DEF wins
  <2>4. back \in {0, full} /\ (back > 0 <=> wins)
        BY <1>3, <1>5, <1>6
  <2>5. credited' <= maxPayoutPerUserPerDay
        BY <1>9, <1>10
  <2>6. QED BY <1>9, <1>12, <2>1, <2>2, <2>3, <2>4, <2>5 DEF Wheel!RoundVerifies
<1>15. QED BY <1>13, <1>14 DEF WheelInv

LEMMA WheelStep ==
    ASSUME WheelInv, Wheel!Next
    PROVE  WheelInv'
<1>1. ASSUME NEW m \in Payouts, Wheel!SetPayouts(m) PROVE WheelInv'
  <2>1. /\ edits < MaxEdits /\ edits' = edits + 1 /\ payouts' = m
        /\ UNCHANGED <<profiles, wheelPolicy, credited, spin, wheelRound>>
        BY <1>1 DEF Wheel!SetPayouts, Wheel!Edit
  <2>2. Wheel!TypeOK'
        BY <2>1, WheelBounds DEF WheelInv, Wheel!TypeOK
  <2>3. QED BY <2>1, <2>2, RoundKept DEF WheelInv
<1>2. ASSUME NEW w \in Tables, Wheel!CreateProfile(w) PROVE WheelInv'
  <2>1. /\ edits < MaxEdits /\ edits' = edits + 1 /\ profiles' = profiles \cup {w}
        /\ UNCHANGED <<payouts, wheelPolicy, credited, spin, wheelRound>>
        BY <1>2 DEF Wheel!CreateProfile, Wheel!Edit
  <2>2. Wheel!TypeOK'
        BY <2>1, WheelBounds DEF WheelInv, Wheel!TypeOK
  <2>3. QED BY <2>1, <2>2, RoundKept DEF WheelInv
<1>3. ASSUME NEW p \in {Wheel!Weighted(w) : w \in profiles} \cup {Wheel!FairPolicy}, Wheel!ChangePolicy(p)
      PROVE  WheelInv'
  <2>1. /\ edits < MaxEdits /\ edits' = edits + 1 /\ wheelPolicy' = p
        /\ UNCHANGED <<payouts, profiles, credited, spin, wheelRound>>
        BY <1>3 DEF Wheel!ChangePolicy, Wheel!Edit
  <2>2. Wheel!TypeOK'
        BY <2>1, WheelBounds DEF WheelInv, Wheel!TypeOK
  <2>3. QED BY <2>1, <2>2, RoundKept DEF WheelInv
<1>4. ASSUME NEW bet \in Wheel!Bets, NEW stake \in Stakes, Wheel!AcceptBet(bet, stake) PROVE WheelInv'
  <2>1. /\ spin' = [bet |-> bet, stake |-> stake, payouts |-> payouts]
        /\ UNCHANGED <<payouts, profiles, wheelPolicy, credited, wheelRound, edits>>
        BY <1>4 DEF Wheel!AcceptBet
  <2>2. spin' \in [bet : Wheel!Bets, stake : Stakes, payouts : Payouts]
        BY <2>1 DEF WheelInv, Wheel!TypeOK
  <2>3. Wheel!TypeOK'
        BY <2>1, <2>2 DEF WheelInv, Wheel!TypeOK
  <2>4. QED BY <2>1, <2>3, RoundKept DEF WheelInv
<1>5. CASE Wheel!Refuse
  <2>1. spin' = Wheel!NoSpin /\ UNCHANGED <<payouts, profiles, wheelPolicy, credited, wheelRound, edits>>
        BY <1>5 DEF Wheel!Refuse
  <2>2. Wheel!TypeOK'
        BY <2>1 DEF WheelInv, Wheel!TypeOK
  <2>3. QED BY <2>1, <2>2, RoundKept DEF WheelInv
<1>6. ASSUME NEW roll \in 0..Resolution - 1, Wheel!Settle(roll) PROVE WheelInv'
      BY <1>6, WheelSettles
<1>7. \/ \E m \in Payouts : Wheel!SetPayouts(m)
      \/ \E w \in Tables : Wheel!CreateProfile(w)
      \/ \E p \in {Wheel!Weighted(w) : w \in profiles} \cup {Wheel!FairPolicy} : Wheel!ChangePolicy(p)
      \/ \E bet \in Wheel!Bets, stake \in Stakes : Wheel!AcceptBet(bet, stake)
      \/ \E roll \in 0..Resolution - 1 : Wheel!Settle(roll)
      \/ Wheel!Refuse
  <2>1. ASSUME NEW w \in profiles, Wheel!ChangePolicy(Wheel!Weighted(w))
        PROVE  \E p \in {Wheel!Weighted(v) : v \in profiles} \cup {Wheel!FairPolicy} : Wheel!ChangePolicy(p)
        BY <2>1, Zenon
  <2>2. ASSUME Wheel!ChangePolicy(Wheel!FairPolicy)
        PROVE  \E p \in {Wheel!Weighted(v) : v \in profiles} \cup {Wheel!FairPolicy} : Wheel!ChangePolicy(p)
        BY <2>2, Zenon
  <2>3. QED BY <2>1, <2>2, Zenon DEF Wheel!Next
<1>8. QED BY <1>1, <1>2, <1>3, <1>4, <1>5, <1>6, <1>7, Zenon

LEMMA WheelStays ==
    ASSUME WheelInv, UNCHANGED wheelVars
    PROVE  WheelInv'
<1>1. /\ payouts' = payouts /\ profiles' = profiles /\ wheelPolicy' = wheelPolicy /\ edits' = edits
      /\ spin' = spin /\ UNCHANGED <<wheelRound, credited>>
      BY DEF wheelVars
<1>2. Wheel!TypeOK'
      BY <1>1 DEF WheelInv, Wheel!TypeOK
<1>3. QED BY <1>1, <1>2, RoundKept DEF WheelInv

-------------------------------------------------------------------------------
\* All the games.  Whatever is played, roulette rests in a state its invariant allows; the
\* invariant of another game holds while it is the one that is played.

GamesInv ==
    /\ IInv /\ DayInv /\ PaidInv
    /\ part = "solo" => SoloInv
    /\ part = "online" => OnlineInv
    /\ part = "board" => BoardInv
    /\ part = "wheel" => WheelInv /\ ProfilesValid
    /\ part = "chat" => ChatInv
    /\ part = "voice" => VoiceInv

LEMMA GamesInitHolds == GamesInit => GamesInv
<1> SUFFICES ASSUME GamesInit PROVE GamesInv
    OBVIOUS
<1>1. IInv /\ DayInv /\ PaidInv
      BY InitInvariant, DayInitially, PaidInitially DEF GamesInit
<1>2. /\ part = "solo" => Solo!Init
      /\ part = "online" => Online!Init
      /\ part = "board" => Board!Init
      /\ part = "wheel" => Wheel!Init
      /\ part = "chat" => Chat!Init
      /\ part = "voice" => Voice!Init
      BY DEF GamesInit
<1>3. QED BY <1>1, <1>2, SoloInitHolds, OnlineInitHolds, BoardInitHolds, WheelInitHolds, ChatInitHolds, VoiceInitHolds
          DEF GamesInv

\* A step is one of the game that is played, or none.
LEMMA OneGameMoves ==
    ASSUME [GamesNext]_gamesVars
    PROVE  /\ part' = part /\ [Next]_vars
           /\ part = "solo" => Solo!Next \/ UNCHANGED soloVars
           /\ part = "online" => Online!Next \/ UNCHANGED onlineVars
           /\ part = "board" => Board!Next \/ UNCHANGED boardVars
           /\ part = "wheel" => Wheel!Next \/ UNCHANGED wheelVars
           /\ part = "chat" => Chat!Next \/ UNCHANGED <<roomVars, chatVars>>
           /\ part = "voice" => Voice!Next \/ UNCHANGED <<roomVars, voiceVars>>
<1>1. CASE GamesNext
  <2>1. part' = part /\ ((part = "roulette" /\ Next) \/ UNCHANGED vars)
        BY <1>1 DEF GamesNext
  <2>2. /\ part = "solo" => Solo!Next
        /\ part = "online" => Online!Next
        /\ part = "board" => Board!Next
        /\ part = "wheel" => Wheel!Next
        /\ part = "chat" => Chat!Next
        /\ part = "voice" => Voice!Next
        BY <1>1 DEF GamesNext
  <2>3. QED BY <2>1, <2>2
<1>2. CASE UNCHANGED gamesVars
      BY <1>2 DEF gamesVars
<1>3. QED BY <1>1, <1>2

LEMMA GamesStep ==
    ASSUME GamesInv, [GamesNext]_gamesVars
    PROVE  GamesInv'
<1>1. part' = part /\ [Next]_vars
      BY OneGameMoves
<1>2. IInv' /\ DayInv' /\ PaidInv'
      BY <1>1, TypePreserved, PlayPreserved, SchedulePreserved, RoundsPreserved, PolicyPreserved,
         JustifiedPreserved, DayPreserved, PaidPreserved DEF GamesInv, IInv
<1>3. ASSUME part = "solo" PROVE SoloInv'
      BY <1>3, OneGameMoves, SoloStep, SoloStays DEF GamesInv
<1>4. ASSUME part = "online" PROVE OnlineInv'
      BY <1>4, OneGameMoves, OnlineStep, OnlineStays DEF GamesInv
<1>5. ASSUME part = "board" PROVE BoardInv'
      BY <1>5, OneGameMoves, BoardStep, BoardStays DEF GamesInv
<1>6. ASSUME part = "wheel" PROVE WheelInv' /\ ProfilesValid'
      BY <1>6, OneGameMoves, WheelStep, WheelStays, ProfilesStay DEF GamesInv
<1>7. ASSUME part = "chat" PROVE ChatInv'
      BY <1>7, OneGameMoves, ChatStep, ChatStays DEF GamesInv
<1>8. ASSUME part = "voice" PROVE VoiceInv'
      BY <1>8, OneGameMoves, VoiceStep, VoiceStays DEF GamesInv
<1>9. QED BY <1>1, <1>2, <1>3, <1>4, <1>5, <1>6, <1>7, <1>8 DEF GamesInv

\* The inductive invariant of the games: of each that is played, its own.
THEOREM GamesInvariant == GamesSpec => []GamesInv
<1>1. GamesInv /\ [GamesNext]_gamesVars => GamesInv'
      BY GamesStep
<1>2. QED BY GamesInitHolds, <1>1, PTL DEF GamesSpec

\* Type correctness of every game; at roulette no wallet goes below zero (the guarded debit).
THEOREM GamesTyped == GamesSpec => []TypesOK
<1>1. GamesInv => TypesOK
      BY TypesOfOnline DEF GamesInv, TypesOK, IInv, SoloInv, OnlineInv, BoardInv, WheelInv, ChatInv, VoiceInv
<1>2. QED BY <1>1, GamesInvariant, PTL

\* A user's idempotency key stands for one round for ever (play).
THEOREM KeyedOnce == GamesSpec => []OneRoundPerKey
<1>1. GamesInv => OneRoundPerKey
      BY DEF GamesInv, IInv
<1>2. QED BY <1>1, GamesInvariant, PTL

\* A user's rounds are a cooldown apart, however the spins overlap (play).
THEOREM CooldownRespected == GamesSpec => []CooldownKept
<1>1. GamesInv => CooldownKept
      BY DEF GamesInv, IInv
<1>2. QED BY <1>1, GamesInvariant, PTL

\* The windows of the schedules never overlap, cancelled ones included
\* (createProbabilitySchedule).
THEOREM PolicyUnique == GamesSpec => []OnePolicyAtATime
<1>1. GamesInv => OnePolicyAtATime
      BY DEF GamesInv, IInv
<1>2. QED BY <1>1, GamesInvariant, PTL

\* Every round was played under the policy its createdAt falls into, whatever
\* is scheduled or cancelled afterwards (play, resolveProbabilityPolicyAt).
THEOREM PolicyHonoured == GamesSpec => []RoundUsesPolicyInForce
<1>1. GamesInv => RoundUsesPolicyInForce
      BY DEF GamesInv, IInv
<1>2. QED BY <1>1, GamesInvariant, PTL

\* A user's games of a day, the free ones and the paid ones, are never more than allowed, nor
\* is what they pay, whatever spins overlap and wait for a lock over midnight (play,
\* dailyUsage).
THEOREM LimitsOfADay == GamesSpec => []WithinDailyLimits
<1>1. GamesInv => WithinDailyLimits
      BY DEF GamesInv, DayInv, PaidInv, WithinDailyLimits
<1>2. QED BY <1>1, GamesInvariant, PTL

\* At tic-tac-toe a move goes on from the position the client was shown, and a win is paid
\* once, with its row (move, persist).
THEOREM SoloPlayedAndPaid == GamesSpec => []PlayedAsShownAndPaid
<1>1. GamesInv => PlayedAsShownAndPaid
      BY SoloIsShownAndPaid DEF GamesInv, PlayedAsShownAndPaid
<1>2. QED BY <1>1, GamesInvariant, PTL

\* A user plays one online match at a time, and whoever was told that the search is on is
\* searched for (joinOnlineMatchmaking, disconnectOnline).
THEOREM OnlineSearchedOnce == GamesSpec => []SearchedAndMatchedOnce
<1>1. GamesInv => SearchedAndMatchedOnce
      BY SearchedOnce DEF GamesInv, SearchedAndMatchedOnce
<1>2. QED BY <1>1, GamesInvariant, PTL

\* At Ludo two players share safe cells only, the turn can always be played, and places are
\* given for good and by merit, for any number of players, pawns and cells (applyMove,
\* nextActiveSeat, finalizeIfDecided).
THEOREM BoardStaysFair == GamesSpec => []BoardIsFair
<1>1. GamesInv => BoardIsFair
      BY DEF GamesInv, BoardIsFair, BoardInv
<1>2. QED BY <1>1, GamesInvariant, PTL

\* The wheel draws by the weights in force, any table that validates, and pays on the average
\* what its estimate says; whatever changes later, a stored round is verified as it was played
\* and was paid in full or not at all, within both limits (pickWinningNumber, estimateRtp,
\* verifyRound, evaluatePayoutCapacity).
THEOREM WheelStaysFair == GamesSpec => []WheelIsFair
<1>1. GamesInv => WheelIsFair
      BY WheelPays DEF GamesInv, WheelIsFair, WheelInv
<1>2. QED BY <1>1, GamesInvariant, PTL

\* What is said is told once at most, never to whoever keeps its sayer on one of the two lists,
\* and at no more than the allowed rate; and of two players who were each told of their voice
\* join on the socket they still have, one is told to call the other (sendQuickChat,
\* sendTextChat, getSnapshot, joinVoice).
THEOREM TalkIsHeardRightly == GamesSpec => []TalkReachesWhomItMay
<1>1. GamesInv => TalkReachesWhomItMay
      BY AnsweredMayRelay DEF GamesInv, TalkReachesWhomItMay, ChatInv
<1>2. QED BY <1>1, GamesInvariant, PTL
===============================================================================
