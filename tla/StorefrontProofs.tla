---------------------------- MODULE StorefrontProofs ----------------------------
(***************************************************************************)
(* What holds of Storefront for every set of users, offers, calls and      *)
(* admins.  Of submissions: what holds always, and what holds once a       *)
(* user's calls for a slot do not overlap.  Of the caches of settings and  *)
(* of the catalogue: no reader is given what an acknowledged write has     *)
(* replaced, and what is cached is in one order.  Of memberships: one      *)
(* payment each, and one delivery at work on an event.                     *)
(***************************************************************************)
EXTENDS Storefront, FiniteSetTheorems, TLAPS

Pending(s) == IF status[s] = "PENDING" THEN 1 ELSE 0

\* Every kind of step, by what it does to the rows, the credits and the counts.
Frame == UNCHANGED <<status, reward, credited, submits, reopens>>

LEMMA Effects ==
    ASSUME TypeOK, [Next]_vars
    PROVE  \/ Frame
           \/ \E c \in Calls : Resubmit(c) \/ CreateSubmission(c)
           \/ \E s \in Slots : Cancel(s) \/ Reopen(s)
           \/ \E s \in Slots, outcome \in {"REJECTED", "NEED_MORE_PROOF"} : SetOutcome(s, outcome)
           \/ \E a \in Admins, s \in Slots : CommitApprove(a, s)
<1> USE DEF Frame, rowVars, historyVars
<1>1. ASSUME NEW c \in Calls, SubmitStep(c), ~Resubmit(c), ~CreateSubmission(c)
      PROVE  Frame
      BY <1>1 DEF SubmitStep, Gate, CheckCaps, CheckImages, StoreImages, StopSubmit
<1>2. ASSUME NEW a \in Admins, NEW s \in Slots, BeginApprove(a, s)
      PROVE  Frame
      BY <1>2 DEF BeginApprove
<1>3. ASSUME NEW a \in Admins, AbandonApprove(a)
      PROVE  Frame
      BY <1>3 DEF AbandonApprove
<1>4. ASSUME NEW o \in Offers, NEW c \in Coins, EditOffer(o, c)
      PROVE  Frame
      BY <1>4 DEF EditOffer
<1>5. CASE NewDay
      BY <1>5 DEF NewDay
<1>6. CASE UNCHANGED vars
      BY <1>6 DEF vars
<1>7. QED BY <1>1, <1>2, <1>3, <1>4, <1>5, <1>6 DEF Next, RowStep

\* Every step keeps the types of rows, calls, credits and reviews.
THEOREM SubmissionTypes == Spec => []TypeOK
<1>1. Init => TypeOK
  <2> SUFFICES ASSUME Init PROVE TypeOK
      OBVIOUS
  <2>1. \A s \in Slots : <<>> \in Seq(Coins \cup {0})
        OBVIOUS
  <2>2. QED BY <2>1, ConstantsAssumption DEF Init, TypeOK, Statuses, Steps
<1>2. TypeOK /\ [Next]_vars => TypeOK'
  <2> SUFFICES ASSUME TypeOK, [Next]_vars PROVE TypeOK'
      OBVIOUS
  <2> USE ConstantsAssumption
      DEF TypeOK, Statuses, Steps, rowVars, callVars, historyVars, Advance, SetStatus
  <2>1. ASSUME NEW c \in Calls, SubmitStep(c)
        PROVE  TypeOK'
    <3>1. CASE Gate(c)
          BY <3>1 DEF Gate
    <3>2. CASE CheckCaps(c)
          BY <3>2 DEF CheckCaps
    <3>3. CASE CheckImages(c)
          BY <3>3 DEF CheckImages
    <3>4. CASE Resubmit(c)
          BY <3>4 DEF Resubmit, WriteRow
    <3>5. CASE CreateSubmission(c)
          BY <3>5 DEF CreateSubmission, WriteRow
    <3>6. CASE StoreImages(c)
          BY <3>6 DEF StoreImages
    <3>7. CASE StopSubmit(c)
          BY <3>7 DEF StopSubmit
    <3>8. QED BY <2>1, <3>1, <3>2, <3>3, <3>4, <3>5, <3>6, <3>7 DEF SubmitStep
  <2>2. ASSUME NEW s \in Slots, Cancel(s)
        PROVE  TypeOK'
        BY <2>2 DEF Cancel
  <2>3. ASSUME NEW s \in Slots, Reopen(s)
        PROVE  TypeOK'
        BY <2>3 DEF Reopen, Reopened
  <2>4. ASSUME NEW s \in Slots, NEW outcome \in {"REJECTED", "NEED_MORE_PROOF"},
               SetOutcome(s, outcome)
        PROVE  TypeOK'
        BY <2>4 DEF SetOutcome
  <2>5. ASSUME NEW a \in Admins, NEW s \in Slots, CommitApprove(a, s)
        PROVE  TypeOK'
    <3>1. credited' \in [Slots -> Seq(Coins \cup {0})]
      <4>1. Append(credited[s], reward[s]) \in Seq(Coins \cup {0})
            OBVIOUS
      <4>2. credited' = [credited EXCEPT ![s] = Append(credited[s], reward[s])]
            BY <2>5 DEF CommitApprove, Payout
      <4>3. QED BY <4>1, <4>2
    <3>2. QED BY <2>5, <3>1 DEF CommitApprove
  <2>6. ASSUME NEW a \in Admins, NEW s \in Slots, BeginApprove(a, s)
        PROVE  TypeOK'
        BY <2>6 DEF BeginApprove
  <2>7. ASSUME NEW a \in Admins, AbandonApprove(a)
        PROVE  TypeOK'
        BY <2>7 DEF AbandonApprove
  <2>8. ASSUME NEW o \in Offers, NEW c \in Coins, EditOffer(o, c)
        PROVE  TypeOK'
        BY <2>8 DEF EditOffer
  <2>9. CASE NewDay
        BY <2>9 DEF NewDay
  <2>10. CASE UNCHANGED vars
         BY <2>10 DEF vars
  <2>11. QED BY <2>1, <2>2, <2>3, <2>4, <2>5, <2>6, <2>7, <2>8, <2>9, <2>10 DEF Next, RowStep
<1>3. QED BY <1>1, <1>2, PTL DEF Spec

\* What an approval does to the number of credits of each slot.
LEMMA CreditCount ==
    ASSUME TypeOK, NEW a \in Admins, NEW s \in Slots, CommitApprove(a, s)
    PROVE  /\ Len(credited'[s]) = Len(credited[s]) + 1
           /\ \A r \in Slots : r # s => credited'[r] = credited[r]
<1>1. credited[s] \in Seq(Coins \cup {0}) /\ reward[s] \in Coins \cup {0}
      BY DEF TypeOK
<1>2. credited' = [credited EXCEPT ![s] = Append(credited[s], reward[s])]
      BY DEF CommitApprove, Payout
<1>3. credited'[s] = Append(credited[s], reward[s])
      BY <1>2 DEF TypeOK
<1>4. QED BY <1>1, <1>2, <1>3 DEF TypeOK

\* Racing reviewers, cancellations and resubmissions never pay one submission
\* twice: the WHERE of approveSubmission is enough, whatever calls overlap.
THEOREM PaidOncePerSubmission == Spec => []OneCreditPerSubmission
<1>1. Init => OneCreditPerSubmission
      BY DEF Init, OneCreditPerSubmission
<1>2. TypeOK /\ OneCreditPerSubmission /\ [Next]_vars => OneCreditPerSubmission'
  <2> SUFFICES ASSUME TypeOK, OneCreditPerSubmission, [Next]_vars, NEW r \in Slots
               PROVE  Len(credited'[r]) + Pending(r)' <= submits'[r]
      BY DEF OneCreditPerSubmission, Pending
  <2>1. /\ Len(credited[r]) \in Nat /\ submits[r] \in Nat
        /\ Len(credited[r]) + Pending(r) <= submits[r]
        BY DEF OneCreditPerSubmission, Pending, TypeOK
  <2> USE <2>1 DEF Pending, TypeOK, SetStatus, historyVars
  <2>2. ASSUME credited' = credited, submits' = submits,
               status'[r] = "PENDING" => status[r] = "PENDING"
        PROVE  Len(credited'[r]) + Pending(r)' <= submits'[r]
    <3>1. Pending(r)' <= Pending(r) /\ Pending(r) \in {0, 1} /\ Pending(r)' \in {0, 1}
          BY <2>2
    <3>2. QED BY <2>2, <3>1
  <2>3. ASSUME NEW c \in Calls, Resubmit(c) \/ CreateSubmission(c)
        PROVE  Len(credited'[r]) + Pending(r)' <= submits'[r]
    <3>1. /\ credited' = credited
          /\ status' = [status EXCEPT ![Slot[c]] = "PENDING"]
          /\ submits' = [submits EXCEPT ![Slot[c]] = @ + 1]
          BY <2>3 DEF Resubmit, CreateSubmission, WriteRow
    <3>2. QED BY <3>1
  <2>4. ASSUME NEW s \in Slots, Cancel(s) \/ Reopen(s)
        PROVE  Len(credited'[r]) + Pending(r)' <= submits'[r]
    <3>1. status' = [status EXCEPT ![s] = "CANCELLED"] /\ UNCHANGED <<credited, submits>>
          BY <2>4 DEF Cancel, Reopen, Reopened
    <3>2. status'[r] = "PENDING" => status[r] = "PENDING"
          BY <3>1
    <3>3. QED BY <2>2, <3>1, <3>2
  <2>5. ASSUME NEW s \in Slots, NEW outcome \in {"REJECTED", "NEED_MORE_PROOF"},
               SetOutcome(s, outcome)
        PROVE  Len(credited'[r]) + Pending(r)' <= submits'[r]
        BY <2>5 DEF SetOutcome
  <2>6. ASSUME NEW a \in Admins, NEW s \in Slots, CommitApprove(a, s)
        PROVE  Len(credited'[r]) + Pending(r)' <= submits'[r]
    <3>1. /\ status[s] = "PENDING"
          /\ status' = [status EXCEPT ![s] = "APPROVED"]
          /\ submits' = submits
          BY <2>6 DEF CommitApprove, CanApprove
    <3>2. /\ Len(credited'[s]) = Len(credited[s]) + 1
          /\ r # s => credited'[r] = credited[r]
          BY <2>6, CreditCount
    <3>3. CASE r = s
          BY <3>1, <3>2, <3>3
    <3>4. CASE r # s
          BY <2>2, <3>1, <3>2, <3>4
    <3>5. QED BY <3>3, <3>4
  <2>7. CASE Frame
        BY <2>2, <2>7 DEF Frame
  <2>8. QED BY <2>3, <2>4, <2>5, <2>6, <2>7, Effects
<1>3. QED BY <1>1, <1>2, SubmissionTypes, PTL DEF Spec

-------------------------------------------------------------------------------

\* While a user's calls for a slot follow one another, nothing but the call
\* itself makes the row it found pending again.
Unwritten(c) == step[c] \in {"gated", "capped", "hashed"}

SerialInv ==
    /\ \A c, d \in Calls :
          InFlight(c) /\ InFlight(d) /\ Slot[c] = Slot[d] /\ Slot[c] \notin Overlapping => c = d
    /\ \A c \in Calls :
          Unwritten(c) /\ found[c] /\ Slot[c] \notin Overlapping
              => status[Slot[c]] \notin {"PENDING", "APPROVED"}
    /\ \A s \in Slots \ Overlapping :
          Len(credited[s]) <= reopens[s] + (IF status[s] = "APPROVED" THEN 1 ELSE 0)

\* A user whose calls for one offer do not overlap is rewarded once, and once
\* more for each reopening.
THEOREM RewardedOncePerOffer == Spec => []RewardedOnceInTurn
<1>1. Init => SerialInv
      BY DEF Init, SerialInv, InFlight, Unwritten
<1>2. TypeOK /\ SerialInv /\ [Next]_vars => SerialInv'
  <2> SUFFICES ASSUME TypeOK, SerialInv, [Next]_vars
               PROVE  SerialInv'
      OBVIOUS
  <2> USE ConstantsAssumption
      DEF TypeOK, SerialInv, InFlight, Unwritten, Advance, SetStatus,
          rowVars, callVars, historyVars
  <2>0. \A s \in Slots : Len(credited[s]) \in Nat /\ reopens[s] \in Nat
        OBVIOUS
  <2>1. ASSUME NEW c \in Calls, Gate(c)
        PROVE  SerialInv'
    <3>1. /\ UNCHANGED <<status, credited, reopens>>
          /\ step' = [step EXCEPT ![c] = "gated"]
          /\ found' = [found EXCEPT ![c] = status[Slot[c]] # "NONE"]
          /\ Slot[c] \notin Overlapping => \A d \in Calls : Slot[d] = Slot[c] => ~InFlight(d)
          /\ status[Slot[c]] \notin {"PENDING", "APPROVED"}
          BY <2>1 DEF Gate, MaySubmit
    <3>2. QED BY <3>1
  <2>2. ASSUME NEW c \in Calls, NEW next \in Steps, InFlight(c), Advance(c, next),
               next \in {"capped", "hashed"} => Unwritten(c),
               next # "gated",
               UNCHANGED <<status, credited, reopens, found>>
        PROVE  SerialInv'
        BY <2>2 DEF Steps
  <2>3. ASSUME NEW c \in Calls, CheckCaps(c)
        PROVE  SerialInv'
        BY <2>2, <2>3 DEF CheckCaps, Steps
  <2>4. ASSUME NEW c \in Calls, CheckImages(c)
        PROVE  SerialInv'
        BY <2>2, <2>4 DEF CheckImages, Steps
  <2>5. ASSUME NEW c \in Calls, StoreImages(c)
        PROVE  SerialInv'
        BY <2>2, <2>5 DEF StoreImages, Steps
  <2>6. ASSUME NEW c \in Calls, StopSubmit(c)
        PROVE  SerialInv'
        BY <2>2, <2>6 DEF StopSubmit, Steps
  <2>7. ASSUME NEW c \in Calls, Resubmit(c) \/ CreateSubmission(c)
        PROVE  SerialInv'
    <3>1. /\ step[c] = "hashed"
          /\ Slot[c] \notin Overlapping => status[Slot[c]] \notin {"PENDING", "APPROVED"}
          /\ status' = [status EXCEPT ![Slot[c]] = "PENDING"]
          /\ step' = [step EXCEPT ![c] = "written"]
          /\ UNCHANGED <<credited, reopens, found>>
          BY <2>7 DEF Resubmit, CreateSubmission, WriteRow
    <3>2. Slot[c] \notin Overlapping => \A d \in Calls : d # c /\ Unwritten(d) => Slot[d] # Slot[c]
          BY <3>1
    <3>3. QED BY <3>1, <3>2
  <2>8. ASSUME NEW s \in Slots, NEW next \in {"CANCELLED", "REJECTED", "NEED_MORE_PROOF"},
               status[s] = "PENDING", SetStatus(s, next),
               UNCHANGED <<credited, reopens, step, found>>
        PROVE  SerialInv'
        BY <2>8
  <2>9. ASSUME NEW s \in Slots, Cancel(s)
        PROVE  SerialInv'
        BY <2>8, <2>9 DEF Cancel
  <2>10. ASSUME NEW s \in Slots, NEW outcome \in {"REJECTED", "NEED_MORE_PROOF"},
                SetOutcome(s, outcome)
         PROVE  SerialInv'
         BY <2>8, <2>10 DEF SetOutcome
  <2>11. ASSUME NEW s \in Slots, Reopen(s)
         PROVE  SerialInv'
    <3>1. /\ status' = [status EXCEPT ![s] = "CANCELLED"]
          /\ reopens' = [reopens EXCEPT ![s] = @ + 1]
          /\ UNCHANGED <<credited, step, found>>
          BY <2>11 DEF Reopen, Reopened
    <3>2. QED BY <3>1, <2>0
  <2>12. ASSUME NEW a \in Admins, NEW s \in Slots, CommitApprove(a, s)
         PROVE  SerialInv'
    <3>1. /\ status[s] = "PENDING"
          /\ status' = [status EXCEPT ![s] = "APPROVED"]
          /\ UNCHANGED <<reopens, step, found>>
          BY <2>12 DEF CommitApprove, CanApprove
    <3>2. /\ Len(credited'[s]) = Len(credited[s]) + 1
          /\ \A r \in Slots : r # s => credited'[r] = credited[r]
          BY <2>12, CreditCount
    <3>3. \A r \in Slots \ Overlapping :
              Len(credited'[r]) <= reopens'[r] + (IF status'[r] = "APPROVED" THEN 1 ELSE 0)
          BY <2>0, <3>1, <3>2
    <3>4. \A c \in Calls :
              Unwritten(c)' /\ found'[c] /\ Slot[c] \notin Overlapping
                  => status'[Slot[c]] \notin {"PENDING", "APPROVED"}
          BY <3>1
    <3>5. QED BY <3>1, <3>3, <3>4
  <2>13. ASSUME UNCHANGED <<status, credited, reopens, step, found>>
         PROVE  SerialInv'
         BY <2>13
  <2>14. ASSUME NEW a \in Admins, NEW s \in Slots, BeginApprove(a, s)
         PROVE  SerialInv'
         BY <2>13, <2>14 DEF BeginApprove
  <2>15. ASSUME NEW a \in Admins, AbandonApprove(a)
         PROVE  SerialInv'
         BY <2>13, <2>15 DEF AbandonApprove
  <2>16. ASSUME NEW o \in Offers, NEW c \in Coins, EditOffer(o, c)
         PROVE  SerialInv'
         BY <2>13, <2>16 DEF EditOffer
  <2>17. CASE NewDay
         BY <2>13, <2>17 DEF NewDay
  <2>18. CASE UNCHANGED vars
         BY <2>13, <2>18 DEF vars
  <2>19. QED BY <2>1, <2>3, <2>4, <2>5, <2>6, <2>7, <2>9, <2>10, <2>11, <2>12, <2>14, <2>15,
                <2>16, <2>17, <2>18
             DEF Next, SubmitStep, RowStep
<1>3. TypeOK /\ SerialInv => RewardedOnceInTurn
  <2> SUFFICES ASSUME TypeOK, SerialInv, NEW s \in Slots \ Overlapping
               PROVE  Len(credited[s]) <= 1 + reopens[s]
      BY DEF RewardedOnceInTurn, Once
  <2>1. Len(credited[s]) \in Nat /\ reopens[s] \in Nat
        BY ConstantsAssumption DEF TypeOK
  <2>2. QED BY <2>1 DEF SerialInv
<1>4. QED BY <1>1, <1>2, <1>3, SubmissionTypes, PTL DEF Spec
-------------------------------------------------------------------------------
\* What a pending row promises was quoted to a call of its user.
Quoted(s, coins) == \E c \in Calls : Slot[c] = s /\ step[c] \in {"written", "over"} /\ quote[c] = coins
QuotedInv == \A s \in Slots : status[s] = "PENDING" => Quoted(s, reward[s])

\* A call that has written keeps what it read.
LEMMA QuotesStay ==
    ASSUME TypeOK, [Next]_vars, NEW s, NEW coins, Quoted(s, coins)
    PROVE  Quoted(s, coins)'
<1>1. PICK c \in Calls : Slot[c] = s /\ step[c] \in {"written", "over"} /\ quote[c] = coins
      BY DEF Quoted
<1>2. step'[c] \in {"written", "over"} /\ quote'[c] = coins
  <2> USE <1>1 DEF TypeOK, callVars, Advance, InFlight
  <2>1. ASSUME NEW d \in Calls, SubmitStep(d) PROVE step'[c] \in {"written", "over"} /\ quote'[c] = coins
        BY <2>1 DEF SubmitStep, Gate, CheckCaps, CheckImages, Resubmit, CreateSubmission, StoreImages, StopSubmit
  <2>2. ASSUME UNCHANGED callVars PROVE step'[c] \in {"written", "over"} /\ quote'[c] = coins
        BY <2>2
  <2>3. ASSUME NEW r \in Slots, RowStep(r) PROVE UNCHANGED callVars
        BY <2>3 DEF RowStep, Cancel, SetOutcome, Reopen, BeginApprove, CommitApprove
  <2>4. ASSUME NEW a \in Admins, AbandonApprove(a) PROVE UNCHANGED callVars
        BY <2>4 DEF AbandonApprove
  <2>5. ASSUME NEW o \in Offers, NEW n \in Coins, EditOffer(o, n) PROVE UNCHANGED callVars
        BY <2>5 DEF EditOffer
  <2>6. ASSUME NewDay \/ UNCHANGED vars PROVE UNCHANGED callVars
        BY <2>6 DEF NewDay, vars
  <2>7. QED BY <2>1, <2>2, <2>3, <2>4, <2>5, <2>6 DEF Next
<1>3. QED BY <1>1, <1>2 DEF Quoted

\* A credit is the reward some call of the user read when it submitted, however often the
\* offer is edited meanwhile and whoever approves (approveSubmission pays the row).
THEOREM CreditedAlwaysAsQuoted == Spec => []CreditedAsQuoted
<1> DEFINE Paid == \A s \in Slots : \A k \in 1..Len(credited[s]) : Quoted(s, credited[s][k])
<1>1. Init => QuotedInv /\ Paid
      BY DEF Init, QuotedInv
<1>2. TypeOK /\ QuotedInv /\ Paid /\ [Next]_vars => QuotedInv' /\ Paid'
  <2> SUFFICES ASSUME TypeOK, QuotedInv, Paid, [Next]_vars PROVE QuotedInv' /\ Paid'
      OBVIOUS
  <2> DEFINE Stays(s) == (status'[s] = "PENDING" => status[s] = "PENDING") /\ reward'[s] = reward[s]
  <2>1. ASSUME NEW s \in Slots, NEW coins, Quoted(s, coins) PROVE Quoted(s, coins)'
        BY <2>1, QuotesStay
  <2>2. ASSUME NEW s \in Slots, Stays(s), status'[s] = "PENDING" PROVE Quoted(s, reward[s])'
    <3>1. PICK coins : coins = reward[s]
          OBVIOUS
    <3>2. Quoted(s, coins)'
          BY <2>1, <2>2, <3>1 DEF QuotedInv
    <3>3. QED BY <2>2, <3>1, <3>2
  <2>3. ASSUME NEW s \in Slots, credited'[s] = credited[s]
        PROVE  \A k \in 1..Len(credited'[s]) : Quoted(s, credited[s][k])'
    <3> SUFFICES ASSUME NEW k \in 1..Len(credited[s]) PROVE Quoted(s, credited[s][k])'
        BY <2>3
    <3>1. PICK coins : coins = credited[s][k]
          OBVIOUS
    <3>2. Quoted(s, coins)'
          BY <2>1, <3>1
    <3>3. QED BY <2>3, <3>1, <3>2
  <2>4. ASSUME credited' = credited, \A s \in Slots : Stays(s) PROVE QuotedInv' /\ Paid'
        BY <2>2, <2>3, <2>4 DEF QuotedInv
  <2>5. ASSUME NEW c \in Calls, Resubmit(c) \/ CreateSubmission(c) PROVE QuotedInv' /\ Paid'
    <3>1. /\ status' = [status EXCEPT ![Slot[c]] = "PENDING"] /\ reward' = [reward EXCEPT ![Slot[c]] = quote[c]]
          /\ step' = [step EXCEPT ![c] = "written"] /\ UNCHANGED <<credited, quote>>
          BY <2>5 DEF Resubmit, CreateSubmission, WriteRow, Advance
    <3>2. Slot[c] \in Slots
          BY ConstantsAssumption
    <3>3. Quoted(Slot[c], reward[Slot[c]])'
      <4>1. reward'[Slot[c]] = quote'[c] /\ step'[c] = "written"
            BY <3>1, <3>2 DEF TypeOK
      <4>2. QED BY <4>1 DEF Quoted
    <3>4. \A s \in Slots : s # Slot[c] => Stays(s)
          BY <3>1 DEF TypeOK
    <3>5. QuotedInv'
          BY <3>3, <3>4, <2>2 DEF QuotedInv
    <3>6. QED BY <3>1, <3>5, <2>3
  <2>6. ASSUME NEW s \in Slots, Cancel(s) \/ Reopen(s) PROVE QuotedInv' /\ Paid'
        BY <2>4, <2>6 DEF Cancel, Reopen, Reopened, SetStatus, TypeOK
  <2>7. ASSUME NEW s \in Slots, NEW outcome \in {"REJECTED", "NEED_MORE_PROOF"}, SetOutcome(s, outcome)
        PROVE  QuotedInv' /\ Paid'
        BY <2>4, <2>7 DEF SetOutcome, SetStatus, TypeOK
  <2>8. ASSUME NEW a \in Admins, NEW s \in Slots, CommitApprove(a, s) PROVE QuotedInv' /\ Paid'
    <3>1. status[s] = "PENDING" /\ \A r \in Slots : Stays(r)
          BY <2>8 DEF CommitApprove, CanApprove, SetStatus, TypeOK
    <3>2. credited' = [credited EXCEPT ![s] = Append(credited[s], reward[s])]
          BY <2>8 DEF CommitApprove, Payout
    <3>3. \A r \in Slots : r # s => credited'[r] = credited[r]
          BY <3>2 DEF TypeOK
    <3>4. /\ credited[s] \in Seq(Coins \cup {0}) /\ reward[s] \in Coins \cup {0}
          /\ credited'[s] = Append(credited[s], reward[s])
          BY <3>2 DEF TypeOK
    <3>5. ASSUME NEW k \in 1..Len(credited'[s]) PROVE Quoted(s, credited[s][k])'
      <4>1. PICK coins : coins = credited'[s][k]
            OBVIOUS
      <4>2. (k \in 1..Len(credited[s]) /\ coins = credited[s][k]) \/ coins = reward[s]
            BY <3>4, <4>1
      <4>3. Quoted(s, coins)
            BY <4>2, <3>1 DEF QuotedInv
      <4>4. QED BY <2>1, <4>1, <4>3
    <3>6. Paid'
      <4> SUFFICES ASSUME NEW r \in Slots PROVE \A k \in 1..Len(credited'[r]) : Quoted(r, credited[r][k])'
          OBVIOUS
      <4>1. QED BY <2>3, <3>3, <3>5
    <3>7. QED BY <3>1, <3>6, <2>2 DEF QuotedInv
  <2>9. CASE Frame
        BY <2>4, <2>9 DEF Frame
  <2>10. QED BY <2>5, <2>6, <2>7, <2>8, <2>9, Effects
<1>3. Paid => CreditedAsQuoted
      BY DEF CreditedAsQuoted, Quoted
<1>4. QED BY <1>1, <1>2, <1>3, SubmissionTypes, PTL DEF Spec

-------------------------------------------------------------------------------
\* The limits.  A call of a user who has no other in flight keeps the room it has found
\* under the daily limit; the only admin keeps the room under the cap on rewards.
Admitted(c) == step[c] \in {"capped", "hashed", "written"}
DailyInv ==
    /\ \A s \in Slots : IsFiniteSet(ShotsOf(today, s))
    /\ \A c, d \in Calls :
          InFlight(c) /\ InFlight(d) /\ Slot[c] = Slot[d] /\ Slot[c] \notin Overlapping => c = d
    /\ WithinDailyLimit
    /\ \A c \in Calls : Admitted(c) /\ Slot[c] \notin Overlapping =>
          Cardinality(ShotsOf(today, Slot[c])) + Cardinality(Shots[c]) <= DailyLimit

\* The images of a call beside those of others.
LEMMA MoreShots ==
    ASSUME NEW calls, NEW c \in Calls, IsFiniteSet(ShotsOf(calls, Slot[c]))
    PROVE  /\ IsFiniteSet(ShotsOf(calls \cup {c}, Slot[c]))
           /\ Cardinality(ShotsOf(calls \cup {c}, Slot[c])) <= Cardinality(ShotsOf(calls, Slot[c])) + Cardinality(Shots[c])
           /\ \A s : s # Slot[c] => ShotsOf(calls \cup {c}, s) = ShotsOf(calls, s)
<1> DEFINE own == {c} \X Shots[c]
           before == ShotsOf(calls, Slot[c])
<1>1. ShotsOf(calls \cup {c}, Slot[c]) = before \cup own
      BY DEF ShotsOf
<1>2. IsFiniteSet(Shots[c]) /\ IsFiniteSet({c}) /\ Cardinality({c}) = 1
      BY ConstantsAssumption, FS_Singleton
<1>3. Cardinality(Shots[c]) \in Nat
      BY <1>2, FS_CardinalityType
<1>4. IsFiniteSet(own) /\ Cardinality(own) = Cardinality(Shots[c])
  <2>1. IsFiniteSet(own) /\ Cardinality(own) = Cardinality({c}) * Cardinality(Shots[c])
        BY <1>2, FS_Product
  <2>2. QED BY <2>1, <1>2, <1>3
<1>5. /\ IsFiniteSet(before \cup own)
      /\ Cardinality(before \cup own) = Cardinality(before) + Cardinality(own) - Cardinality(before \cap own)
      BY <1>4, FS_Union
<1>6. IsFiniteSet(before \cap own)
      BY FS_Intersection
<1>7. Cardinality(before) \in Nat /\ Cardinality(before \cap own) \in Nat
      BY <1>6, FS_CardinalityType
<1>8. \A s : s # Slot[c] => ShotsOf(calls \cup {c}, s) = ShotsOf(calls, s)
      BY DEF ShotsOf
<1> HIDE DEF own, before
<1>9. Cardinality(before \cup own) <= Cardinality(before) + Cardinality(Shots[c])
      BY <1>3, <1>4, <1>5, <1>7
<1>10. QED BY <1>1, <1>5, <1>8, <1>9 DEF before

LEMMA DailyInit == Init => DailyInv
<1> SUFFICES ASSUME Init PROVE DailyInv
    OBVIOUS
<1>1. \A s \in Slots : ShotsOf(today, s) = {}
      BY DEF Init, ShotsOf
<1>2. IsFiniteSet({}) /\ Cardinality({}) = 0
      BY FS_EmptySet
<1>3. \A c \in Calls : step[c] = "idle"
      BY DEF Init
<1>4. DailyLimit \in Nat
      BY ConstantsAssumption
<1>5. WithinDailyLimit
      BY <1>1, <1>2, <1>4 DEF WithinDailyLimit
<1>6. \A s \in Slots : IsFiniteSet(ShotsOf(today, s))
      BY <1>1, <1>2
<1>7. QED BY <1>3, <1>5, <1>6 DEF DailyInv, InFlight, Admitted

LEMMA DailyStep ==
    ASSUME TypeOK, DailyInv, [Next]_vars
    PROVE  DailyInv'
<1>c. /\ Slot \in [Calls -> Slots] /\ DailyLimit \in Nat
      /\ \A c \in Calls : Cardinality(Shots[c]) \in Nat
      BY ConstantsAssumption, FS_CardinalityType
<1>s. \A s \in Slots : Cardinality(ShotsOf(today, s)) \in Nat
      BY FS_CardinalityType DEF DailyInv
<1>1. ASSUME UNCHANGED <<step, today>> PROVE DailyInv'
  <2>1. \A s : ShotsOf(today, s)' = ShotsOf(today, s)
        BY <1>1 DEF ShotsOf
  <2>2. QED BY <1>1, <2>1 DEF DailyInv, InFlight, Admitted, WithinDailyLimit
<1>2. ASSUME NEW c \in Calls, Gate(c) PROVE DailyInv'
  <2>1. /\ step[c] = "idle" /\ step' = [step EXCEPT ![c] = "gated"] /\ UNCHANGED today
        /\ Slot[c] \notin Overlapping => \A d \in Calls : Slot[d] = Slot[c] => ~InFlight(d)
        BY <1>2 DEF Gate, Advance, rowVars
  <2>2. QED BY <2>1 DEF TypeOK, DailyInv, InFlight, Admitted, WithinDailyLimit, ShotsOf
<1>3. ASSUME NEW c \in Calls, CheckCaps(c) PROVE DailyInv'
  <2>1. /\ step[c] = "gated" /\ step' = [step EXCEPT ![c] = "capped"] /\ UNCHANGED today
        /\ Cardinality(ShotsOf(today, Slot[c])) + Cardinality(Shots[c]) <= DailyLimit
        BY <1>3 DEF CheckCaps, WithinCaps, Advance, rowVars
  <2>2. QED BY <2>1 DEF TypeOK, DailyInv, InFlight, Admitted, WithinDailyLimit, ShotsOf
<1>4. ASSUME NEW c \in Calls, NEW at, NEW next \in {"hashed", "written", "over"}, InFlight(c),
             next = "over" \/ Admitted(c), step' = [step EXCEPT ![c] = next], UNCHANGED today
      PROVE  DailyInv'
      BY <1>4 DEF TypeOK, DailyInv, InFlight, Admitted, WithinDailyLimit, ShotsOf
<1>5. ASSUME NEW c \in Calls, CheckImages(c) PROVE DailyInv'
      BY <1>4, <1>5 DEF CheckImages, Advance, InFlight, Admitted, rowVars
<1>6. ASSUME NEW c \in Calls, Resubmit(c) \/ CreateSubmission(c) PROVE DailyInv'
      BY <1>4, <1>6 DEF Resubmit, CreateSubmission, WriteRow, Advance, InFlight, Admitted
<1>7. ASSUME NEW c \in Calls, StopSubmit(c) PROVE DailyInv'
      BY <1>4, <1>7 DEF StopSubmit, Advance, rowVars
<1>8. ASSUME NEW c \in Calls, StoreImages(c) PROVE DailyInv'
  <2>1. step[c] = "written" /\ step' = [step EXCEPT ![c] = "over"] /\ today' = today \cup {c}
        BY <1>8 DEF StoreImages, Advance
  <2>2. /\ IsFiniteSet(ShotsOf(today', Slot[c]))
        /\ Cardinality(ShotsOf(today', Slot[c])) <= Cardinality(ShotsOf(today, Slot[c])) + Cardinality(Shots[c])
        /\ \A s : s # Slot[c] => ShotsOf(today', s) = ShotsOf(today, s)
        BY <2>1, <1>c, MoreShots DEF DailyInv
  <2>3. \A s : ShotsOf(today, s)' = ShotsOf(today', s)
        BY DEF ShotsOf
  <2>4. Cardinality(ShotsOf(today', Slot[c])) \in Nat
        BY <2>2, FS_CardinalityType
  <2>5. Slot[c] \notin Overlapping => Cardinality(ShotsOf(today', Slot[c])) <= DailyLimit
        BY <2>1, <2>2, <2>4, <1>c, <1>s DEF DailyInv, Admitted
  <2>6. \A d \in Calls : Admitted(d)' /\ Slot[d] \notin Overlapping => d # c /\ Admitted(d) /\ Slot[d] # Slot[c]
        BY <2>1 DEF TypeOK, Admitted, DailyInv, InFlight
  <2>7. \A b, d \in Calls :
            (InFlight(b) /\ InFlight(d))' /\ Slot[b] = Slot[d] /\ Slot[b] \notin Overlapping => b = d
        BY <2>1 DEF TypeOK, InFlight, DailyInv
  <2>8. WithinDailyLimit'
        BY <2>2, <2>3, <2>5 DEF DailyInv, WithinDailyLimit
  <2>9. QED BY <2>2, <2>3, <2>6, <2>7, <2>8 DEF DailyInv
<1>9. ASSUME NewDay PROVE DailyInv'
  <2>1. today' = {} /\ step' = step
        BY <1>9 DEF NewDay, callVars
  <2>2. \A s \in Slots : ShotsOf(today, s)' = {}
        BY <2>1 DEF ShotsOf
  <2>3. IsFiniteSet({}) /\ Cardinality({}) = 0
        BY FS_EmptySet
  <2>4. \A c \in Calls : Admitted(c) /\ Slot[c] \notin Overlapping => 0 + Cardinality(Shots[c]) <= DailyLimit
        BY <1>c, <1>s DEF DailyInv
  <2>5. \A s \in Slots : IsFiniteSet(ShotsOf(today, s)') /\ Cardinality(ShotsOf(today, s)') = 0
        BY <2>2, <2>3
  <2>6. \A c \in Calls : Cardinality(ShotsOf(today, Slot[c])') = 0
        BY <2>2, <2>3, <1>c
  <2>7. \A c \in Calls : Admitted(c)' = Admitted(c) /\ InFlight(c)' = InFlight(c)
        BY <2>1 DEF Admitted, InFlight
  <2>8. \A c \in Calls : Admitted(c)' /\ Slot[c] \notin Overlapping =>
            Cardinality(ShotsOf(today, Slot[c])') + Cardinality(Shots[c]) <= DailyLimit
        BY <2>4, <2>6, <2>7
  <2>9. WithinDailyLimit'
        BY <2>5, <1>c DEF WithinDailyLimit
  <2>10. QED BY <2>5, <2>7, <2>8, <2>9 DEF DailyInv
<1>10. ASSUME NEW s \in Slots, RowStep(s) PROVE UNCHANGED <<step, today>>
       BY <1>10 DEF RowStep, Cancel, SetOutcome, Reopen, BeginApprove, CommitApprove, rowVars, callVars
<1>11. ASSUME NEW a \in Admins, AbandonApprove(a) PROVE UNCHANGED <<step, today>>
       BY <1>11 DEF AbandonApprove, rowVars, callVars
<1>12. ASSUME NEW o \in Offers, NEW n \in Coins, EditOffer(o, n) PROVE UNCHANGED <<step, today>>
       BY <1>12 DEF EditOffer, rowVars, callVars
<1>13. ASSUME UNCHANGED vars PROVE UNCHANGED <<step, today>>
       BY <1>13 DEF vars, rowVars, callVars
<1>14. QED BY <1>1, <1>2, <1>3, <1>5, <1>6, <1>7, <1>8, <1>9, <1>10, <1>11, <1>12, <1>13 DEF Next, SubmitStep

\* An approval under way by the only admin has room.
CapInv ==
    Cardinality(Admins) = 1 =>
        /\ WithinRewardCap
        /\ \A a \in Admins : reviewing[a] # NoSlot => UnderRewardCap(reviewing[a])

\* Of an offer there are finitely many approved rows.
LEMMA ApprovedFinite == \A o : IsFiniteSet(Approved(o)) /\ Cardinality(Approved(o)) \in Nat
<1> SUFFICES ASSUME NEW o PROVE IsFiniteSet(Approved(o)) /\ Cardinality(Approved(o)) \in Nat
    OBVIOUS
<1>1. Approved(o) \in SUBSET Slots /\ IsFiniteSet(Slots)
      BY ConstantsAssumption DEF Approved
<1>2. IsFiniteSet(Approved(o))
      BY <1>1, FS_Subset
<1>3. QED BY <1>2, FS_CardinalityType

LEMMA CapStep ==
    ASSUME TypeOK, CapInv, [Next]_vars, Cardinality(Admins) = 1
    PROVE  CapInv'
<1>c. MaxRewards \in Nat /\ Offer \in [Slots -> Offers] /\ NoSlot \notin Slots
      BY ConstantsAssumption
<1>a. \A a, b \in Admins : a = b
      BY ConstantsAssumption, FS_Singleton
<1>f. \A o : Cardinality(Approved(o)) \in Nat /\ Cardinality(Approved(o)') \in Nat
  <2>1. \A o : IsFiniteSet(Approved(o)') /\ Cardinality(Approved(o)') \in Nat
    <3> SUFFICES ASSUME NEW o PROVE IsFiniteSet(Approved(o)') /\ Cardinality(Approved(o)') \in Nat
        OBVIOUS
    <3>1. Approved(o)' \in SUBSET Slots /\ IsFiniteSet(Slots)
          BY ConstantsAssumption DEF Approved
    <3>2. IsFiniteSet(Approved(o)')
          BY <3>1, FS_Subset
    <3>3. QED BY <3>2, FS_CardinalityType
  <2>2. QED BY <2>1, ApprovedFinite
<1>1. ASSUME \A s \in Slots : status'[s] = "APPROVED" => status[s] = "APPROVED",
             \A b \in Admins : reviewing'[b] # NoSlot =>
                 reviewing'[b] = reviewing[b] \/ UnderRewardCap(reviewing'[b])
      PROVE  CapInv'
  <2>1. \A o : Cardinality(Approved(o)') <= Cardinality(Approved(o))
    <3> SUFFICES ASSUME NEW o PROVE Cardinality(Approved(o)') <= Cardinality(Approved(o))
        OBVIOUS
    <3>1. Approved(o)' \in SUBSET Approved(o)
          BY <1>1 DEF Approved
    <3>2. QED BY <3>1, ApprovedFinite, FS_Subset
  <2>2. WithinRewardCap'
        BY <2>1, <1>c, <1>f DEF CapInv, WithinRewardCap
  <2>3. \A a \in Admins : reviewing'[a] # NoSlot => UnderRewardCap(reviewing'[a])
        BY <1>1 DEF CapInv
  <2>4. \A s : UnderRewardCap(s) => UnderRewardCap(s)'
        BY <2>1, <1>c, <1>f DEF UnderRewardCap
  <2>5. QED BY <2>2, <2>3, <2>4 DEF CapInv, UnderRewardCap
<1>2. ASSUME NEW c \in Calls, SubmitStep(c) PROVE CapInv'
  <2>1. reviewing' = reviewing /\ \A s \in Slots : status'[s] = "APPROVED" => status[s] = "APPROVED"
        BY <1>2 DEF SubmitStep, Gate, CheckCaps, CheckImages, Resubmit, CreateSubmission, WriteRow, StoreImages, StopSubmit,
           rowVars, TypeOK
  <2>2. QED BY <2>1, <1>1
<1>3. ASSUME NEW s \in Slots, Cancel(s) \/ Reopen(s) \/ \E outcome \in {"REJECTED", "NEED_MORE_PROOF"} : SetOutcome(s, outcome)
      PROVE  CapInv'
  <2>1. reviewing' = reviewing /\ \A r \in Slots : status'[r] = "APPROVED" => status[r] = "APPROVED"
        BY <1>3 DEF Cancel, Reopen, Reopened, SetOutcome, SetStatus, TypeOK
  <2>2. QED BY <2>1, <1>1
<1>4. ASSUME NEW a \in Admins, NEW s \in Slots, BeginApprove(a, s) PROVE CapInv'
  <2>1. reviewing' = [reviewing EXCEPT ![a] = s] /\ UnderRewardCap(s) /\ status' = status
        BY <1>4 DEF BeginApprove, rowVars
  <2>2. QED BY <2>1, <1>1 DEF TypeOK
<1>5. ASSUME NEW a \in Admins, AbandonApprove(a) PROVE CapInv'
  <2>1. reviewing' = [reviewing EXCEPT ![a] = NoSlot] /\ status' = status
        BY <1>5 DEF AbandonApprove, rowVars
  <2>2. QED BY <2>1, <1>1 DEF TypeOK
<1>6. ASSUME NEW a \in Admins, NEW s \in Slots, CommitApprove(a, s) PROVE CapInv'
  <2>1. /\ reviewing[a] = s /\ status' = [status EXCEPT ![s] = "APPROVED"]
        /\ reviewing' = [reviewing EXCEPT ![a] = NoSlot]
        BY <1>6 DEF CommitApprove, SetStatus
  <2>2. Cardinality(Approved(Offer[s])) < MaxRewards
        BY <2>1, <1>c DEF CapInv, UnderRewardCap
  <2>3. Approved(Offer[s])' = Approved(Offer[s]) \cup {s}
        BY <2>1 DEF Approved, TypeOK
  <2>4. Cardinality(Approved(Offer[s])') <= MaxRewards
    <3> DEFINE before == Approved(Offer[s])
               after == Approved(Offer[s])'
    <3>1. IsFiniteSet(before) /\ Cardinality(before) \in Nat /\ Cardinality(before) < MaxRewards
          BY <2>2, ApprovedFinite
    <3>2. Cardinality(before \cup {s}) = IF s \in before THEN Cardinality(before) ELSE Cardinality(before) + 1
          BY <3>1, FS_AddElement
    <3>3. after = before \cup {s}
          BY <2>3
    <3> HIDE DEF before, after
    <3>4. Cardinality(after) <= MaxRewards
          BY <3>1, <3>2, <3>3, <1>c
    <3>5. QED BY <3>4 DEF after
  <2>5. \A o : o # Offer[s] => Approved(o)' = Approved(o)
        BY <2>1 DEF Approved, TypeOK
  <2>6. WithinRewardCap'
        BY <2>4, <2>5 DEF CapInv, WithinRewardCap
  <2>7. \A b \in Admins : reviewing'[b] = NoSlot
        BY <2>1, <1>a DEF TypeOK
  <2>8. QED BY <2>6, <2>7 DEF CapInv
<1>7. ASSUME UNCHANGED <<status, reviewing>> PROVE CapInv'
      BY <1>7, <1>1
<1>8. ASSUME NEW o \in Offers, NEW n \in Coins, EditOffer(o, n) PROVE UNCHANGED <<status, reviewing>>
      BY <1>8 DEF EditOffer, rowVars
<1>9. ASSUME NewDay \/ UNCHANGED vars PROVE UNCHANGED <<status, reviewing>>
      BY <1>9 DEF NewDay, vars, rowVars
<1>10. QED BY <1>2, <1>3, <1>4, <1>5, <1>6, <1>7, <1>8, <1>9 DEF Next, RowStep

\* A user who submits one proof at a time stays within the daily limit, and one approving
\* admin within the cap on rewards (submitProof, approveSubmission).
THEOREM LimitsKept == Spec => [](WithinDailyLimit /\ WithinRewardCap)
<1>1. Init => CapInv
  <2> SUFFICES ASSUME Init PROVE CapInv
      OBVIOUS
  <2>1. \A o : Approved(o) = {}
        BY DEF Init, Approved
  <2>2. Cardinality({}) = 0 /\ MaxRewards \in Nat
        BY FS_EmptySet, ConstantsAssumption
  <2>3. WithinRewardCap
        BY <2>1, <2>2 DEF WithinRewardCap
  <2>4. \A a \in Admins : reviewing[a] = NoSlot
        BY DEF Init
  <2>5. QED BY <2>3, <2>4 DEF CapInv
<1>2. TypeOK /\ CapInv /\ [Next]_vars => CapInv'
      BY CapStep DEF CapInv
<1>3. TypeOK /\ DailyInv /\ [Next]_vars => DailyInv'
      BY DailyStep
<1>4. DailyInv /\ CapInv => WithinDailyLimit /\ WithinRewardCap
      BY DEF DailyInv, CapInv, WithinRewardCap
<1>5. QED BY <1>1, <1>2, <1>3, <1>4, DailyInit, SubmissionTypes, PTL DEF Spec

-------------------------------------------------------------------------------
Loads(a) == asker[a].does \in {"load", "loaded"}

\* What a load has seen.  While its version is in force, that is everything acknowledged;
\* and whoever shares it asked while that was so.
CacheInv ==
    /\ snapshot.value # Cache!Empty => snapshot.value >= told
    /\ \A a \in Askers : asker[a].since <= told
    /\ \A a \in Askers : asker[a].does = "loaded" =>
           /\ asker[a].version = version => asker[a].seen >= told
           /\ asker[a].seen >= asker[a].since
    /\ loading.by # NoAsker => Loads(loading.by) /\ asker[loading.by].version = loading.version
    /\ \A a, b \in Askers :
           asker[b].does = "join" /\ asker[b].leader = a /\ asker[a].does = "loaded" => asker[a].seen >= asker[b].since
    /\ \A a \in Askers : asker[a].does = "join" => asker[a].leader # a
    /\ version + (IF committing THEN 1 ELSE 0) <= stored

SettingsInv == Cache!TypeOK /\ CacheInv /\ Cache!UpdatesAreSeen

\* What asks and loads have in their records.
AskerRecord ==
    [does : {"idle", "join", "load", "loaded"}, since : 0..MaxUpdates,
     version : 0..version, seen : 0..MaxUpdates, leader : Askers \cup {NoAsker}]

LEMMA SettingsInit == Cache!Init => SettingsInv
<1> SUFFICES ASSUME Cache!Init PROVE SettingsInv
    OBVIOUS
<1> USE SettingsBounds
<1>1. version = 0 /\ stored = 0 /\ told = 0 /\ mishaps = 0 /\ committing = FALSE /\ outdated = FALSE
      BY DEF Cache!Init
<1>2. Cache!Quiet \in AskerRecord
      BY <1>1 DEF Cache!Quiet, AskerRecord
<1>3. asker \in [Askers -> AskerRecord]
      BY <1>2 DEF Cache!Init
<1>4. snapshot \in [value : 0..Cache!Empty, fresh : BOOLEAN] /\ snapshot.value = Cache!Empty
      BY DEF Cache!Init, Cache!NoSnapshot, Cache!Empty
<1>5. loading \in [version : 0..version, by : Askers \cup {NoAsker}] /\ loading.by = NoAsker
      BY <1>1 DEF Cache!Init, Cache!NoLoad
<1>6. Cache!TypeOK
  <2>1. committing \in BOOLEAN
        BY <1>1, Zenon
  <2>2. stored \in 0..MaxUpdates /\ told \in 0..stored /\ version \in 0..MaxUpdates /\ mishaps \in 0..MaxMishaps
        BY <1>1
  <2>3. QED BY <2>1, <2>2, <1>3, <1>4, <1>5 DEF Cache!TypeOK, AskerRecord
<1>7. \A a \in Askers : asker[a].does = "idle" /\ asker[a].since = 0
      BY DEF Cache!Init, Cache!Quiet
<1>8. CacheInv
      BY <1>1, <1>4, <1>5, <1>7 DEF CacheInv
<1>9. QED BY <1>1, <1>6, <1>8 DEF SettingsInv, Cache!UpdatesAreSeen

\* A call that enters overrides() is answered with what was acknowledged before it began.
LEMMA EnterKeeps ==
    ASSUME SettingsInv, NEW a \in Askers, NEW since \in 0..MaxUpdates, since <= told,
           NEW answered \in SUBSET Askers, \A b \in answered : asker[b].does = "join",
           NEW missed, ~missed,
           ~Loads(a) \/ asker[a].version # version,
           Cache!Enter(a, since, answered, missed),
           UNCHANGED <<stored, told, snapshot, version, committing, mishaps>>
    PROVE  SettingsInv'
<1> USE SettingsBounds
<1>t. Cache!TypeOK /\ CacheInv /\ ~outdated
      BY DEF SettingsInv, Cache!UpdatesAreSeen
<1>r. asker \in [Askers -> AskerRecord] /\ version \in Nat /\ told \in Nat /\ stored \in Nat
      BY <1>t DEF Cache!TypeOK, AskerRecord
<1>q. Cache!Quiet \in AskerRecord /\ Cache!Quiet.does = "idle" /\ Cache!Quiet.since = 0
      BY <1>r DEF Cache!Quiet, AskerRecord
<1>l. loading.by # NoAsker => loading.by \in Askers /\ loading.by \notin answered
      BY <1>t DEF Cache!TypeOK, CacheInv, Loads
<1>b. loading.by # NoAsker /\ loading.version = version => loading.by # a
      BY <1>t DEF CacheInv
\* What the records are once a's is replaced and the answered ones are done.
<1>k. ASSUME NEW next \in AskerRecord, Cache!Becomes(a, next, answered), next.since <= told,
             next.does \in {"idle", "join", "load"},
             next.does = "join" => next.leader = loading.by /\ loading.by # NoAsker /\ loading.version = version
                                   /\ loading.by # a,
             \/ loading' = loading /\ loading.by # a
             \/ loading' = Cache!NoLoad
             \/ loading' = [version |-> version, by |-> a] /\ next.does = "load" /\ next.version = version,
             ~outdated'
      PROVE  SettingsInv'
  <2>1. asker' \in [Askers -> AskerRecord]
        BY <1>k, <1>r, <1>q DEF Cache!Becomes
  <2>2. asker'[a] = next /\ \A b \in Askers \ {a} : asker'[b] = asker[b] \/ (b \in answered /\ asker'[b] = Cache!Quiet)
        BY <1>k DEF Cache!Becomes
  <2>3. \A b \in Askers \ {a} : b \notin answered => asker'[b] = asker[b]
        BY <1>k DEF Cache!Becomes
  <2>4. loading' \in [version : 0..version, by : Askers \cup {NoAsker}]
        BY <1>k, <1>t, <1>r DEF Cache!TypeOK, Cache!NoLoad
  <2>5. Cache!TypeOK'
        BY <2>1, <2>4, <1>t DEF Cache!TypeOK, AskerRecord, Cache!Empty
  <2>6. \A b \in Askers : asker'[b].since <= told
        BY <2>2, <1>k, <1>q, <1>r, <1>t DEF CacheInv
  <2>7. \A b \in Askers : asker'[b].does = "loaded" => asker'[b] = asker[b]
        BY <2>2, <1>k, <1>q
  <2>8. loading'.by # NoAsker => Loads(loading.by)' /\ asker'[loading'.by].version = loading'.version
    <3>1. CASE loading' = loading /\ loading.by # a
      <4>1. loading.by # NoAsker => asker'[loading.by] = asker[loading.by]
            BY <3>1, <2>3, <1>l
      <4>2. QED BY <4>1, <3>1, <1>t DEF CacheInv, Loads
    <3>2. CASE loading' = Cache!NoLoad
          BY <3>2 DEF Cache!NoLoad
    <3>3. CASE loading' = [version |-> version, by |-> a] /\ next.does = "load" /\ next.version = version
          BY <3>3, <2>2 DEF Loads
    <3>4. QED BY <3>1, <3>2, <3>3, <1>k
  <2>9. ASSUME NEW c \in Askers, NEW b \in Askers,
               asker'[b].does = "join", asker'[b].leader = c, asker'[c].does = "loaded"
        PROVE  asker'[c].seen >= asker'[b].since
    <3>1. asker'[c] = asker[c] /\ c # a
          BY <2>7, <2>9, <2>2, <1>k
    <3>2. CASE b = a
      <4>1. c = loading.by /\ asker[c].version = version /\ asker[c].does = "loaded"
            BY <3>1, <3>2, <2>2, <2>9, <1>k, <1>t DEF CacheInv
      <4>2. asker[c].seen >= told
            BY <4>1, <1>t DEF CacheInv
      <4>3. asker[c].seen \in Nat /\ next.since \in Nat
            BY <1>r DEF AskerRecord
      <4>4. QED BY <3>1, <3>2, <4>2, <4>3, <2>2, <1>k, <1>r
    <3>3. CASE b # a
      <4>1. asker'[b] = asker[b]
            BY <3>3, <2>2, <2>9, <1>q
      <4>2. QED BY <3>1, <4>1, <2>9, <1>t DEF CacheInv
    <3>4. QED BY <3>2, <3>3
  <2>10. \A b \in Askers : asker'[b].does = "join" => asker'[b].leader # b
        BY <2>2, <1>k, <1>q, <1>t DEF CacheInv
  <2>11. \A b \in Askers : asker'[b].does = "loaded" =>
              /\ asker'[b].version = version => asker'[b].seen >= told
              /\ asker'[b].seen >= asker'[b].since
        BY <2>7, <1>t DEF CacheInv
  <2>12. snapshot'.value # Cache!Empty => snapshot'.value >= told'
        BY <1>t DEF CacheInv
  <2>13. version' + (IF committing' THEN 1 ELSE 0) <= stored'
        BY <1>t DEF CacheInv
  <2>14. CacheInv'
        BY <2>6, <2>8, <2>9, <2>10, <2>11, <2>12, <2>13 DEF CacheInv
  <2>15. QED BY <2>5, <2>14, <1>k DEF SettingsInv, Cache!UpdatesAreSeen
<1>1. CASE Cache!IsFresh /\ Cache!Becomes(a, Cache!Quiet, answered)
           /\ outdated' = (outdated \/ missed \/ snapshot.value < since)
           /\ loading' = IF loading.by = a THEN Cache!NoLoad ELSE loading
  <2>1. snapshot.value \in Nat /\ snapshot.value >= told
        BY <1>1, <1>t DEF Cache!TypeOK, CacheInv, Cache!IsFresh, Cache!Empty
  <2>2. ~(snapshot.value < since)
        BY <2>1, <1>r
  <2>3. ~outdated'
        BY <2>2, <1>1, <1>t, Zenon
  <2>4. Cache!Quiet.since <= told /\ Cache!Quiet.does \in {"idle", "join", "load"} /\ Cache!Quiet.does # "join"
        BY <1>q, <1>r
  <2>5. (loading' = loading /\ loading.by # a) \/ loading' = Cache!NoLoad
        BY <1>1
  <2>6. QED BY <1>1, <2>3, <2>4, <2>5, <1>q, <1>k
<1>2. CASE /\ ~Cache!IsFresh /\ Cache!IsLoading
           /\ Cache!Becomes(a, [Cache!Quiet EXCEPT !.does = "join", !.since = since, !.leader = loading.by], answered)
           /\ outdated' = (outdated \/ missed)
           /\ UNCHANGED loading
  <2> DEFINE next == [Cache!Quiet EXCEPT !.does = "join", !.since = since, !.leader = loading.by]
  <2>1. loading.by # NoAsker /\ loading.version = version
        BY <1>2 DEF Cache!IsLoading
  <2>2. next \in AskerRecord /\ next.does = "join" /\ next.since = since /\ next.leader = loading.by
    <3>1. loading.by \in Askers \cup {NoAsker}
          BY <2>1, <1>l
    <3>2. QED BY <3>1, <1>q DEF AskerRecord
  <2> HIDE DEF next
  <2>3. ~outdated'
        BY <1>2, <1>t, Zenon
  <2>4. Cache!Becomes(a, next, answered) /\ loading' = loading
        BY <1>2 DEF next
  <2>5. QED BY <2>1, <2>2, <2>3, <2>4, <1>b, <1>k
<1>3. CASE /\ ~Cache!IsFresh /\ ~Cache!IsLoading
           /\ Cache!Becomes(a, [Cache!Quiet EXCEPT !.does = "load", !.since = since, !.version = version], answered)
           /\ loading' = [version |-> version, by |-> a]
           /\ outdated' = (outdated \/ missed)
  <2> DEFINE next == [Cache!Quiet EXCEPT !.does = "load", !.since = since, !.version = version]
  <2>1. next \in AskerRecord /\ next.does = "load" /\ next.since = since /\ next.version = version
    <3>1. version \in 0..version
          BY <1>r
    <3>2. QED BY <3>1, <1>q DEF AskerRecord
  <2> HIDE DEF next
  <2>2. ~outdated'
        BY <1>3, <1>t, Zenon
  <2>3. Cache!Becomes(a, next, answered) /\ loading' = [version |-> version, by |-> a]
        BY <1>3 DEF next
  <2>4. QED BY <2>1, <2>2, <2>3, <1>k
<1>4. QED BY <1>1, <1>2, <1>3 DEF Cache!Enter

LEMMA SettingsStep ==
    ASSUME SettingsInv, [Cache!Next]_settingsVars
    PROVE  SettingsInv'
<1> USE SettingsBounds
<1>t. Cache!TypeOK /\ CacheInv /\ ~outdated
      BY DEF SettingsInv, Cache!UpdatesAreSeen
<1>r. asker \in [Askers -> AskerRecord] /\ version \in Nat /\ told \in Nat /\ stored \in Nat
      BY <1>t DEF Cache!TypeOK, AskerRecord
<1>q. Cache!Quiet \in AskerRecord /\ Cache!Quiet.does = "idle" /\ Cache!Quiet.since = 0
      BY <1>r DEF Cache!Quiet, AskerRecord
<1>1. ASSUME NEW a \in Askers, Cache!Ask(a) PROVE SettingsInv'
  <2>1. told \in 0..MaxUpdates /\ told <= told
        BY <1>t DEF Cache!TypeOK
  <2>2. ~Loads(a) /\ Cache!Enter(a, told, {}, FALSE) /\ UNCHANGED <<stored, told, snapshot, version, committing, mishaps>>
        BY <1>1 DEF Cache!Ask, Loads
  <2>3. QED BY <2>1, <2>2, EnterKeeps
<1>2. ASSUME NEW a \in Askers, Cache!Load(a) PROVE SettingsInv'
  <2> DEFINE r == [asker[a] EXCEPT !.does = "loaded", !.seen = stored]
  <2>1. asker' = [asker EXCEPT ![a] = r] /\ asker[a].does = "load"
        BY <1>2, <1>r DEF Cache!Load
  <2>2. /\ r \in AskerRecord /\ r.does = "loaded" /\ r.seen = stored
        /\ r.since = asker[a].since /\ r.version = asker[a].version /\ r.leader = asker[a].leader
    <3>1. stored \in 0..MaxUpdates
          BY <1>t DEF Cache!TypeOK
    <3>2. QED BY <3>1, <1>r DEF AskerRecord
  <2> HIDE DEF r
  <2>3. asker'[a] = r /\ \A b \in Askers \ {a} : asker'[b] = asker[b]
        BY <2>1, <1>r
  <2>4. UNCHANGED <<stored, told, snapshot, version, loading, committing, outdated, mishaps>>
        BY <1>2 DEF Cache!Load
  <2>5. Cache!TypeOK'
        BY <2>1, <2>2, <2>4, <1>r, <1>t DEF Cache!TypeOK, AskerRecord, Cache!Empty
  <2>6. told <= stored
        BY <1>t DEF Cache!TypeOK
  <2>7. \A b \in Askers : asker'[b].since <= told /\ asker'[b].since \in Nat /\ asker'[b].since = asker[b].since
    <3>1. \A b \in Askers : asker[b].since <= told /\ asker[b].since \in Nat
          BY <1>r, <1>t DEF CacheInv, AskerRecord
    <3>2. QED BY <3>1, <2>2, <2>3
  <2>8. stored >= told /\ \A b \in Askers : stored >= asker'[b].since
        BY <2>6, <2>7, <1>r
  <2>9. CacheInv'
    <3>1. \A b \in Askers : asker'[b].does = "loaded" =>
              /\ asker'[b].version = version => asker'[b].seen >= told
              /\ asker'[b].seen >= asker'[b].since
          BY <2>2, <2>3, <2>8, <1>t DEF CacheInv
    <3>2. loading.by # NoAsker => Loads(loading.by)' /\ asker'[loading.by].version = loading.version
      <4>1. \A b \in Askers : Loads(b) => Loads(b)' /\ asker'[b].version = asker[b].version
            BY <2>2, <2>3 DEF Loads
      <4>2. loading.by # NoAsker => loading.by \in Askers
            BY <1>t DEF Cache!TypeOK
      <4>3. QED BY <4>1, <4>2, <2>4, <1>t DEF CacheInv
    <3>3. \A c, b \in Askers :
              asker'[b].does = "join" /\ asker'[b].leader = c /\ asker'[c].does = "loaded" =>
              asker'[c].seen >= asker'[b].since
          BY <2>2, <2>3, <2>8, <1>t DEF CacheInv
    <3>4. \A b \in Askers : asker'[b].does = "join" => asker'[b].leader # b
          BY <2>2, <2>3, <1>t DEF CacheInv
    <3>5. /\ snapshot.value # Cache!Empty => snapshot.value >= told
          /\ version + (IF committing THEN 1 ELSE 0) <= stored
          BY <1>t DEF CacheInv
    <3>6. QED BY <2>4, <2>7, <3>1, <3>2, <3>3, <3>4, <3>5 DEF CacheInv, Loads
  <2>10. QED BY <2>4, <2>5, <2>9, <1>t DEF SettingsInv, Cache!UpdatesAreSeen
\* Loads that end, for whoever shares them, change nothing but that.
<1>k. ASSUME NEW done \in SUBSET Askers,
             asker' = [b \in Askers |-> IF b \in done THEN Cache!Quiet ELSE asker[b]],
             (loading' = loading /\ loading.by \notin done) \/ loading' = Cache!NoLoad,
             UNCHANGED <<stored, told, version, committing>>,
             snapshot' \in [value : 0..Cache!Empty, fresh : BOOLEAN],
             snapshot'.value # Cache!Empty => snapshot'.value >= told,
             mishaps' \in 0..MaxMishaps,
             ~outdated'
      PROVE  SettingsInv'
  <2>1. asker' \in [Askers -> AskerRecord]
        BY <1>k, <1>r, <1>q
  <2>2. \A b \in Askers : (asker'[b] = asker[b] /\ b \notin done) \/ asker'[b] = Cache!Quiet
        BY <1>k
  <2>3. loading' \in [version : 0..version, by : Askers \cup {NoAsker}]
        BY <1>k, <1>t, <1>r DEF Cache!TypeOK, Cache!NoLoad
  <2>4. Cache!TypeOK'
        BY <2>1, <2>3, <1>k, <1>t DEF Cache!TypeOK, AskerRecord, Cache!Empty
  <2>5. \A b \in Askers : asker'[b].since <= told
        BY <2>2, <1>q, <1>r, <1>t DEF CacheInv
  <2>6. loading'.by # NoAsker => Loads(loading.by)' /\ asker'[loading'.by].version = loading'.version
    <3>1. CASE loading' = loading /\ loading.by \notin done
      <4>1. loading.by # NoAsker => loading.by \in Askers /\ asker'[loading.by] = asker[loading.by]
            BY <3>1, <1>k, <1>t DEF Cache!TypeOK
      <4>2. QED BY <4>1, <3>1, <1>t DEF CacheInv, Loads
    <3>2. CASE loading' = Cache!NoLoad
          BY <3>2 DEF Cache!NoLoad
    <3>3. QED BY <3>1, <3>2, <1>k
  <2>7. \A b \in Askers : asker'[b].does # "idle" => asker'[b] = asker[b]
        BY <2>2, <1>q
  <2>8. CacheInv'
    <3>1. /\ \A b \in Askers : asker'[b].does = "loaded" =>
                 /\ asker'[b].version = version => asker'[b].seen >= told
                 /\ asker'[b].seen >= asker'[b].since
          /\ \A c, b \in Askers :
                 asker'[b].does = "join" /\ asker'[b].leader = c /\ asker'[c].does = "loaded" =>
                 asker'[c].seen >= asker'[b].since
          /\ \A b \in Askers : asker'[b].does = "join" => asker'[b].leader # b
          BY <2>7, <1>t DEF CacheInv
    <3>2. version + (IF committing THEN 1 ELSE 0) <= stored
          BY <1>t DEF CacheInv
    <3>3. QED BY <2>5, <2>6, <3>1, <3>2, <1>k DEF CacheInv
  <2>9. QED BY <2>4, <2>8, <1>k DEF SettingsInv, Cache!UpdatesAreSeen
<1>3. ASSUME NEW a \in Askers, Cache!LoadFails(a) PROVE SettingsInv'
  <2> DEFINE done == Cache!Joined(a) \cup {a}
  <2>1. done \in SUBSET Askers /\ \A b \in done : b = a \/ asker[b].does = "join"
        BY DEF Cache!Joined
  <2>2. asker' = [b \in Askers |-> IF b \in done THEN Cache!Quiet ELSE asker[b]]
        BY <1>3 DEF Cache!LoadFails
  <2>3. (loading' = loading /\ loading.by \notin done) \/ loading' = Cache!NoLoad
    <3>1. loading.by = a => loading' = Cache!NoLoad
          BY <1>3 DEF Cache!LoadFails
    <3>2. loading.by # a => loading' = loading
          BY <1>3 DEF Cache!LoadFails
    <3>3. loading.by \in done => loading.by = a
          BY <2>1, <1>t DEF CacheInv, Loads
    <3>4. QED BY <3>1, <3>2, <3>3
  <2>4. mishaps' \in 0..MaxMishaps
        BY <1>3, <1>t DEF Cache!LoadFails, Cache!TypeOK
  <2>5. UNCHANGED <<stored, told, snapshot, version, committing, outdated>>
        BY <1>3 DEF Cache!LoadFails
  <2>6. snapshot \in [value : 0..Cache!Empty, fresh : BOOLEAN] /\ (snapshot.value # Cache!Empty => snapshot.value >= told)
        BY <1>t DEF Cache!TypeOK, CacheInv
  <2> HIDE DEF done
  <2>7. QED BY <2>1, <2>2, <2>3, <2>4, <2>5, <2>6, <1>k, <1>t
<1>4. ASSUME NEW a \in Askers, Cache!Keep(a) PROVE SettingsInv'
  <2>a. asker[a].does = "loaded" /\ UNCHANGED <<stored, told, version, committing, mishaps>>
        BY <1>4 DEF Cache!Keep
  <2>b. asker[a].seen >= asker[a].since /\ asker[a].since <= told /\ asker[a].since \in 0..MaxUpdates
        /\ asker[a].seen \in 0..MaxUpdates
        BY <2>a, <1>r, <1>t DEF CacheInv, AskerRecord
  <2>c. ~(\E b \in Cache!Joined(a) : asker[a].seen < asker[b].since)
    <3>1. SUFFICES ASSUME NEW b \in Cache!Joined(a) PROVE ~(asker[a].seen < asker[b].since)
          OBVIOUS
    <3>2. b \in Askers /\ asker[b].does = "join" /\ asker[b].leader = a
          BY DEF Cache!Joined
    <3>3. asker[a].seen >= asker[b].since
          BY <3>2, <2>a, <1>t DEF CacheInv
    <3>4. asker[b].since \in Nat
          BY <3>2, <1>r DEF AskerRecord
    <3>5. QED BY <3>3, <3>4, <2>b
  <2>d. Cache!Joined(a) \in SUBSET Askers /\ \A b \in Cache!Joined(a) : asker[b].does = "join"
        BY DEF Cache!Joined
  <2>1. CASE Cache!IsCurrent(a)
    <3> DEFINE done == Cache!Joined(a) \cup {a}
    <3>1. done \in SUBSET Askers /\ \A b \in done : b = a \/ asker[b].does = "join"
          BY <2>d
    <3>2. asker' = [b \in Askers |-> IF b \in done THEN Cache!Quiet ELSE asker[b]]
          BY <2>1, <1>4 DEF Cache!Keep, Cache!Becomes
    <3>3. (loading' = loading /\ loading.by \notin done) \/ loading' = Cache!NoLoad
      <4>1. loading' = IF loading.by = a THEN Cache!NoLoad ELSE loading
            BY <2>1, <1>4 DEF Cache!Keep
      <4>2. loading.by \in done => loading.by = a
            BY <3>1, <1>t DEF CacheInv, Loads
      <4>3. QED BY <4>1, <4>2
    <3>4. snapshot' = [value |-> asker[a].seen, fresh |-> TRUE]
          BY <2>1, <1>4 DEF Cache!Keep
    <3>5. snapshot' \in [value : 0..Cache!Empty, fresh : BOOLEAN] /\ snapshot'.value >= told
      <4>1. asker[a].seen \in 0..Cache!Empty
            BY <2>b DEF Cache!Empty
      <4>2. asker[a].seen >= told
            BY <2>1, <2>a, <1>t DEF Cache!IsCurrent, CacheInv
      <4>3. QED BY <3>4, <4>1, <4>2
    <3>6. ~outdated'
      <4>1. ~(asker[a].seen < asker[a].since)
            BY <2>b
      <4>2. outdated' = (outdated \/ (\E b \in Cache!Joined(a) : asker[a].seen < asker[b].since) \/ asker[a].seen < asker[a].since)
            BY <2>1, <1>4 DEF Cache!Keep
      <4>3. QED BY <4>1, <4>2, <2>c, <1>t, Zenon
    <3>7. mishaps' \in 0..MaxMishaps
          BY <2>a, <1>t DEF Cache!TypeOK
    <3> HIDE DEF done
    <3>8. QED BY <3>1, <3>2, <3>3, <3>5, <3>6, <3>7, <2>a, <1>k
  <2>2. CASE ~Cache!IsCurrent(a)
    <3> DEFINE missed == \E b \in Cache!Joined(a) : asker[a].seen < asker[b].since
    <3>1. Cache!Enter(a, asker[a].since, Cache!Joined(a), missed) /\ UNCHANGED snapshot
          BY <2>2, <1>4 DEF Cache!Keep
    <3>2. asker[a].version # version
          BY <2>2 DEF Cache!IsCurrent
    <3>3. ~missed
          BY <2>c
    <3> HIDE DEF missed
    <3>4. QED BY <3>1, <3>2, <3>3, <2>a, <2>b, <2>d, EnterKeeps
  <2>3. QED BY <2>1, <2>2
\* Readers are as they were.
<1>u. ASSUME UNCHANGED <<loading, asker, outdated>>, stored' >= stored, told' = told, version' = version,
             Cache!TypeOK', snapshot'.value # Cache!Empty => snapshot'.value >= told,
             version + (IF committing' THEN 1 ELSE 0) <= stored'
      PROVE  SettingsInv'
  <2>1. CacheInv'
        BY <1>u, <1>t DEF CacheInv, Loads
  <2>2. QED BY <2>1, <1>u, <1>t DEF SettingsInv, Cache!UpdatesAreSeen
<1>5. ASSUME Cache!Expire PROVE SettingsInv'
  <2>1. snapshot' \in [value : 0..Cache!Empty, fresh : BOOLEAN] /\ snapshot'.value = snapshot.value
        BY <1>5, <1>t DEF Cache!Expire, Cache!TypeOK
  <2>2. UNCHANGED <<stored, told, version, loading, asker, committing, outdated, mishaps>>
        BY <1>5 DEF Cache!Expire
  <2>3. Cache!TypeOK'
        BY <2>1, <2>2, <1>t DEF Cache!TypeOK, Cache!Empty
  <2>4. stored' >= stored
        BY <2>2, <1>r
  <2>5. snapshot.value # Cache!Empty => snapshot.value >= told
        BY <1>t DEF CacheInv
  <2>6. version + (IF committing' THEN 1 ELSE 0) <= stored'
        BY <2>2, <1>t DEF CacheInv
  <2>7. QED BY <2>1, <2>2, <2>3, <2>4, <2>5, <2>6, <1>u
<1>6. ASSUME Cache!Update PROVE SettingsInv'
  <2>1. UNCHANGED <<told, snapshot, version, loading, asker, outdated, mishaps>> /\ stored' = stored + 1
        /\ committing' = TRUE /\ ~committing /\ stored < MaxUpdates
        BY <1>6 DEF Cache!Update
  <2>2. Cache!TypeOK'
    <3>1. stored' \in 0..MaxUpdates /\ told \in 0..stored'
          BY <2>1, <1>t DEF Cache!TypeOK
    <3>2. QED BY <2>1, <3>1, <1>t DEF Cache!TypeOK, Cache!Empty
  <2>3. version <= stored /\ (snapshot.value # Cache!Empty => snapshot.value >= told)
        BY <2>1, <1>r, <1>t DEF CacheInv
  <2>4. QED BY <2>1, <2>2, <2>3, <1>r, <1>u
<1>7. ASSUME Cache!Acknowledge PROVE SettingsInv'
  <2>1. /\ committing /\ committing' = FALSE /\ told' = stored /\ version' = version + 1 /\ snapshot' = Cache!NoSnapshot
        /\ UNCHANGED <<stored, loading, asker, outdated, mishaps>>
        BY <1>7 DEF Cache!Acknowledge
  <2>2. version + 1 <= stored /\ stored <= MaxUpdates
        BY <2>1, <1>r, <1>t DEF CacheInv, Cache!TypeOK
  <2>3. \A b \in Askers : asker[b].version <= version /\ asker[b].since <= stored /\ asker[b].since \in Nat
        /\ asker[b].version \in Nat
        BY <1>r, <1>t DEF CacheInv, AskerRecord, Cache!TypeOK
  <2>4. Cache!TypeOK'
    <3>1. asker \in [Askers -> AskerRecord'] /\ version' \in 0..MaxUpdates
      <4>1. AskerRecord \subseteq AskerRecord' /\ version' \in 0..MaxUpdates
            BY <2>1, <2>2, <1>r DEF AskerRecord
      <4>2. QED BY <4>1, <1>r
    <3>2. loading \in [version : 0..version', by : Askers \cup {NoAsker}]
          BY <2>1, <1>r, <1>t DEF Cache!TypeOK
    <3>3. snapshot' \in [value : 0..Cache!Empty, fresh : BOOLEAN]
          BY <2>1 DEF Cache!NoSnapshot, Cache!Empty
    <3>4. stored \in 0..MaxUpdates /\ told' \in 0..stored /\ mishaps \in 0..MaxMishaps
          BY <2>1, <1>t DEF Cache!TypeOK
    <3>5. QED BY <2>1, <3>1, <3>2, <3>3, <3>4 DEF Cache!TypeOK, AskerRecord, Cache!Empty
  <2>5. CacheInv'
    <3>1. snapshot'.value = Cache!Empty
          BY <2>1 DEF Cache!NoSnapshot
    <3>2. \A b \in Askers : asker[b].version # version'
          BY <2>1, <2>3, <1>r
    <3>3. version' + (IF committing' THEN 1 ELSE 0) <= stored
          BY <2>1, <2>2, <1>r
    <3>4. QED BY <2>1, <2>3, <3>1, <3>2, <3>3, <1>t DEF CacheInv, Loads
  <2>6. QED BY <2>1, <2>4, <2>5, <1>t DEF SettingsInv, Cache!UpdatesAreSeen
<1>8. ASSUME Cache!LoseReply PROVE SettingsInv'
  <2>1. committing' = FALSE /\ UNCHANGED <<stored, told, snapshot, version, loading, asker, outdated>>
        BY <1>8 DEF Cache!LoseReply
  <2>2. Cache!TypeOK'
    <3>1. mishaps' \in 0..MaxMishaps
          BY <1>8, <1>t DEF Cache!LoseReply, Cache!TypeOK
    <3>2. QED BY <2>1, <3>1, <1>t DEF Cache!TypeOK, Cache!Empty
  <2>3. version <= stored /\ (snapshot.value # Cache!Empty => snapshot.value >= told)
        BY <1>r, <1>t DEF CacheInv
  <2>4. QED BY <2>1, <2>2, <2>3, <1>r, <1>u
<1>9. ASSUME UNCHANGED settingsVars PROVE SettingsInv'
      BY <1>9, <1>t DEF settingsVars, SettingsInv, Cache!TypeOK, CacheInv, Loads, Cache!UpdatesAreSeen, Cache!Empty
<1>10. QED BY <1>1, <1>2, <1>3, <1>4, <1>5, <1>6, <1>7, <1>8, <1>9 DEF Cache!Next

-------------------------------------------------------------------------------
\* What the proof needs of the types.
ReaderRecord ==
    [does : {"idle", "join", "load", "loaded", "missing"}, key : Keys \cup {Catalogue!List}, gen : Nat, since : Nat, seen : 0..MaxEdits,
     leader : Readers \cup {Nobody}]
EntryRecord == [gen : Nat, value : 0..Catalogue!Unloaded, fresh : BOOLEAN, by : Readers \cup {Nobody}]
EditorRecord == [does : {"idle", "slug", "write", "erase", "page", "written"}, row : Catalogue!Rows \cup {Nobody}, slug : Nat, edit : 0..MaxEdits]
RowRecord == [exists : BOOLEAN, deleted : BOOLEAN, published : BOOLEAN, slug : Nat]
EditTypes ==
    /\ edits \in 0..MaxEdits /\ acked \in 0..edits /\ generation \in Nat
    /\ editor \in [Editors -> EditorRecord] /\ \A d \in Editors : editor[d].edit <= edits
    /\ row \in [Catalogue!Rows -> RowRecord]
    /\ cache \in [Keys -> EntryRecord]
    /\ reader \in [Readers -> ReaderRecord]

HasSeen(r) == reader[r].does \in {"loaded", "missing"}

\* Entries are of the generation in force, promises of loads under way.  What has been
\* loaded in that generation holds every acknowledged edit; and whoever shares a load
\* asked before anything was acknowledged that the load has not seen.
EntriesInv ==
    /\ \A k \in Keys : cache[k] # Catalogue!NoEntry => cache[k].gen = generation
    /\ \A k \in Keys : cache[k].value # Catalogue!Unloaded => cache[k].value >= acked
    /\ \A k \in Keys : cache[k].by # Nobody =>
           LET r == cache[k].by
           IN  /\ reader[r].does \in {"load", "loaded", "missing"}
               /\ reader[r].gen = cache[k].gen /\ reader[r].key = k

ReadersInv ==
    /\ \A r \in Readers : reader[r].since <= acked /\ reader[r].gen <= generation
    /\ \A r \in Readers : HasSeen(r) =>
           /\ reader[r].seen >= reader[r].since
           /\ reader[r].gen = generation => reader[r].seen >= acked
    /\ \A q, r \in Readers : reader[q].does = "join" /\ reader[q].leader = r /\ HasSeen(r) => reader[r].seen >= reader[q].since

CatalogueInv == EditTypes /\ EntriesInv /\ ReadersInv /\ Catalogue!EditsAreSeen

\* A row that is not there, a request that rests and an editor that does.
LEMMA Records ==
    /\ Catalogue!NoEntry \in EntryRecord /\ Catalogue!NoEntry.by = Nobody /\ Catalogue!NoEntry.value = Catalogue!Unloaded
    /\ Catalogue!Resting \in ReaderRecord /\ Catalogue!Resting.does = "idle" /\ Catalogue!Resting.since = 0 /\ Catalogue!Resting.gen = 0
    /\ Catalogue!Unloaded \notin 0..MaxEdits
<1> USE CatalogueBounds
<1>1. Catalogue!Unloaded \notin 0..MaxEdits /\ Catalogue!Unloaded \in 0..Catalogue!Unloaded /\ 0 \in 0..MaxEdits
      BY DEF Catalogue!Unloaded
<1>2. Catalogue!NoEntry \in EntryRecord /\ Catalogue!NoEntry.by = Nobody /\ Catalogue!NoEntry.value = Catalogue!Unloaded
      BY <1>1 DEF Catalogue!NoEntry, EntryRecord
<1>3. Catalogue!Resting \in ReaderRecord /\ Catalogue!Resting.does = "idle" /\ Catalogue!Resting.since = 0 /\ Catalogue!Resting.gen = 0
      BY <1>1 DEF Catalogue!Resting, ReaderRecord
<1>4. QED BY <1>1, <1>2, <1>3

LEMMA CatalogueInit == Catalogue!Init => CatalogueInv
<1> SUFFICES ASSUME Catalogue!Init PROVE CatalogueInv
    OBVIOUS
<1> USE CatalogueBounds
<1>1. edits = 0 /\ acked = 0 /\ generation = 0 /\ ~misled
  <2>1. edits = 0 /\ acked = 0 /\ generation = 0 /\ misled = FALSE
        BY DEF Catalogue!Init
  <2>2. QED BY <2>1
<1>2. cache = [k \in Keys |-> Catalogue!NoEntry] /\ reader = [r \in Readers |-> Catalogue!Resting]
      BY DEF Catalogue!Init
<1>3. editor \in [Editors -> EditorRecord] /\ \A d \in Editors : editor[d].edit = 0
  <2>1. Catalogue!Free \in EditorRecord /\ Catalogue!Free.edit = 0
    <3>1. 0 \in 0..MaxEdits /\ Catalogue!Free = [does |-> "idle", row |-> Nobody, slug |-> 0, edit |-> 0]
          BY DEF Catalogue!Free, Catalogue!Editing, Catalogue!Freed
    <3>2. QED BY <3>1 DEF EditorRecord
  <2>2. QED BY <2>1 DEF Catalogue!Init
<1>4. row \in [Catalogue!Rows -> RowRecord]
  <2>1. Catalogue!Absent \in RowRecord /\ [exists |-> TRUE, deleted |-> FALSE, published |-> TRUE, slug |-> 1] \in RowRecord
        BY DEF Catalogue!Absent, RowRecord, Catalogue!Freed
  <2>2. QED BY <2>1 DEF Catalogue!Init
<1>8. EditTypes
      BY <1>1, <1>2, <1>3, <1>4, Records DEF EditTypes
<1>5. EntriesInv
      BY <1>2, Records DEF EntriesInv
<1>6. ReadersInv
  <2>1. \A r \in Readers : reader[r] = Catalogue!Resting
        BY <1>2
  <2>2. QED BY <1>1, <2>1, Records DEF ReadersInv, HasSeen
<1>7. QED BY <1>1, <1>8, <1>5, <1>6 DEF CatalogueInv, Catalogue!EditsAreSeen

\* Editing rows and writing them leaves the cache and its readers alone.
LEMMA EditingKeeps ==
    ASSUME CatalogueInv, UNCHANGED <<acked, cache, generation, reader, misled>>,
           edits' \in 0..MaxEdits, edits' >= edits, row' \in [Catalogue!Rows -> RowRecord],
           editor' \in [Editors -> EditorRecord], \A d \in Editors : editor'[d].edit <= edits'
    PROVE  CatalogueInv'
<1> USE CatalogueBounds
<1>1. EditTypes'
      BY DEF CatalogueInv, EditTypes, ReaderRecord, EntryRecord, EditorRecord, RowRecord, Catalogue!Rows, Catalogue!Unloaded
<1>2. EntriesInv'
      BY DEF CatalogueInv, EntriesInv, Catalogue!NoEntry, Catalogue!Unloaded
<1>3. ReadersInv'
      BY DEF CatalogueInv, ReadersInv, HasSeen
<1>4. QED BY <1>1, <1>2, <1>3 DEF CatalogueInv, Catalogue!EditsAreSeen

\* A load that ends answers those that share it with what it has seen.
LEMMA LeavingKeeps ==
    ASSUME CatalogueInv, NEW r \in Readers, Catalogue!Leave(r),
           cache' \in [Keys -> EntryRecord],
           \A k \in Keys : \/ cache'[k] = cache[k] /\ cache[k].by # r
                           \/ cache'[k] = Catalogue!NoEntry
                           \/ /\ cache'[k].gen = generation /\ cache'[k].by = Nobody /\ cache'[k].value >= acked,
           UNCHANGED <<row, edits, acked, generation, editor>>, ~misled'
    PROVE  CatalogueInv'
<1> USE CatalogueBounds
<1>t. EditTypes /\ EntriesInv /\ ReadersInv
      BY DEF CatalogueInv
<1>1. reader' = [q \in Readers |-> IF q \in Catalogue!Sharing(r) THEN Catalogue!Resting ELSE reader[q]]
      BY DEF Catalogue!Leave
<1>2. \A q \in Readers : reader'[q] = Catalogue!Resting \/ (reader'[q] = reader[q] /\ q \notin Catalogue!Sharing(r))
      BY <1>1
<1>3. reader' \in [Readers -> ReaderRecord]
      BY <1>1, <1>t, Records DEF EditTypes
<1>4. EditTypes'
      BY <1>3, <1>t DEF EditTypes, ReaderRecord, EntryRecord, EditorRecord, RowRecord, Catalogue!Rows, Catalogue!Unloaded
<1>5. ASSUME NEW k \in Keys
      PROVE  /\ cache'[k] # Catalogue!NoEntry => cache'[k].gen = generation
             /\ cache'[k].value # Catalogue!Unloaded => cache'[k].value >= acked
             /\ cache'[k].by # Nobody =>
                   LET q == cache'[k].by
                   IN  /\ reader'[q].does \in {"load", "loaded", "missing"}
                       /\ reader'[q].gen = cache'[k].gen /\ reader'[q].key = k
  <2>1. CASE cache'[k] = cache[k] /\ cache[k].by # r
    <3>1. CASE cache[k].by # Nobody
      <4> DEFINE q == cache[k].by
      <4>1. q \in Readers
            BY <3>1, <1>t DEF EditTypes, EntryRecord
      <4>2. q # r /\ reader[q].does \in {"load", "loaded", "missing"}
            BY <2>1, <3>1, <1>t DEF EntriesInv
      <4>3. q \notin Catalogue!Sharing(r)
            BY <4>2 DEF Catalogue!Sharing
      <4>4. reader'[q] = reader[q]
            BY <4>1, <4>3, <1>1
      <4>5. QED BY <2>1, <3>1, <4>4, <1>t DEF EntriesInv
    <3>2. CASE cache[k].by = Nobody
          BY <2>1, <3>2, <1>t DEF EntriesInv
    <3>3. QED BY <3>1, <3>2
  <2>2. CASE cache'[k] = Catalogue!NoEntry
        BY <2>2, Records
  <2>3. CASE cache'[k].gen = generation /\ cache'[k].by = Nobody /\ cache'[k].value >= acked
        BY <2>3
  <2>4. QED BY <2>1, <2>2, <2>3
<1>6. EntriesInv'
  <2>1. Catalogue!NoEntry' = Catalogue!NoEntry /\ Catalogue!Unloaded' = Catalogue!Unloaded
        BY DEF Catalogue!NoEntry, Catalogue!Unloaded
  <2>2. QED BY <1>5, <2>1 DEF EntriesInv
<1>7. ReadersInv'
  <2>1. \A q \in Readers : reader'[q].does # "idle" => reader'[q] = reader[q]
        BY <1>2, Records
  <2>2. \A q \in Readers : reader'[q].since <= acked /\ reader'[q].gen <= generation
    <3>1. 0 <= acked /\ 0 <= generation
          BY <1>t DEF EditTypes
    <3>2. QED BY <3>1, <1>2, <1>t, Records DEF ReadersInv
  <2>3. QED BY <2>1, <2>2, <1>t DEF ReadersInv, HasSeen
<1>8. QED BY <1>4, <1>6, <1>7 DEF CatalogueInv, Catalogue!EditsAreSeen

\* Only the cache and the readers' records change, each entry as it may.
LEMMA ReadingKeeps ==
    ASSUME CatalogueInv, NEW r \in Readers, NEW next \in ReaderRecord, reader' = [reader EXCEPT ![r] = next],
           UNCHANGED <<row, edits, acked, generation, editor>>, ~misled',
           next.since <= acked, next.gen <= generation,
           next.does \in {"loaded", "missing"} => next.seen >= acked,
           \A q \in Readers : reader[q].does = "join" /\ reader[q].leader = r /\ next.does \in {"loaded", "missing"} => next.seen >= reader[q].since,
           next.does = "join" => /\ next.leader \in Readers \ {r} /\ reader[next.leader].gen = generation,
           reader[r].does = "load" => /\ next.does \in {"loaded", "missing"}
                                      /\ next.gen = reader[r].gen /\ next.key = reader[r].key,
           reader[r].does \in {"idle", "load"},
           cache' \in [Keys -> EntryRecord],
           \A k \in Keys : \/ cache'[k] = cache[k]
                           \/ cache'[k] = Catalogue!NoEntry
                           \/ cache'[k] = Catalogue!Promise(r) /\ next.does = "load" /\ next.gen = generation /\ next.key = k
    PROVE  CatalogueInv'
<1> USE CatalogueBounds
<1>t. EditTypes /\ EntriesInv /\ ReadersInv
      BY DEF CatalogueInv
<1>1. reader'[r] = next /\ \A q \in Readers \ {r} : reader'[q] = reader[q]
      BY <1>t DEF EditTypes
<1>2. EditTypes'
      BY <1>t DEF EditTypes, ReaderRecord, EntryRecord, EditorRecord, RowRecord, Catalogue!Rows, Catalogue!Unloaded
<1>3. ASSUME NEW k \in Keys
      PROVE  /\ cache'[k] # Catalogue!NoEntry => cache'[k].gen = generation
             /\ cache'[k].value # Catalogue!Unloaded => cache'[k].value >= acked
             /\ cache'[k].by # Nobody =>
                   LET q == cache'[k].by
                   IN  /\ reader'[q].does \in {"load", "loaded", "missing"}
                       /\ reader'[q].gen = cache'[k].gen /\ reader'[q].key = k
  <2>1. CASE cache'[k] = cache[k]
    <3>1. CASE cache[k].by # Nobody
      <4> DEFINE q == cache[k].by
      <4>1. q \in Readers
            BY <3>1, <1>t DEF EditTypes, EntryRecord
      <4>2. reader[q].does \in {"load", "loaded", "missing"} /\ reader[q].gen = cache[k].gen /\ reader[q].key = k
            BY <3>1, <1>t DEF EntriesInv
      <4>3. reader'[q].does \in {"load", "loaded", "missing"} /\ reader'[q].gen = cache[k].gen /\ reader'[q].key = k
        <5>1. CASE q = r
              BY <5>1, <4>2, <1>1
        <5>2. CASE q # r
              BY <5>2, <4>1, <4>2, <1>1
        <5>3. QED BY <5>1, <5>2
      <4>4. QED BY <2>1, <3>1, <4>3, <1>t DEF EntriesInv
    <3>2. CASE cache[k].by = Nobody
          BY <2>1, <3>2, <1>t DEF EntriesInv
    <3>3. QED BY <3>1, <3>2
  <2>2. CASE cache'[k] = Catalogue!NoEntry
        BY <2>2, Records
  <2>3. CASE cache'[k] = Catalogue!Promise(r) /\ next.does = "load" /\ next.gen = generation /\ next.key = k
        BY <2>3, <1>1 DEF Catalogue!Promise
  <2>4. QED BY <2>1, <2>2, <2>3
<1>4. EntriesInv'
  <2>1. Catalogue!NoEntry' = Catalogue!NoEntry /\ Catalogue!Unloaded' = Catalogue!Unloaded
        BY DEF Catalogue!NoEntry, Catalogue!Unloaded
  <2>2. QED BY <1>3, <2>1 DEF EntriesInv
<1>i. acked \in Nat /\ generation \in Nat /\ \A q \in Readers : reader[q].since \in Nat /\ reader[q].seen \in Nat
      BY <1>t DEF EditTypes, ReaderRecord
<1>j. next.since \in Nat /\ next.seen \in Nat
      BY DEF ReaderRecord
<1>5. ReadersInv'
  <2>1. \A q \in Readers : reader'[q].since <= acked /\ reader'[q].gen <= generation
        BY <1>1, <1>t DEF ReadersInv
  <2>2. \A q \in Readers : HasSeen(q)' =>
           /\ reader'[q].seen >= reader'[q].since
           /\ reader'[q].gen = generation => reader'[q].seen >= acked
    <3>1. next.does \in {"loaded", "missing"} => next.seen >= next.since
          BY <1>i, <1>j
    <3>2. QED BY <3>1, <1>1, <1>t DEF ReadersInv, HasSeen
  <2>3. ASSUME NEW p \in Readers, NEW q \in Readers, reader'[q].does = "join", reader'[q].leader = p, HasSeen(p)'
        PROVE  reader'[p].seen >= reader'[q].since
    <3>1. CASE q = r
      <4>1. p # r /\ p = next.leader /\ reader'[p] = reader[p] /\ reader[p].gen = generation
            BY <3>1, <2>3, <1>1
      <4>2. reader[p].seen >= acked
            BY <4>1, <2>3, <1>t DEF ReadersInv, HasSeen
      <4>3. QED BY <3>1, <4>1, <4>2, <1>1, <1>i, <1>j
    <3>2. CASE q # r /\ p = r
          BY <3>2, <2>3, <1>1 DEF HasSeen
    <3>3. CASE q # r /\ p # r
          BY <3>3, <2>3, <1>1, <1>t DEF ReadersInv, HasSeen
    <3>4. QED BY <3>1, <3>2, <3>3
  <2>4. QED BY <2>1, <2>2, <2>3 DEF ReadersInv, HasSeen
<1>6. QED BY <1>2, <1>4, <1>5 DEF CatalogueInv, Catalogue!EditsAreSeen

LEMMA CatalogueStep ==
    ASSUME CatalogueInv, [Catalogue!Next]_catalogueVars
    PROVE  CatalogueInv'
<1> USE CatalogueBounds
<1>t. EditTypes /\ EntriesInv /\ ReadersInv /\ ~misled
      BY DEF CatalogueInv, Catalogue!EditsAreSeen
<1>i. acked \in Nat /\ edits \in Nat /\ acked <= edits /\ generation \in Nat
      BY <1>t DEF EditTypes
<1>r. reader \in [Readers -> ReaderRecord] /\ cache \in [Keys -> EntryRecord]
      BY <1>t DEF EditTypes
<1>e. editor \in [Editors -> EditorRecord] /\ \A d \in Editors : editor[d].edit <= edits
      BY <1>t DEF EditTypes
<1>f. Catalogue!Free \in EditorRecord /\ Catalogue!Free.edit = 0 /\ Catalogue!Free.does = "idle"
  <2>1. 0 \in 0..MaxEdits /\ Catalogue!Free = [does |-> "idle", row |-> Nobody, slug |-> 0, edit |-> 0]
        BY DEF Catalogue!Free, Catalogue!Editing, Catalogue!Freed
  <2>2. QED BY <2>1 DEF EditorRecord
\* Readers
<1>1. ASSUME NEW r \in Readers, NEW k \in Keys, Catalogue!Read(r, k) PROVE CatalogueInv'
  <2> DEFINE asks == [Catalogue!Resting EXCEPT !.key = k, !.gen = generation, !.since = acked]
  <2>1. /\ asks \in ReaderRecord /\ asks.does = "idle" /\ asks.key = k /\ asks.gen = generation /\ asks.since = acked
    <3>1. Catalogue!Resting \in ReaderRecord /\ Catalogue!Resting.does = "idle"
          BY Records
    <3>2. QED BY <3>1, <1>i DEF ReaderRecord
  <2>2. reader[r].does = "idle" /\ UNCHANGED <<Catalogue!rowVars, acked, generation, editor, upsets>>
        BY <1>1 DEF Catalogue!Read
  <2>3. CASE Catalogue!IsHit(k) /\ misled' = (misled \/ cache[k].value < acked) /\ UNCHANGED <<cache, older, reader>>
    <3>1. cache[k].value >= acked /\ cache[k].value \in Nat
          BY <2>3, <1>r, <1>t DEF Catalogue!IsHit, EntriesInv, EntryRecord, Catalogue!Unloaded
    <3>2. ~(cache[k].value < acked)
          BY <3>1, <1>i
    <3>3. ~misled'
          BY <3>2, <2>3, <1>t, Zenon
    <3>4. EditTypes' /\ EntriesInv' /\ ReadersInv'
          BY <2>2, <2>3, <1>t DEF Catalogue!rowVars, EditTypes, ReaderRecord, EntryRecord, EditorRecord, RowRecord, Catalogue!Rows, Catalogue!Unloaded, EntriesInv, Catalogue!NoEntry, ReadersInv, HasSeen
    <3>5. QED BY <3>3, <3>4 DEF CatalogueInv, Catalogue!EditsAreSeen
  <2>4. CASE /\ ~Catalogue!IsHit(k) /\ Catalogue!IsShared(k)
             /\ reader' = [reader EXCEPT ![r] = [asks EXCEPT !.does = "join", !.leader = cache[k].by]]
             /\ UNCHANGED <<cache, older, misled>>
    <3> DEFINE next == [asks EXCEPT !.does = "join", !.leader = cache[k].by]
    <3>1. cache[k].by \in Readers /\ reader[cache[k].by].gen = generation /\ cache[k].by # r
          BY <2>2, <2>4, <1>r, <1>t DEF Catalogue!IsShared, Catalogue!Usable, EntryRecord, EntriesInv
    <3>2. next \in ReaderRecord /\ next.does = "join" /\ next.leader = cache[k].by /\ next.since = acked /\ next.gen = generation
      <4> HIDE DEF asks
      <4>1. QED BY <3>1, <2>1 DEF ReaderRecord
    <3>3. reader' = [reader EXCEPT ![r] = next] /\ UNCHANGED <<cache, misled>>
          BY <2>4
    <3>4. UNCHANGED <<row, edits, acked, generation, editor>>
          BY <2>2 DEF Catalogue!rowVars
    <3> HIDE DEF next
    <3>5. next.since <= acked /\ next.gen <= generation
          BY <3>2, <1>i
    <3>6. reader[r].does # "load" /\ reader[r].does \in {"idle", "load"} /\ next.does \notin {"loaded", "missing"}
          /\ next.leader \in Readers \ {r} /\ reader[next.leader].gen = generation
          BY <3>1, <3>2, <2>2
    <3>7. ~misled' /\ cache' \in [Keys -> EntryRecord] /\ \A q \in Keys : cache'[q] = cache[q]
          BY <3>3, <1>r, <1>t
    <3>8. QED BY <3>2, <3>3, <3>4, <3>5, <3>6, <3>7, ReadingKeeps
  <2>5. CASE /\ ~Catalogue!IsHit(k) /\ ~Catalogue!IsShared(k)
             /\ reader' = [reader EXCEPT ![r] = [asks EXCEPT !.does = "load"]]
             /\ Catalogue!Insert(Catalogue!Present, k, Catalogue!Promise(r))
             /\ UNCHANGED misled
    <3> DEFINE next == [asks EXCEPT !.does = "load"]
    <3>1. next \in ReaderRecord /\ next.does = "load" /\ next.key = k /\ next.since = acked /\ next.gen = generation
      <4> HIDE DEF asks
      <4>1. QED BY <2>1 DEF ReaderRecord
    <3>2. Catalogue!Promise(r) \in EntryRecord
          BY <1>i DEF Catalogue!Promise, EntryRecord, Catalogue!Unloaded
    <3>3. cache' = [q \in Keys |-> IF q = k THEN Catalogue!Promise(r) ELSE IF q \in Catalogue!Present THEN cache[q] ELSE Catalogue!NoEntry]
          BY <2>5 DEF Catalogue!Insert
    <3>4. cache' \in [Keys -> EntryRecord]
          BY <3>2, <3>3, <1>r, Records
    <3>5. \A q \in Keys : cache'[q] = cache[q] \/ cache'[q] = Catalogue!NoEntry \/ (cache'[q] = Catalogue!Promise(r) /\ q = k)
          BY <3>3
    <3>6. reader' = [reader EXCEPT ![r] = next] /\ ~misled' /\ UNCHANGED <<row, edits, acked, generation, editor>>
          BY <2>2, <2>5, <1>t DEF Catalogue!rowVars
    <3> HIDE DEF next
    <3>7. next.since <= acked /\ next.gen <= generation
          BY <3>1, <1>i
    <3>8. \A q \in Keys : cache'[q] = Catalogue!Promise(r) /\ q = k => next.does = "load" /\ next.gen = generation /\ next.key = q
          BY <3>1
    <3>9. reader[r].does # "load" /\ reader[r].does \in {"idle", "load"} /\ next.does \notin {"loaded", "missing"}
          /\ next.does # "join" /\ next \in ReaderRecord
          BY <3>1, <2>2
    <3>10. \A q \in Keys :
             \/ cache'[q] = cache[q]
             \/ cache'[q] = Catalogue!NoEntry
             \/ /\ cache'[q] = Catalogue!Promise(r)
                /\ next.does = "load" /\ next.gen = generation /\ next.key = q
           BY <3>5, <3>8
    <3>11. QED BY <3>4, <3>6, <3>7, <3>9, <3>10, ReadingKeeps
  <2>6. QED BY <2>3, <2>4, <2>5, <1>1 DEF Catalogue!Read
<1>2. ASSUME NEW r \in Readers, Catalogue!Fetch(r) PROVE CatalogueInv'
  <2> DEFINE reading == IF Catalogue!IsShown(reader[r].key) THEN "loaded" ELSE "missing"
             next == [reader[r] EXCEPT !.does = reading, !.seen = edits]
  <2>1. reading \in {"loaded", "missing"}
        OBVIOUS
  <2>2. reader' = [reader EXCEPT ![r] = next] /\ reader[r].does = "load"
        /\ UNCHANGED <<Catalogue!rowVars, acked, Catalogue!cacheVars, editor, upsets, misled>>
        BY <1>2, <1>r DEF Catalogue!Fetch
  <2> HIDE DEF reading
  <2>3. /\ next \in ReaderRecord /\ next.does = reading /\ next.seen = edits /\ next.since = reader[r].since
        /\ next.gen = reader[r].gen /\ next.key = reader[r].key
    <3>1. edits \in 0..MaxEdits /\ reader[r] \in ReaderRecord
          BY <1>t, <1>r DEF EditTypes
    <3>2. QED BY <3>1, <2>1 DEF ReaderRecord
  <2> HIDE DEF next
  <2>4. \A q \in Readers : reader[q].since <= acked /\ reader[q].since \in Nat /\ reader[q].gen <= generation
        BY <1>r, <1>t DEF ReadersInv, ReaderRecord
  <2>5. edits >= acked /\ \A q \in Readers : edits >= reader[q].since
        BY <2>4, <1>i
  <2>6. UNCHANGED <<row, edits, acked, generation, editor, cache>> /\ ~misled'
        BY <2>2, <1>t DEF Catalogue!rowVars, Catalogue!cacheVars
  <2>7. next.since <= acked /\ next.gen <= generation /\ next.does # "join" /\ next.seen >= acked
        BY <2>1, <2>3, <2>4, <2>5
  <2>8. QED BY <2>1, <2>2, <2>3, <2>5, <2>6, <2>7, <1>r, ReadingKeeps
\* What a load that ends leaves in the cache.
<1>d. ASSUME NEW r \in Readers, Catalogue!DropPromise(r), reader[r].does \in {"load", "missing"}
      PROVE  /\ cache' \in [Keys -> EntryRecord]
             /\ \A k \in Keys : (cache'[k] = cache[k] /\ cache[k].by # r) \/ cache'[k] = Catalogue!NoEntry
  <2>1. \A k \in Keys : cache[k].by = r => reader[r].key = k
        BY <1>r, <1>t DEF EntriesInv
  <2>2. CASE cache[reader[r].key].by = r
    <3>1. cache' = [cache EXCEPT ![reader[r].key] = Catalogue!NoEntry]
          BY <2>2, <1>d DEF Catalogue!DropPromise, Catalogue!Drop
    <3>2. \A k \in Keys : IF k = reader[r].key THEN cache'[k] = Catalogue!NoEntry ELSE cache'[k] = cache[k]
          BY <3>1, <1>r
    <3>3. cache' \in [Keys -> EntryRecord]
          BY <3>1, <1>r, Records
    <3>4. QED BY <3>2, <3>3, <2>1
  <2>3. CASE cache[reader[r].key].by # r
    <3>1. cache' = cache
          BY <2>3, <1>d DEF Catalogue!DropPromise
    <3>2. QED BY <3>1, <2>1, <2>3, <1>r
  <2>4. QED BY <2>2, <2>3
\* Whoever shares the load has asked before what it has not seen was acknowledged.
<1>a. ASSUME NEW r \in Readers, HasSeen(r), Catalogue!Answer(r) PROVE ~misled'
  <2>1. \A q \in Readers : reader[q].since \in Nat /\ reader[q].seen \in Nat
        BY <1>r DEF ReaderRecord
  <2>2. \A q \in Catalogue!Sharing(r) : q \in Readers /\ reader[r].seen >= reader[q].since
        BY <1>a, <1>t DEF Catalogue!Sharing, ReadersInv
  <2>3. ~(\E q \in Catalogue!Sharing(r) : reader[r].seen < reader[q].since)
        BY <2>1, <2>2
  <2>4. misled' = (misled \/ \E q \in Catalogue!Sharing(r) : reader[r].seen < reader[q].since)
        BY <1>a DEF Catalogue!Answer
  <2>5. QED BY <2>3, <2>4, <1>t, Zenon
<1>3. ASSUME NEW r \in Readers, Catalogue!Settle(r) PROVE CatalogueInv'
  <2>1. /\ reader[r].does = "loaded" /\ Catalogue!Answer(r) /\ UNCHANGED <<Catalogue!rowVars, acked, generation, editor, upsets>>
        BY <1>3 DEF Catalogue!Settle
  <2>2. Catalogue!Leave(r) /\ ~misled' /\ UNCHANGED <<row, edits, acked, generation, editor>>
        BY <2>1, <1>a DEF HasSeen, Catalogue!Answer, Catalogue!rowVars
  <2>3. \A k \in Keys : cache[k].by = r => reader[r].key = k /\ reader[r].gen = generation
        BY <1>r, <1>t DEF EntriesInv, Catalogue!NoEntry
  <2>4. CASE Catalogue!MayStore(r)
    <3> DEFINE entry == Catalogue!Loaded(reader[r].seen)
               key == reader[r].key
    <3>1. cache' = [q \in Keys |-> IF q = key THEN entry ELSE IF q \in Catalogue!Pruned THEN cache[q] ELSE Catalogue!NoEntry]
          BY <2>4, <1>3 DEF Catalogue!Settle, Catalogue!Insert
    <3>2. reader[r].seen >= acked /\ reader[r].seen \in 0..MaxEdits
          BY <2>1, <2>4, <1>r, <1>t DEF Catalogue!MayStore, ReadersInv, HasSeen, ReaderRecord
    <3>3. entry \in EntryRecord /\ entry.gen = generation /\ entry.by = Nobody /\ entry.value >= acked
      <4>1. reader[r].seen \in 0..Catalogue!Unloaded
            BY <3>2 DEF Catalogue!Unloaded
      <4>2. entry = [gen |-> generation, value |-> reader[r].seen, fresh |-> TRUE, by |-> Nobody]
            BY DEF Catalogue!Loaded
      <4>3. QED BY <4>1, <4>2, <3>2, <1>i DEF EntryRecord
    <3> HIDE DEF entry
    <3>4. cache' \in [Keys -> EntryRecord]
          BY <3>1, <3>3, <1>r, Records
    <3>5. \A k \in Keys : \/ cache'[k] = cache[k] /\ cache[k].by # r
                          \/ cache'[k] = Catalogue!NoEntry
                          \/ cache'[k].gen = generation /\ cache'[k].by = Nobody /\ cache'[k].value >= acked
          BY <3>1, <3>3, <2>3
    <3>6. QED BY <3>4, <3>5, <2>2, LeavingKeeps
  <2>5. CASE ~Catalogue!MayStore(r)
    <3>1. cache' = cache
          BY <2>5, <1>3 DEF Catalogue!Settle
    <3>2. \A k \in Keys : cache[k].by # r
          BY <2>3, <2>5 DEF Catalogue!MayStore
    <3>3. QED BY <3>1, <3>2, <2>2, <1>r, LeavingKeeps
  <2>6. QED BY <2>4, <2>5
<1>4. ASSUME NEW r \in Readers, Catalogue!SettleMissing(r) PROVE CatalogueInv'
  <2>1. reader[r].does = "missing" /\ Catalogue!Answer(r) /\ Catalogue!DropPromise(r) /\ UNCHANGED <<Catalogue!rowVars, acked, generation, editor, upsets>>
        BY <1>4 DEF Catalogue!SettleMissing
  <2>2. Catalogue!Leave(r) /\ ~misled' /\ UNCHANGED <<row, edits, acked, generation, editor>>
        BY <2>1, <1>a DEF HasSeen, Catalogue!Answer, Catalogue!rowVars
  <2>3. QED BY <2>1, <2>2, <1>d, LeavingKeeps
<1>5. ASSUME NEW r \in Readers, Catalogue!FetchFails(r) PROVE CatalogueInv'
  <2>1. reader[r].does = "load" /\ Catalogue!Leave(r) /\ Catalogue!DropPromise(r) /\ UNCHANGED <<Catalogue!rowVars, acked, generation, editor, misled>>
        BY <1>5 DEF Catalogue!FetchFails
  <2>2. ~misled' /\ UNCHANGED <<row, edits, acked, generation, editor>>
        BY <2>1, <1>t DEF Catalogue!rowVars
  <2>3. QED BY <2>1, <2>2, <1>d, LeavingKeeps
<1>6. ASSUME NEW k \in Keys, Catalogue!Expire(k) PROVE CatalogueInv'
  <2> DEFINE entry == [cache[k] EXCEPT !.fresh = FALSE]
  <2>1. cache' = [cache EXCEPT ![k] = entry] /\ cache[k].fresh /\ cache[k].by = Nobody
        /\ UNCHANGED <<Catalogue!rowVars, acked, older, generation, reader, editor, upsets, misled>>
        BY <1>6, <1>r DEF Catalogue!Expire
  <2>2. entry \in EntryRecord /\ entry.gen = cache[k].gen /\ entry.value = cache[k].value /\ entry.by = cache[k].by
        BY <1>r DEF EntryRecord
  <2> HIDE DEF entry
  <2>3. cache'[k] = entry /\ \A q \in Keys \ {k} : cache'[q] = cache[q]
        BY <2>1, <1>r
  <2>4. cache[k] # Catalogue!NoEntry
        BY <2>1 DEF Catalogue!NoEntry
  <2>5. EditTypes'
        BY <2>1, <2>2, <1>t DEF Catalogue!rowVars, EditTypes, ReaderRecord, EntryRecord, EditorRecord, RowRecord, Catalogue!Rows, Catalogue!Unloaded
  <2>6. EntriesInv'
    <3>1. \A q \in Keys : cache'[q] # Catalogue!NoEntry => cache'[q].gen = generation
          BY <2>2, <2>3, <2>4, <1>t DEF EntriesInv
    <3>2. \A q \in Keys : cache'[q].by = cache[q].by /\ cache'[q].gen = cache[q].gen /\ cache'[q].value = cache[q].value
          BY <2>2, <2>3
    <3>3. QED BY <3>1, <3>2, <2>1, <1>t, ZenonT(60) DEF EntriesInv, Catalogue!NoEntry, Catalogue!Unloaded
  <2>7. ReadersInv'
        BY <2>1, <1>t DEF ReadersInv, HasSeen
  <2>8. QED BY <2>1, <2>5, <2>6, <2>7, <1>t DEF CatalogueInv, Catalogue!EditsAreSeen
\* Editors
<1>c. Nobody \in Catalogue!Rows \cup {Nobody} /\ Catalogue!Freed \in Nat
      BY DEF Catalogue!Freed
\* An editor whose next record names no edit, or the one just made.
<1>w. ASSUME NEW d \in Editors, NEW next \in EditorRecord, editor' = [editor EXCEPT ![d] = next],
             next.edit <= edits', edits' \in 0..MaxEdits, edits' >= edits, row' \in [Catalogue!Rows -> RowRecord],
             UNCHANGED <<acked, cache, generation, reader, misled>>
      PROVE  CatalogueInv'
  <2>1. editor' \in [Editors -> EditorRecord]
        BY <1>w, <1>e
  <2>2. \A e \in Editors : editor[e].edit \in Nat
        BY <1>e DEF EditorRecord
  <2>3. \A e \in Editors : editor'[e].edit <= edits'
        BY <1>w, <1>e, <1>i, <2>2
  <2>4. QED BY <2>1, <2>3, <1>w, EditingKeeps
<1>7. ASSUME NEW d \in Editors, NEW next \in EditorRecord, next.edit = 0, Catalogue!Begins(d, next) PROVE CatalogueInv'
  <2>1. editor' = [editor EXCEPT ![d] = next] /\ UNCHANGED <<Catalogue!rowVars, acked, Catalogue!cacheVars, reader, upsets, misled>>
        BY <1>7 DEF Catalogue!Begins
  <2>2. edits' \in 0..MaxEdits /\ edits' >= edits /\ next.edit <= edits' /\ row' \in [Catalogue!Rows -> RowRecord]
        BY <2>1, <1>7, <1>i, <1>t DEF Catalogue!rowVars, EditTypes
  <2>3. UNCHANGED <<acked, cache, generation, reader, misled>>
        BY <2>1 DEF Catalogue!cacheVars
  <2>4. QED BY <2>1, <2>2, <2>3, <1>w
<1>8. ASSUME NEW o \in Catalogue!Rows, NEW slug \in Nat, NEW what \in {"slug", "erase", "page"}
      PROVE  Catalogue!Editing(o, slug, what) \in EditorRecord /\ Catalogue!Editing(o, slug, what).edit = 0
  <2>1. Catalogue!Editing(o, slug, what) = [does |-> what, row |-> o, slug |-> slug, edit |-> 0] /\ 0 \in 0..MaxEdits
        BY DEF Catalogue!Editing
  <2>2. QED BY <2>1 DEF EditorRecord
<1>9. ASSUME NEW d \in Editors, NEW o \in Catalogue!Rows, NEW slug \in Asked \cup {Catalogue!Freed},
             Catalogue!BeginCreate(d, o, slug) \/ Catalogue!BeginUpdate(d, o, slug)
      PROVE  CatalogueInv'
  <2>1. PICK s \in Nat : Catalogue!Begins(d, Catalogue!Editing(o, s, "slug"))
    <3>1. row[o].slug \in Nat /\ slug \in Nat
          BY <1>c, <1>t DEF EditTypes, RowRecord
    <3>2. CASE Catalogue!BeginCreate(d, o, slug)
          BY <3>1, <3>2 DEF Catalogue!BeginCreate
    <3>3. CASE Catalogue!BeginUpdate(d, o, slug)
      <4>1. Catalogue!Begins(d, Catalogue!Editing(o, IF slug = Catalogue!Freed THEN row[o].slug ELSE slug, "slug"))
            BY <3>3 DEF Catalogue!BeginUpdate
      <4>2. QED BY <3>1, <4>1
    <3>4. QED BY <3>2, <3>3, <1>9
  <2>2. QED BY <2>1, <1>7, <1>8
<1>10. ASSUME NEW d \in Editors, NEW o \in Catalogue!Rows, Catalogue!BeginDelete(d, o) \/ Catalogue!BeginPage(d, o) PROVE CatalogueInv'
  <2>1. Catalogue!Begins(d, Catalogue!Editing(o, Catalogue!Freed, "erase")) \/ Catalogue!Begins(d, Catalogue!Editing(o, Catalogue!Freed, "page"))
        BY <1>10 DEF Catalogue!BeginDelete, Catalogue!BeginPage
  <2>2. QED BY <2>1, <1>7, <1>8, <1>c
<1>11. ASSUME NEW d \in Editors, Catalogue!TrySlug(d) PROVE CatalogueInv'
  <2>1. UNCHANGED <<row, edits, acked, cache, generation, reader, misled>>
        BY <1>11 DEF Catalogue!TrySlug, Catalogue!rowVars, Catalogue!cacheVars
  <2>2. edits \in 0..MaxEdits /\ editor[d] \in EditorRecord /\ editor[d].edit <= edits
        BY <1>e, <1>t DEF EditTypes
  <2>a. edits' \in 0..MaxEdits /\ edits' >= edits /\ editor[d].edit <= edits' /\ row' \in [Catalogue!Rows -> RowRecord]
        BY <2>1, <2>2, <1>i, <1>t DEF EditTypes
  <2>3. CASE editor' = [editor EXCEPT ![d].slug = editor[d].slug + 1]
    <3> DEFINE next == [editor[d] EXCEPT !.slug = editor[d].slug + 1]
    <3>1. next \in EditorRecord /\ next.edit = editor[d].edit
          BY <2>2 DEF EditorRecord
    <3>2. editor' = [editor EXCEPT ![d] = next]
          BY <2>3, <1>e
    <3> HIDE DEF next
    <3>3. QED BY <3>1, <3>2, <2>1, <2>a, <1>w
  <2>4. CASE editor' = [editor EXCEPT ![d].does = "write"]
    <3> DEFINE next == [editor[d] EXCEPT !.does = "write"]
    <3>1. next \in EditorRecord /\ next.edit = editor[d].edit
          BY <2>2 DEF EditorRecord
    <3>2. editor' = [editor EXCEPT ![d] = next]
          BY <2>4, <1>e
    <3> HIDE DEF next
    <3>3. QED BY <3>1, <3>2, <2>1, <2>a, <1>w
  <2>5. QED BY <2>3, <2>4, <1>11 DEF Catalogue!TrySlug
\* A write that commits, and an edit that ends.
<1>12. ASSUME NEW d \in Editors, Catalogue!Written(d), edits < MaxEdits, edits' = edits + 1, row' \in [Catalogue!Rows -> RowRecord],
              UNCHANGED <<acked, Catalogue!cacheVars, reader, misled>>
       PROVE  CatalogueInv'
  <2> DEFINE next == [Catalogue!Free EXCEPT !.does = "written", !.edit = edits + 1]
  <2>1. edits + 1 \in 0..MaxEdits
        BY <1>12, <1>i, CatalogueBounds
  <2>2. next \in EditorRecord /\ next.edit = edits + 1
        BY <2>1, <1>f DEF EditorRecord
  <2>3. editor' = [editor EXCEPT ![d] = next]
        BY <1>12 DEF Catalogue!Written
  <2> HIDE DEF next
  <2>4. next.edit <= edits' /\ edits' \in 0..MaxEdits /\ edits' >= edits
        BY <2>1, <2>2, <1>12, <1>i
  <2>5. QED BY <2>2, <2>3, <2>4, <1>12, <1>w DEF Catalogue!cacheVars
<1>13. ASSUME NEW d \in Editors, Catalogue!EndEdit(d), UNCHANGED <<row, edits, acked, Catalogue!cacheVars, reader, misled>> PROVE CatalogueInv'
  <2>1. editor' = [editor EXCEPT ![d] = Catalogue!Free] /\ edits \in 0..MaxEdits
        BY <1>13, <1>t DEF Catalogue!EndEdit, EditTypes
  <2>2. Catalogue!Free.edit <= edits' /\ edits' \in 0..MaxEdits /\ edits' >= edits /\ row' \in [Catalogue!Rows -> RowRecord]
        BY <2>1, <1>13, <1>f, <1>i, <1>t DEF EditTypes
  <2>3. QED BY <2>1, <2>2, <1>13, <1>f, <1>w DEF Catalogue!cacheVars
<1>14. ASSUME NEW d \in Editors, Catalogue!Write(d) PROVE CatalogueInv'
  <2>1. CASE UNCHANGED Catalogue!rowVars /\ Catalogue!EndEdit(d)
        BY <2>1, <1>14, <1>13 DEF Catalogue!Write, Catalogue!rowVars
  <2>2. CASE edits < MaxEdits /\ edits' = edits + 1 /\ Catalogue!Written(d)
    <3> DEFINE o == editor[d].row
    <3>1. PICK shown \in BOOLEAN : row' = [row EXCEPT ![o] =
              [exists |-> TRUE, deleted |-> row[o].deleted, published |-> shown, slug |-> editor[d].slug]]
      <4>1. edits' # edits
            BY <2>2, <1>i
      <4>2. QED BY <4>1, <2>2, <1>14 DEF Catalogue!Write, Catalogue!rowVars
    <3>2. row' \in [Catalogue!Rows -> RowRecord]
      <4>1. CASE o \in Catalogue!Rows
        <5>1. row[o].deleted \in BOOLEAN /\ editor[d].slug \in Nat
              BY <4>1, <1>e, <1>t DEF EditTypes, RowRecord, EditorRecord
        <5>2. [exists |-> TRUE, deleted |-> row[o].deleted, published |-> shown, slug |-> editor[d].slug] \in RowRecord
              BY <5>1 DEF RowRecord
        <5>3. QED BY <3>1, <5>2, <1>t DEF EditTypes
      <4>2. CASE o \notin Catalogue!Rows
            BY <3>1, <4>2, <1>t DEF EditTypes
      <4>3. QED BY <4>1, <4>2
    <3>3. QED BY <3>2, <2>2, <1>14, <1>12 DEF Catalogue!Write
  <2>3. QED BY <2>1, <2>2, <1>14 DEF Catalogue!Write
<1>15. ASSUME NEW d \in Editors, Catalogue!Erase(d) PROVE CatalogueInv'
  <2> DEFINE o == editor[d].row
  <2>1. row' = [row EXCEPT ![o] = [row[o] EXCEPT !.deleted = TRUE, !.slug = Catalogue!Freed]]
    <3>1. row' = [row EXCEPT ![o].deleted = TRUE, ![o].slug = Catalogue!Freed]
          BY <1>15 DEF Catalogue!Erase
    <3>2. QED BY <3>1, <1>t DEF EditTypes
  <2>2. row' \in [Catalogue!Rows -> RowRecord]
    <3>1. CASE o \in Catalogue!Rows
      <4>1. [row[o] EXCEPT !.deleted = TRUE, !.slug = Catalogue!Freed] \in RowRecord
            BY <3>1, <1>c, <1>t, ZenonT(60) DEF EditTypes, RowRecord
      <4>2. QED BY <2>1, <4>1, <1>t DEF EditTypes
    <3>2. CASE o \notin Catalogue!Rows
          BY <2>1, <3>2, <1>t DEF EditTypes
    <3>3. QED BY <3>1, <3>2
  <2>3. QED BY <2>2, <1>15, <1>12 DEF Catalogue!Erase
<1>16. ASSUME NEW d \in Editors, Catalogue!WritePage(d) PROVE CatalogueInv'
       BY <1>16, <1>12, <1>t DEF Catalogue!WritePage, EditTypes
<1>17. ASSUME NEW d \in Editors, Catalogue!LoseReply(d) PROVE CatalogueInv'
       BY <1>17, <1>13 DEF Catalogue!LoseReply, Catalogue!rowVars
\* The cache is empty: there is nothing in it to be wrong.
<1>v. ASSUME Catalogue!Emptied PROVE EntriesInv' /\ cache' \in [Keys -> EntryRecord]
  <2>1. cache' = [k \in Keys |-> Catalogue!NoEntry]
        BY <1>v DEF Catalogue!Emptied
  <2>2. Catalogue!NoEntry' = Catalogue!NoEntry /\ Catalogue!Unloaded' = Catalogue!Unloaded
        BY DEF Catalogue!NoEntry, Catalogue!Unloaded
  <2>3. QED BY <2>1, <2>2, Records DEF EntriesInv
<1>18. ASSUME NEW d \in Editors, Catalogue!Acknowledge(d) PROVE CatalogueInv'
  <2>1. /\ Catalogue!Emptied /\ generation' = generation + 1 /\ Catalogue!EndEdit(d)
        /\ acked' = IF editor[d].edit > acked THEN editor[d].edit ELSE acked
        /\ UNCHANGED <<row, edits, reader, misled>>
        BY <1>18 DEF Catalogue!Acknowledge, Catalogue!Invalidated, Catalogue!rowVars
  <2>2. editor[d].edit <= edits /\ editor[d].edit \in Nat
        BY <1>e DEF EditorRecord
  <2>3. acked' \in 0..edits /\ acked' >= acked
        BY <2>1, <2>2, <1>i
  <2>4. editor' \in [Editors -> EditorRecord] /\ \A e \in Editors : editor'[e].edit <= edits
        BY <2>1, <1>e, <1>f, <1>i DEF Catalogue!EndEdit
  <2>5. EditTypes'
        BY <2>1, <2>3, <2>4, <1>v, <1>i, <1>t DEF EditTypes, ReaderRecord, EntryRecord, EditorRecord, RowRecord, Catalogue!Rows, Catalogue!Unloaded
  <2>6. ReadersInv'
    <3>1. \A q \in Readers : reader[q].since \in Nat /\ reader[q].gen \in Nat
          BY <1>r DEF ReaderRecord
    <3>2. \A q \in Readers : reader[q].since <= acked' /\ reader[q].gen <= generation' /\ reader[q].gen # generation'
          BY <3>1, <2>1, <2>2, <2>3, <1>i, <1>t DEF ReadersInv
    <3>3. QED BY <3>2, <2>1, <1>t DEF ReadersInv, HasSeen
  <2>7. QED BY <2>1, <2>5, <2>6, <1>v, <1>t DEF CatalogueInv, Catalogue!EditsAreSeen
<1>19. ASSUME Catalogue!Restart PROVE CatalogueInv'
  <2>1. /\ Catalogue!Emptied /\ generation' = 0 /\ reader' = [r \in Readers |-> Catalogue!Resting] /\ editor' = [d \in Editors |-> Catalogue!Free]
        /\ UNCHANGED <<row, edits, acked, misled>>
        BY <1>19 DEF Catalogue!Restart, Catalogue!rowVars
  <2>2. EditTypes'
        BY <2>1, <1>v, <1>f, <1>i, <1>t, Records DEF EditTypes, ReaderRecord, EntryRecord, EditorRecord, RowRecord, Catalogue!Rows, Catalogue!Unloaded
  <2>3. ReadersInv'
    <3>1. \A r \in Readers : reader'[r] = Catalogue!Resting
          BY <2>1
    <3>2. QED BY <3>1, <2>1, <1>i, Records DEF ReadersInv, HasSeen
  <2>4. QED BY <2>1, <2>2, <2>3, <1>v, <1>t DEF CatalogueInv, Catalogue!EditsAreSeen
<1>20. ASSUME UNCHANGED catalogueVars PROVE CatalogueInv'
  <2>1. UNCHANGED <<row, edits, acked, cache, generation, reader, editor, misled>>
        BY <1>20 DEF catalogueVars, Catalogue!rowVars, Catalogue!cacheVars
  <2>2. QED BY <2>1, <1>e, <1>i, <1>t, EditingKeeps DEF EditTypes
<1>21. QED BY <1>1, <1>2, <1>3, <1>4, <1>5, <1>6, <1>9, <1>10, <1>11, <1>14, <1>15, <1>16, <1>17, <1>18, <1>19, <1>20 DEF Catalogue!Next, Catalogue!Rows

-------------------------------------------------------------------------------
RowStatuses == {"NONE", "PENDING", "AUTHENTICATED", "ACTIVE", "PAYMENT_FAILED", "CANCELLED"}
RowRecordOf == [plan : Plans \cup {"PLUS"}, pay : Membership!Payments \cup {Membership!NoPayment}, end : BOOLEAN, status : RowStatuses]
CallRecord ==
    [kind : {"idle", "order", "payment", "capture", "claim", "legacy", "fetch", "apply", "cancel", "cancelApply", "mark"},
     row : Membership!Rows \cup {None}, pay : Membership!Payments \cup {Membership!NoPayment}, snap : Membership!Snapshots, seen : RowStatuses \cup Plans]
DeliveryRecord ==
    [at : {"rest", "known", "reclaim", "find", "apply", "finish", "tell", "fail"}, event : Membership!Events \cup {0}, snap : Membership!Snapshots]

MembershipTypes ==
    /\ Membership!TypeOK
    /\ call \in [AppCalls -> CallRecord] /\ \A c \in AppCalls : call[c].kind = "legacy" => call[c].seen \in RowStatuses
    /\ worker \in [Deliveries -> DeliveryRecord]

\* What a call of the app holds: a payment of its order, which is taken when it claims; or
\* an order that is not in the table yet, alone.
OrderCalls(c) == call[c].kind = "order"
PaymentCalls(c) == call[c].kind \in {"payment", "capture", "claim"}
AppCallsInv ==
    /\ \A c \in AppCalls : OrderCalls(c) =>
           call[c].row \in Orders /\ sub[call[c].row].status = "NONE" /\ call[c].seen \in Plans
    /\ \A c, d \in AppCalls : c # d /\ OrderCalls(c) /\ OrderCalls(d) => call[c].row # call[d].row
    /\ \A c \in AppCalls : PaymentCalls(c) => call[c].pay \in Membership!Payments /\ call[c].pay[1] = call[c].row
    /\ \A c \in AppCalls : call[c].kind = "claim" => payment[call[c].pay] = "captured"

\* An event somebody works on is processing, or just processed.
DeliveriesInv ==
    /\ \A w \in Deliveries : worker[w].at # "rest" => worker[w].event \in Membership!Events
    /\ \A w \in Deliveries : Membership!Working(w) => event[worker[w].event] \in {"PROCESSING", "PROCESSED"}

MembershipInv == MembershipTypes /\ AppCallsInv /\ DeliveriesInv /\ Membership!OnePaymentPerMembership /\ Membership!OneDeliveryPerEvent

LEMMA MembershipInit == Membership!Init => MembershipInv
<1> SUFFICES ASSUME Membership!Init PROVE MembershipInv
    OBVIOUS
<1> USE MembershipBounds
<1>1. provider \in Membership!Snapshots /\ provider.status \in {"created", "active"}
  <2>1. provider = Membership!Nothing \/ provider = [status |-> "active", end |-> TRUE]
        BY DEF Membership!Init
  <2>2. \A x \in BOOLEAN : [status |-> "active", end |-> x] \in Membership!Snapshots /\ [status |-> "created", end |-> x] \in Membership!Snapshots
        BY DEF Membership!Snapshots
  <2>3. CASE provider = Membership!Nothing
        BY <2>2, <2>3 DEF Membership!Nothing
  <2>4. CASE provider = [status |-> "active", end |-> TRUE]
        BY <2>2, <2>4
  <2>5. QED BY <2>1, <2>3, <2>4
<1>2. sub \in [Membership!Rows -> RowRecordOf] /\ \A o \in Orders : sub[o].status = "NONE"
      BY <1>1 DEF Membership!Init, RowRecordOf, RowStatuses, Membership!Rows, Membership!Snapshots, Membership!mapProviderStatus
<1>3. Membership!Idle \in CallRecord /\ Membership!Resting \in DeliveryRecord
      BY DEF Membership!Idle, CallRecord, Membership!Resting, DeliveryRecord, RowStatuses, Membership!Snapshots, Membership!Nothing
<1>4. call \in [AppCalls -> CallRecord] /\ worker \in [Deliveries -> DeliveryRecord]
      BY <1>3 DEF Membership!Init
<1>5. \A c \in AppCalls : call[c].kind = "idle"
      BY DEF Membership!Init, Membership!Idle
<1>6. \A w \in Deliveries : worker[w].at = "rest"
      BY DEF Membership!Init, Membership!Resting
<1>7. entitlement \in [plan : Plans \cup {"PLUS", "FREE"}, source : Membership!Rows \cup {None}] /\ entitlement.source \notin Orders
      BY DEF Membership!Init, Membership!Free, Membership!Rows
<1>8. Membership!TypeOK
      BY <1>1, <1>2, <1>4, <1>7 DEF Membership!Init, Membership!TypeOK, RowRecordOf, RowStatuses, CallRecord, DeliveryRecord, Membership!Events
<1>9. receipt = {}
      BY DEF Membership!Init
<1>10. Membership!OnePaymentPerMembership
      BY <1>2, <1>7, <1>9 DEF Membership!OnePaymentPerMembership
<1>11. MembershipTypes /\ AppCallsInv /\ DeliveriesInv /\ Membership!OneDeliveryPerEvent
      BY <1>4, <1>5, <1>6, <1>8
      DEF MembershipTypes, AppCallsInv, OrderCalls, PaymentCalls, DeliveriesInv, Membership!OneDeliveryPerEvent, Membership!Working
<1>12. QED BY <1>10, <1>11 DEF MembershipInv

-------------------------------------------------------------------------------
\* The payments of orders.  A step that leaves the rows of orders alone, and takes up no
\* order and no payment, keeps what is said of them.
PaidInv == AppCallsInv /\ Membership!OnePaymentPerMembership

LEMMA OrdersAside ==
    ASSUME PaidInv,
           \A o \in Orders : sub'[o] = sub[o],
           receipt' = receipt,
           \A p \in Membership!Payments : payment[p] = "captured" => payment'[p] = "captured",
           entitlement' = entitlement \/ entitlement'.source \notin Orders,
           \A c \in AppCalls : call'[c] = call[c] \/ ~(OrderCalls(c)' \/ PaymentCalls(c)'),
           receipt \subseteq Membership!Payments
    PROVE  PaidInv'
<1>1. AppCallsInv'
      BY DEF PaidInv, AppCallsInv, OrderCalls, PaymentCalls
<1>2. Membership!OnePaymentPerMembership'
      BY DEF PaidInv, Membership!OnePaymentPerMembership
<1>3. QED BY <1>1, <1>2 DEF PaidInv

LEMMA PaidStep ==
    ASSUME MembershipTypes, PaidInv, [Membership!Next]_membershipVars
    PROVE  PaidInv'
<1> USE MembershipBounds
<1>t. /\ call \in [AppCalls -> CallRecord] /\ sub \in [Membership!Rows -> RowRecordOf] /\ receipt \subseteq Membership!Payments
      /\ payment \in [Membership!Payments -> {"none", "authorized", "captured"}]
      BY DEF MembershipTypes, Membership!TypeOK, RowRecordOf, RowStatuses
<1>i. ~(Membership!Idle.kind \in {"order", "payment", "capture", "claim"}) /\ Legacy \notin Orders
      BY DEF Membership!Idle
<1>1. ASSUME NEW c \in AppCalls, NEW o \in Orders, NEW plan \in Plans, Membership!CreateOrder(c, o, plan) PROVE PaidInv'
  <2> DEFINE next == [Membership!Idle EXCEPT !.kind = "order", !.row = o, !.seen = plan]
  <2>1. next.kind = "order" /\ next.row = o /\ next.seen = plan
        BY DEF Membership!Idle
  <2>2. /\ call' = [call EXCEPT ![c] = next] /\ sub[o].status = "NONE" /\ \A d \in AppCalls : call[d].row # o
        /\ UNCHANGED <<sub, receipt, payment, entitlement>>
        BY <1>1 DEF Membership!CreateOrder, Membership!rowVars, Membership!providerVars
  <2> HIDE DEF next
  <2>3. AppCallsInv'
        BY <1>t, <2>1, <2>2 DEF PaidInv, AppCallsInv, OrderCalls, PaymentCalls
  <2>4. QED BY <2>2, <2>3 DEF PaidInv, Membership!OnePaymentPerMembership
<1>2. ASSUME NEW c \in AppCalls, Membership!StoreOrder(c) PROVE PaidInv'
  <2> DEFINE o == call[c].row
             new == [plan |-> call[c].seen, status |-> "PENDING", pay |-> Membership!NoPayment, end |-> FALSE]
  <2>1. OrderCalls(c) /\ o \in Orders /\ sub[o].status = "NONE"
        BY <1>2 DEF Membership!StoreOrder, Membership!Running, OrderCalls, PaidInv, AppCallsInv
  <2>2. /\ call' = [call EXCEPT ![c] = Membership!Idle] /\ sub' = [sub EXCEPT ![o] = new] /\ new.status = "PENDING"
        /\ UNCHANGED <<receipt, payment, entitlement>>
        BY <1>2 DEF Membership!StoreOrder, Membership!Done, Membership!providerVars
  <2> HIDE DEF new
  <2>3. AppCallsInv'
        BY <1>t, <1>i, <2>1, <2>2 DEF PaidInv, AppCallsInv, OrderCalls, PaymentCalls, Membership!Rows
  <2>4. Membership!OnePaymentPerMembership'
        BY <1>t, <2>1, <2>2 DEF PaidInv, Membership!OnePaymentPerMembership, Membership!Rows
  <2>5. QED BY <2>3, <2>4 DEF PaidInv
<1>3. ASSUME NEW p \in Membership!Payments, NEW c \in AppCalls, Membership!Verify(c, p) PROVE PaidInv'
  <2> DEFINE next == [Membership!Idle EXCEPT !.kind = "payment", !.row = p[1], !.pay = p]
  <2>1. next.kind = "payment" /\ next.row = p[1] /\ next.pay = p
        BY DEF Membership!Idle
  <2>2. call' = [call EXCEPT ![c] = next] /\ UNCHANGED <<sub, receipt, payment, entitlement>>
        BY <1>3 DEF Membership!Verify, Membership!rowVars, Membership!providerVars
  <2> HIDE DEF next
  <2>3. AppCallsInv'
        BY <1>t, <2>1, <2>2 DEF PaidInv, AppCallsInv, OrderCalls, PaymentCalls
  <2>4. QED BY <2>2, <2>3 DEF PaidInv, Membership!OnePaymentPerMembership
<1>4. ASSUME NEW c \in AppCalls, Membership!GetPayment(c) PROVE PaidInv'
  <2>1. PaymentCalls(c) /\ call[c].pay \in Membership!Payments
        BY <1>4 DEF Membership!GetPayment, Membership!Running, PaymentCalls, PaidInv, AppCallsInv
  <2>2. PICK kind \in {"capture", "claim"} :
            call' = [call EXCEPT ![c].kind = kind] /\ (kind = "claim" => payment[call[c].pay] = "captured")
        BY <1>4 DEF Membership!GetPayment
  <2>3. UNCHANGED <<sub, receipt, payment, entitlement>>
        BY <1>4 DEF Membership!GetPayment, Membership!rowVars, Membership!providerVars
  <2>4. \A d \in AppCalls : d # c => call'[d] = call[d]
        BY <1>t, <2>2
  <2>5. call'[c].kind = kind /\ call'[c].pay = call[c].pay /\ call'[c].row = call[c].row
        BY <1>t, <2>2 DEF CallRecord
  <2>6. AppCallsInv'
        BY <2>1, <2>2, <2>3, <2>4, <2>5 DEF PaidInv, AppCallsInv, OrderCalls, PaymentCalls
  <2>7. QED BY <2>3, <2>6 DEF PaidInv, Membership!OnePaymentPerMembership
<1>5. ASSUME NEW c \in AppCalls, Membership!Capture(c), payment[call[c].pay] = "authorized" PROVE PaidInv'
  <2>1. PaymentCalls(c) /\ call[c].pay \in Membership!Payments
        BY <1>5 DEF Membership!Capture, Membership!Running, PaymentCalls, PaidInv, AppCallsInv
  <2>2. /\ payment' = [payment EXCEPT ![call[c].pay] = "captured"] /\ call' = [call EXCEPT ![c].kind = "claim"]
        /\ UNCHANGED <<sub, receipt, entitlement>>
        BY <1>5 DEF Membership!Capture, Membership!rowVars
  <2>3. \A d \in AppCalls : d # c => call'[d] = call[d]
        BY <1>t, <2>2
  <2>4. call'[c].kind = "claim" /\ call'[c].pay = call[c].pay /\ call'[c].row = call[c].row
        BY <1>t, <2>2 DEF CallRecord
  <2>5. payment'[call[c].pay] = "captured" /\ \A p \in Membership!Payments : payment[p] = "captured" => payment'[p] = "captured"
        BY <1>t, <2>1, <2>2
  <2>6. AppCallsInv'
        BY <2>1, <2>2, <2>3, <2>4, <2>5 DEF PaidInv, AppCallsInv, OrderCalls, PaymentCalls
  <2>7. Membership!OnePaymentPerMembership'
        BY <1>t, <2>2, <2>5 DEF PaidInv, Membership!OnePaymentPerMembership
  <2>8. QED BY <2>6, <2>7 DEF PaidInv
<1>6. ASSUME NEW c \in AppCalls, Membership!Activate(c), Membership!Claimable(call[c].row) PROVE PaidInv'
  <2> DEFINE o == call[c].row
             p == call[c].pay
  <2>1. PaymentCalls(c) /\ p \in Membership!Payments /\ p[1] = o /\ payment[p] = "captured" /\ o \in Orders
        BY <1>6 DEF Membership!Activate, Membership!Running, PaymentCalls, PaidInv, AppCallsInv, Membership!Payments
  <2>2. /\ sub' = [sub EXCEPT ![o].status = "ACTIVE", ![o].pay = p, ![o].end = TRUE]
        /\ entitlement' = [plan |-> sub[o].plan, source |-> o]
        /\ receipt' = receipt \cup {p} /\ call' = [call EXCEPT ![c] = Membership!Idle] /\ UNCHANGED payment
        BY <1>6 DEF Membership!Activate, Membership!Done, Membership!providerVars
  <2>3. sub[o].status \notin {"ACTIVE", "NONE"}
        BY <1>6 DEF Membership!Claimable
  <2>4. \A r \in Membership!Rows : r # o => sub'[r] = sub[r]
        BY <1>t, <2>2
  <2>5. sub'[o].status = "ACTIVE" /\ sub'[o].pay = p /\ sub'[o].plan = sub[o].plan
        BY <1>t, <2>1, <2>2 DEF Membership!Rows, RowRecordOf
  <2>6. AppCallsInv'
        BY <1>t, <1>i, <2>1, <2>2, <2>3, <2>4 DEF PaidInv, AppCallsInv, OrderCalls, PaymentCalls, Membership!Rows
  <2>7. {q \in receipt : q[1] = o} = {}
        BY <2>1, <2>3 DEF PaidInv, Membership!OnePaymentPerMembership
  <2>8. \A q \in Orders : {r \in receipt' : r[1] = q} = IF sub'[q].status = "ACTIVE" THEN {sub'[q].pay} ELSE {}
    <3> SUFFICES ASSUME NEW q \in Orders
                 PROVE  {r \in receipt' : r[1] = q} = IF sub'[q].status = "ACTIVE" THEN {sub'[q].pay} ELSE {}
        OBVIOUS
    <3>1. CASE q = o
          BY <3>1, <2>1, <2>2, <2>5, <2>7
    <3>2. CASE q # o
      <4>1. {r \in receipt' : r[1] = q} = {r \in receipt : r[1] = q}
            BY <3>2, <2>1, <2>2
      <4>2. QED BY <4>1, <3>2, <2>4 DEF PaidInv, Membership!OnePaymentPerMembership, Membership!Rows
    <3>3. QED BY <3>1, <3>2
  <2>9. \A q \in receipt' : payment'[q] = "captured"
        BY <2>1, <2>2 DEF PaidInv, Membership!OnePaymentPerMembership
  <2>10. QED BY <2>1, <2>2, <2>5, <2>6, <2>8, <2>9 DEF PaidInv, Membership!OnePaymentPerMembership
<1>l. ASSUME NEW snap, Membership!ApplyLifecycle(snap)
      PROVE  (\A o \in Orders : sub'[o] = sub[o]) /\ entitlement'.source \notin Orders
      BY <1>l, <1>t DEF Membership!ApplyLifecycle, Membership!Free, Membership!Rows
<1>n. \A c \in AppCalls : (call' = [call EXCEPT ![c] = Membership!Idle]) => \A d \in AppCalls : call'[d] = call[d] \/ ~(OrderCalls(d)' \/ PaymentCalls(d)')
      BY <1>t, <1>i DEF OrderCalls, PaymentCalls
<1> DEFINE Aside ==
      /\ \A o \in Orders : sub'[o] = sub[o]
      /\ receipt' = receipt
      /\ \A p \in Membership!Payments : payment[p] = "captured" => payment'[p] = "captured"
      /\ entitlement' = entitlement \/ entitlement'.source \notin Orders
      /\ \A c \in AppCalls : call'[c] = call[c] \/ ~(OrderCalls(c)' \/ PaymentCalls(c)')
<1>7. ASSUME NEW p \in Membership!Payments, Membership!Pay(p) PROVE Aside
      BY <1>7, <1>t DEF Membership!Pay, Membership!rowVars
<1>8. ASSUME NEW s, Membership!Change(s) PROVE Aside
      BY <1>8 DEF Membership!Change, Membership!rowVars
<1>9. ASSUME NEW r \in Membership!Rows, Membership!EndPeriod(r) PROVE Aside
      BY <1>9 DEF Membership!EndPeriod, Membership!rowVars
<1>10. ASSUME NEW o \in Orders, Membership!Age(o) \/ Membership!CancelOrder(o) PROVE Aside
      BY <1>10 DEF Membership!Age, Membership!CancelOrder, Membership!providerVars
<1>11. ASSUME NEW c \in AppCalls, Membership!Capture(c), payment[call[c].pay] # "authorized" PROVE Aside
      BY <1>11, <1>n DEF Membership!Capture, Membership!Done, Membership!rowVars
<1>12. ASSUME NEW c \in AppCalls, Membership!Activate(c), ~Membership!Claimable(call[c].row) PROVE Aside
      BY <1>12, <1>n DEF Membership!Activate, Membership!Done, Membership!providerVars
<1>13. ASSUME NEW c \in AppCalls, Membership!BeginLegacyVerify(c) \/ Membership!BeginRestore(c) \/ Membership!BeginCancel(c) PROVE Aside
      BY <1>13, <1>t DEF Membership!BeginLegacyVerify, Membership!BeginRestore, Membership!BeginCancel, Membership!ToRow, Membership!Idle, Membership!rowVars, Membership!providerVars, OrderCalls, PaymentCalls
<1>14. ASSUME NEW c \in AppCalls, Membership!EndLegacyVerify(c) PROVE Aside
      BY <1>14, <1>n, <1>t DEF Membership!EndLegacyVerify, Membership!Done, Membership!providerVars, Membership!Rows
<1>15. ASSUME NEW c \in AppCalls, Membership!Fetch(c) \/ Membership!AskCancel(c) PROVE Aside
      BY <1>15, <1>t DEF Membership!Fetch, Membership!AskCancel, CallRecord, Membership!rowVars, Membership!providerVars, OrderCalls, PaymentCalls
<1>16. ASSUME NEW c \in AppCalls, Membership!Apply(c) PROVE Aside
      BY <1>16, <1>n, <1>l DEF Membership!Apply, Membership!Done, Membership!providerVars
<1>17. ASSUME NEW c \in AppCalls, Membership!ApplyCancel(c) PROVE Aside
      BY <1>17, <1>l, <1>t DEF Membership!ApplyCancel, CallRecord, Membership!providerVars, OrderCalls, PaymentCalls
<1>18. ASSUME NEW c \in AppCalls, Membership!MarkCancelled(c) PROVE Aside
      BY <1>18, <1>n, <1>t DEF Membership!MarkCancelled, Membership!Done, Membership!providerVars, Membership!Rows
<1>19. ASSUME NEW c \in AppCalls, Membership!CallFails(c) PROVE Aside
      BY <1>19, <1>n, <1>t DEF Membership!CallFails, Membership!Done, Membership!rowVars
<1>20. ASSUME NEW w \in Deliveries, Membership!ApplyEvent(w) PROVE Aside
      BY <1>20, <1>l DEF Membership!ApplyEvent, Membership!providerVars
<1>21. ASSUME NEW w \in Deliveries,
              \/ \E e \in Membership!Events : Membership!Deliver(w, e)
              \/ Membership!Known(w) \/ Membership!Reclaim(w) \/ Membership!Ignore(w) \/ Membership!FetchForEvent(w)
              \/ Membership!FinishEvent(w) \/ Membership!Tell(w) \/ Membership!StepFails(w) \/ Membership!MarkFailed(w)
       PROVE  Aside
      BY <1>21 DEF Membership!Deliver, Membership!Known, Membership!Reclaim, Membership!Ignore, Membership!FetchForEvent, Membership!FinishEvent, Membership!Tell, Membership!StepFails, Membership!MarkFailed, Membership!rowVars, Membership!providerVars
<1>22. ASSUME Membership!Restart PROVE Aside
      BY <1>22, <1>i DEF Membership!Restart, Membership!rowVars, Membership!providerVars, OrderCalls, PaymentCalls
<1>23. ASSUME UNCHANGED membershipVars PROVE Aside
      BY <1>23 DEF membershipVars, Membership!rowVars, Membership!providerVars
<1>24. ASSUME Aside PROVE PaidInv'
      BY <1>24, <1>t, OrdersAside
<1> HIDE DEF Aside
<1>25. QED BY <1>1, <1>2, <1>3, <1>4, <1>5, <1>6, <1>7, <1>8, <1>9, <1>10, <1>11, <1>12, <1>13, <1>14, <1>15, <1>16, <1>17,
               <1>18, <1>19, <1>20, <1>21, <1>22, <1>23, <1>24 DEF Membership!Next

-------------------------------------------------------------------------------
\* The deliveries of events.
WorkedInv == DeliveriesInv /\ Membership!OneDeliveryPerEvent

LEMMA WorkedStep ==
    ASSUME MembershipTypes, WorkedInv, [Membership!Next]_membershipVars
    PROVE  WorkedInv'
<1> USE MembershipBounds
<1>t. /\ worker \in [Deliveries -> DeliveryRecord]
      /\ event \in [Membership!Events -> {"NONE", "PROCESSING", "PROCESSED", "IGNORED", "FAILED"}]
      /\ 1 \in Membership!Events
      BY DEF MembershipTypes, Membership!TypeOK, Membership!Events
<1>i. Membership!Resting.at = "rest"
      BY DEF Membership!Resting
<1> USE DEF WorkedInv, DeliveriesInv, Membership!OneDeliveryPerEvent, Membership!Working
<1>1. ASSUME NEW w \in Deliveries, NEW e \in Membership!Events, Membership!Deliver(w, e) PROVE WorkedInv'
  <2>1. ASSUME NEW at \in {"find", "known"}, worker' = [worker EXCEPT ![w] = [Membership!Resting EXCEPT !.at = at, !.event = e]]
        PROVE  worker'[w].at = at /\ worker'[w].event = e /\ \A v \in Deliveries : v # w => worker'[v] = worker[v]
        BY <2>1, <1>t DEF Membership!Resting
  <2>2. CASE event[e] = "NONE"
    <3>1. /\ worker' = [worker EXCEPT ![w] = [Membership!Resting EXCEPT !.at = "find", !.event = e]]
          /\ event' = [event EXCEPT ![e] = "PROCESSING"]
          BY <2>2, <1>1 DEF Membership!Deliver
    <3>2. QED BY <2>1, <2>2, <3>1, <1>t
  <2>3. CASE event[e] # "NONE"
    <3>1. worker' = [worker EXCEPT ![w] = [Membership!Resting EXCEPT !.at = "known", !.event = e]] /\ UNCHANGED event
          BY <2>3, <1>1 DEF Membership!Deliver
    <3>2. QED BY <2>1, <3>1, <1>t
  <2>4. QED BY <2>2, <2>3
<1>2. ASSUME NEW w \in Deliveries, worker' = [worker EXCEPT ![w] = Membership!Resting], UNCHANGED event PROVE WorkedInv'
      BY <1>2, <1>i, <1>t
<1>3. ASSUME NEW w \in Deliveries, NEW at \in {"finish", "tell", "fail", "reclaim", "apply"},
             \A v \in Deliveries \ {w} : worker'[v] = worker[v],
             worker'[w].at = at, worker'[w].event = worker[w].event,
             Membership!Working(w) \/ (at = "reclaim" /\ worker[w].at # "rest"),
             UNCHANGED event \/ (Membership!Working(w) /\ event' = [event EXCEPT ![worker[w].event] = "PROCESSED"])
      PROVE  WorkedInv'
      BY <1>3, <1>t
<1>g. ASSUME NEW w \in Deliveries, NEW at \in {"find", "finish", "tell", "fail", "reclaim"}, Membership!Go(w, at)
      PROVE  /\ \A v \in Deliveries \ {w} : worker'[v] = worker[v]
             /\ worker'[w].at = at /\ worker'[w].event = worker[w].event
      BY <1>g, <1>t DEF Membership!Go, DeliveryRecord
<1>4. ASSUME NEW w \in Deliveries, Membership!Known(w) PROVE WorkedInv'
  <2>1. CASE event[worker[w].event] = "FAILED"
        BY <2>1, <1>3, <1>4, <1>g DEF Membership!Known, Membership!At
  <2>2. CASE event[worker[w].event] # "FAILED"
        BY <2>2, <1>2, <1>4 DEF Membership!Known, Membership!Answer, Membership!Rest
  <2>3. QED BY <2>1, <2>2
<1>5. ASSUME NEW w \in Deliveries, Membership!Reclaim(w) PROVE WorkedInv'
  <2>1. CASE event[worker[w].event] = "FAILED"
    <3>1. event' = [event EXCEPT ![worker[w].event] = "PROCESSING"] /\ Membership!Go(w, "find") /\ worker[w].event \in Membership!Events
          BY <2>1, <1>5 DEF Membership!Reclaim, Membership!Reclaimable, Membership!At
    <3>2. QED BY <2>1, <3>1, <1>g, <1>t
  <2>2. CASE event[worker[w].event] # "FAILED"
        BY <2>2, <1>2, <1>5 DEF Membership!Reclaim, Membership!Reclaimable, Membership!Answer, Membership!Rest
  <2>3. QED BY <2>1, <2>2
<1>6. ASSUME NEW w \in Deliveries, Membership!Ignore(w) PROVE WorkedInv'
  <2>1. /\ worker[w].at = "find" /\ worker[w].event = 1
        /\ event' = [event EXCEPT ![1] = "IGNORED"] /\ worker' = [worker EXCEPT ![w] = Membership!Resting]
        BY <1>6 DEF Membership!Ignore, Membership!At, Membership!Answer, Membership!Rest
  <2>2. QED BY <2>1, <1>t, <1>i
<1>7. ASSUME NEW w \in Deliveries, Membership!FetchForEvent(w) PROVE WorkedInv'
  <2>1. /\ \A v \in Deliveries \ {w} : worker'[v] = worker[v]
        /\ worker'[w].at = "apply" /\ worker'[w].event = worker[w].event
        BY <1>7, <1>t DEF Membership!FetchForEvent, DeliveryRecord
  <2>2. QED BY <2>1, <1>7, <1>3 DEF Membership!FetchForEvent, Membership!At
<1>8. ASSUME NEW w \in Deliveries, Membership!ApplyEvent(w) PROVE WorkedInv'
      BY <1>8, <1>g, <1>3 DEF Membership!ApplyEvent, Membership!At
<1>9. ASSUME NEW w \in Deliveries, Membership!FinishEvent(w) PROVE WorkedInv'
      BY <1>9, <1>g, <1>3 DEF Membership!FinishEvent, Membership!At
<1>10. ASSUME NEW w \in Deliveries, Membership!Tell(w) PROVE WorkedInv'
      BY <1>10, <1>2 DEF Membership!Tell, Membership!Answer, Membership!Rest
<1>11. ASSUME NEW w \in Deliveries, Membership!StepFails(w) PROVE WorkedInv'
      BY <1>11, <1>g, <1>3 DEF Membership!StepFails
<1>12. ASSUME NEW w \in Deliveries, Membership!MarkFailed(w) PROVE WorkedInv'
  <2>1. /\ worker[w].at = "fail" /\ event' = [event EXCEPT ![worker[w].event] = "FAILED"]
        /\ worker' = [worker EXCEPT ![w] = Membership!Resting]
        BY <1>12 DEF Membership!MarkFailed, Membership!At, Membership!Rest
  <2>2. QED BY <2>1, <1>t, <1>i
<1>13. ASSUME Membership!Restart PROVE WorkedInv'
      BY <1>13, <1>i DEF Membership!Restart
<1>14. ASSUME UNCHANGED <<event, worker>> PROVE WorkedInv'
      BY <1>14
<1>15. ASSUME NEW p \in Membership!Payments, Membership!Pay(p) PROVE UNCHANGED <<event, worker>>
      BY <1>15 DEF Membership!Pay
<1>16. ASSUME NEW p \in Membership!Payments, NEW c \in AppCalls, Membership!Verify(c, p) PROVE UNCHANGED <<event, worker>>
      BY <1>16 DEF Membership!Verify
<1>17. ASSUME NEW s, Membership!Change(s) PROVE UNCHANGED <<event, worker>>
      BY <1>17 DEF Membership!Change
<1>18. ASSUME NEW r \in Membership!Rows, Membership!EndPeriod(r) PROVE UNCHANGED <<event, worker>>
      BY <1>18 DEF Membership!EndPeriod
<1>19. ASSUME NEW o \in Orders, Membership!Age(o) \/ Membership!CancelOrder(o) \/ \E c \in AppCalls, plan \in Plans : Membership!CreateOrder(c, o, plan)
       PROVE  UNCHANGED <<event, worker>>
      BY <1>19 DEF Membership!Age, Membership!CancelOrder, Membership!CreateOrder
<1>20. ASSUME NEW c \in AppCalls,
              \/ Membership!StoreOrder(c) \/ Membership!GetPayment(c) \/ Membership!Capture(c) \/ Membership!Activate(c)
              \/ Membership!BeginLegacyVerify(c) \/ Membership!EndLegacyVerify(c)
              \/ Membership!BeginRestore(c) \/ Membership!Fetch(c) \/ Membership!Apply(c)
              \/ Membership!BeginCancel(c) \/ Membership!AskCancel(c) \/ Membership!ApplyCancel(c) \/ Membership!MarkCancelled(c)
              \/ Membership!CallFails(c)
       PROVE  UNCHANGED <<event, worker>>
      BY <1>20 DEF Membership!StoreOrder, Membership!GetPayment, Membership!Capture, Membership!Activate, Membership!BeginLegacyVerify, Membership!EndLegacyVerify, Membership!BeginRestore, Membership!Fetch, Membership!Apply,
         Membership!BeginCancel, Membership!AskCancel, Membership!ApplyCancel, Membership!MarkCancelled, Membership!CallFails
<1>21. ASSUME UNCHANGED membershipVars PROVE UNCHANGED <<event, worker>>
      BY <1>21 DEF membershipVars
<1>22. QED BY <1>1, <1>4, <1>5, <1>6, <1>7, <1>8, <1>9, <1>10, <1>11, <1>12, <1>13, <1>14, <1>15, <1>16, <1>17, <1>18,
               <1>19, <1>20, <1>21 DEF Membership!Next

-------------------------------------------------------------------------------
LEMMA MembershipTypesStep ==
    ASSUME MembershipTypes, AppCallsInv, DeliveriesInv, [Membership!Next]_membershipVars
    PROVE  MembershipTypes'
<1> USE MembershipBounds
<1> DEFINE SubOK == sub \in [Membership!Rows -> RowRecordOf]
           EntitlementOK == entitlement \in [plan : Plans \cup {"PLUS", "FREE"}, source : Membership!Rows \cup {None}]
           RowsOK == over \subseteq Membership!Rows /\ stale \subseteq Orders /\ cancelled \subseteq Membership!Rows /\ receipt \subseteq Membership!Payments
           EventsOK == event \in [Membership!Events -> {"NONE", "PROCESSING", "PROCESSED", "IGNORED", "FAILED"}] /\ ackedEvents \subseteq Membership!Events
           CallOK == call \in [AppCalls -> CallRecord] /\ \A c \in AppCalls : call[c].kind = "legacy" => call[c].seen \in RowStatuses
           WorkerOK == worker \in [Deliveries -> DeliveryRecord]
           PaymentOK == payment \in [Membership!Payments -> {"none", "authorized", "captured"}]
           ProviderOK == provider \in Membership!Snapshots /\ emitted \in Membership!Events
           CountersOK == begun \in 0..MaxBegun /\ faultCount \in 0..MaxFaults
<1>t. SubOK /\ EntitlementOK /\ RowsOK /\ EventsOK /\ CallOK /\ WorkerOK /\ PaymentOK /\ ProviderOK /\ CountersOK
      BY DEF MembershipTypes, Membership!TypeOK, RowRecordOf, RowStatuses
<1>q. ASSUME SubOK', EntitlementOK', RowsOK', EventsOK', CallOK', WorkerOK', PaymentOK', ProviderOK', CountersOK'
      PROVE  MembershipTypes'
      BY <1>q DEF MembershipTypes, Membership!TypeOK, RowRecordOf, RowStatuses, CallRecord, DeliveryRecord
<1>i. Membership!Idle \in CallRecord /\ Membership!Idle.kind = "idle" /\ Membership!Resting \in DeliveryRecord
      BY DEF Membership!Idle, CallRecord, Membership!Resting, DeliveryRecord, RowStatuses, Membership!Snapshots, Membership!Nothing
<1>m. Membership!Begin => begun' \in 0..MaxBegun
      BY <1>t DEF Membership!Begin
<1>f. Membership!Fault => faultCount' \in 0..MaxFaults
      BY <1>t DEF Membership!Fault
<1>d. ASSUME NEW c \in AppCalls, Membership!Done(c) PROVE CallOK'
      BY <1>d, <1>i, <1>t DEF Membership!Done
<1>r. ASSUME NEW w \in Deliveries, worker' = [worker EXCEPT ![w] = Membership!Resting] PROVE WorkerOK'
      BY <1>r, <1>i, <1>t
<1>g. ASSUME NEW w \in Deliveries, NEW at \in {"find", "finish", "tell", "fail", "reclaim", "apply"}, Membership!Go(w, at) PROVE WorkerOK'
      BY <1>g, <1>t DEF Membership!Go, DeliveryRecord
<1>l. ASSUME NEW snap \in Membership!Snapshots, Membership!ApplyLifecycle(snap) PROVE SubOK' /\ EntitlementOK'
  <2>1. Membership!mapProviderStatus[snap.status] \in RowStatuses /\ snap.end \in BOOLEAN
        BY DEF Membership!Snapshots, Membership!mapProviderStatus, RowStatuses
  <2>2. SubOK'
    <3> DEFINE next == [sub[Legacy] EXCEPT !.status = Membership!mapProviderStatus[snap.status], !.end = snap.end]
    <3>0. \A s \in RowStatuses, b \in BOOLEAN : [sub[Legacy] EXCEPT !.status = s, !.end = b] \in RowRecordOf
      <4>1. sub[Legacy] \in RowRecordOf
            BY <1>t DEF Membership!Rows
      <4>2. QED BY <4>1 DEF RowRecordOf
    <3>1. next \in RowRecordOf
          BY <3>0, <2>1
    <3>2. sub' = [sub EXCEPT ![Legacy] = next]
          BY <1>l, <1>t DEF Membership!ApplyLifecycle
    <3> HIDE DEF next
    <3>3. QED BY <3>1, <3>2, <1>t
  <2>3. sub[Legacy].plan \in Plans \cup {"PLUS"}
        BY <1>t DEF Membership!Rows, RowRecordOf
  <2>4. EntitlementOK'
        BY <1>l, <2>3 DEF Membership!ApplyLifecycle, Membership!Free, Membership!Rows
  <2>5. QED BY <2>2, <2>4
<1>s. \A c \in AppCalls : call[c].snap \in Membership!Snapshots /\ call[c].row \in Membership!Rows \cup {None}
      BY <1>t DEF CallRecord
<1>w. \A w \in Deliveries : worker[w].snap \in Membership!Snapshots
      BY <1>t DEF DeliveryRecord
<1> USE DEF Membership!rowVars, Membership!providerVars, Membership!counters
<1>1. ASSUME NEW p \in Membership!Payments, Membership!Pay(p) PROVE MembershipTypes'
      BY <1>1, <1>t, <1>q DEF Membership!Pay
<1>2. ASSUME NEW p \in Membership!Payments, NEW c \in AppCalls, Membership!Verify(c, p) PROVE MembershipTypes'
  <2>1. [Membership!Idle EXCEPT !.kind = "payment", !.row = p[1], !.pay = p] \in CallRecord
        BY <1>i DEF CallRecord, Membership!Payments, Membership!Rows
  <2>2. CallOK'
        BY <1>2, <2>1, <1>t DEF Membership!Verify, Membership!Idle
  <2>3. QED BY <1>2, <2>2, <1>t, <1>q, <1>m DEF Membership!Verify
<1>3. ASSUME NEW s \in {"authenticated", "active", "halted", "cancelled"}, Membership!Change(s) PROVE MembershipTypes'
  <2>1. provider' \in Membership!Snapshots
        BY <1>3, <1>t DEF Membership!Change, Membership!Snapshots
  <2>2. emitted' \in Membership!Events
        BY <1>3, <1>t DEF Membership!Change, Membership!Events
  <2>3. QED BY <1>3, <2>1, <2>2, <1>t, <1>q DEF Membership!Change
<1>4. ASSUME NEW r \in Membership!Rows, Membership!EndPeriod(r) PROVE MembershipTypes'
      BY <1>4, <1>t, <1>q DEF Membership!EndPeriod
<1>5. ASSUME NEW o \in Orders, Membership!Age(o) PROVE MembershipTypes'
      BY <1>5, <1>t, <1>q DEF Membership!Age
<1>6. ASSUME NEW o \in Orders, Membership!CancelOrder(o) PROVE MembershipTypes'
      BY <1>6, <1>t, <1>q, <1>m DEF Membership!CancelOrder, Membership!Rows
<1>7. ASSUME NEW c \in AppCalls, NEW o \in Orders, NEW plan \in Plans, Membership!CreateOrder(c, o, plan) PROVE MembershipTypes'
  <2>1. [Membership!Idle EXCEPT !.kind = "order", !.row = o, !.seen = plan] \in CallRecord
        BY <1>i DEF CallRecord, Membership!Rows
  <2>2. CallOK'
        BY <1>7, <2>1, <1>t DEF Membership!CreateOrder, Membership!Idle
  <2>3. QED BY <1>7, <2>2, <1>t, <1>q, <1>m DEF Membership!CreateOrder
<1>8. ASSUME NEW c \in AppCalls, Membership!StoreOrder(c) PROVE MembershipTypes'
  <2>1. call[c].row \in Orders /\ call[c].seen \in Plans
        BY <1>8 DEF Membership!StoreOrder, Membership!Running, AppCallsInv, OrderCalls
  <2>2. SubOK'
        BY <1>8, <2>1, <1>t DEF Membership!StoreOrder, RowRecordOf, RowStatuses, Membership!Rows
  <2>3. QED BY <1>8, <2>2, <1>t, <1>q, <1>d DEF Membership!StoreOrder
<1>9. ASSUME NEW c \in AppCalls, Membership!GetPayment(c) PROVE MembershipTypes'
  <2>1. CallOK'
        BY <1>9, <1>t DEF Membership!GetPayment, CallRecord
  <2>2. QED BY <1>9, <2>1, <1>t, <1>q DEF Membership!GetPayment
<1>10. ASSUME NEW c \in AppCalls, Membership!Capture(c) PROVE MembershipTypes'
  <2>1. CASE payment[call[c].pay] = "authorized"
    <3>1. CallOK'
          BY <1>10, <2>1, <1>t DEF Membership!Capture, CallRecord
    <3>2. PaymentOK'
          BY <1>10, <2>1, <1>t DEF Membership!Capture
    <3>3. QED BY <1>10, <3>1, <3>2, <1>t, <1>q DEF Membership!Capture
  <2>2. CASE payment[call[c].pay] # "authorized"
        BY <1>10, <2>2, <1>d, <1>t, <1>q DEF Membership!Capture
  <2>3. QED BY <2>1, <2>2
<1>11. ASSUME NEW c \in AppCalls, Membership!Activate(c) PROVE MembershipTypes'
  <2>1. CASE Membership!Claimable(call[c].row)
    <3>1. call[c].pay \in Membership!Payments /\ call[c].row \in Orders
          BY <1>11 DEF Membership!Activate, Membership!Running, AppCallsInv, PaymentCalls, Membership!Payments
    <3>2. SubOK'
          BY <1>11, <2>1, <3>1, <1>t DEF Membership!Activate, RowRecordOf, RowStatuses, Membership!Rows
    <3>3. sub[call[c].row].plan \in Plans \cup {"PLUS"}
          BY <3>1, <1>t DEF Membership!Rows, RowRecordOf
    <3>4. EntitlementOK' /\ RowsOK'
          BY <1>11, <2>1, <3>1, <3>3, <1>t DEF Membership!Activate, Membership!Rows
    <3>5. QED BY <1>11, <3>2, <3>4, <1>d, <1>t, <1>q DEF Membership!Activate
  <2>2. CASE ~Membership!Claimable(call[c].row)
        BY <1>11, <2>2, <1>d, <1>t, <1>q DEF Membership!Activate
  <2>3. QED BY <2>1, <2>2
<1>12. ASSUME NEW c \in AppCalls, Membership!BeginLegacyVerify(c) PROVE MembershipTypes'
  <2>1. sub[Legacy].status \in RowStatuses
        BY <1>t DEF Membership!Rows, RowRecordOf
  <2>2. [Membership!Idle EXCEPT !.kind = "legacy", !.row = Legacy, !.seen = sub[Legacy].status] \in CallRecord
        BY <2>1, <1>i DEF CallRecord, Membership!Rows
  <2>3. CallOK'
        BY <1>12, <2>1, <2>2, <1>t DEF Membership!BeginLegacyVerify, Membership!Idle
  <2>4. QED BY <1>12, <2>3, <1>t, <1>q, <1>m DEF Membership!BeginLegacyVerify
<1>13. ASSUME NEW c \in AppCalls, Membership!EndLegacyVerify(c) PROVE MembershipTypes'
  <2>1. call[c].seen \in RowStatuses
        BY <1>13, <1>t DEF Membership!EndLegacyVerify, Membership!Running
  <2>2. SubOK'
        BY <1>13, <2>1, <1>t DEF Membership!EndLegacyVerify, RowRecordOf, RowStatuses, Membership!Rows
  <2>3. QED BY <1>13, <2>2, <1>t, <1>q, <1>d DEF Membership!EndLegacyVerify
<1>14. ASSUME NEW c \in AppCalls, NEW kind \in {"fetch", "cancel"}, Membership!ToRow(c, kind, Legacy) PROVE CallOK'
  <2>1. [Membership!Idle EXCEPT !.kind = kind, !.row = Legacy] \in CallRecord
        BY <1>i DEF CallRecord, Membership!Rows
  <2>2. QED BY <1>14, <2>1, <1>t DEF Membership!ToRow, Membership!Idle
<1>15. ASSUME NEW c \in AppCalls, Membership!BeginRestore(c) PROVE MembershipTypes'
      BY <1>15, <1>14, <1>t, <1>q, <1>m DEF Membership!BeginRestore
<1>16. ASSUME NEW c \in AppCalls, Membership!BeginCancel(c) PROVE MembershipTypes'
      BY <1>16, <1>14, <1>t, <1>q, <1>m DEF Membership!BeginCancel
<1>17. ASSUME NEW c \in AppCalls, NEW kind \in {"apply", "cancelApply"}, call' = [call EXCEPT ![c].kind = kind, ![c].snap = provider]
       PROVE  CallOK'
  <2> DEFINE next == [call[c] EXCEPT !.kind = kind, !.snap = provider]
  <2>1. next \in CallRecord /\ next.kind = kind
        BY <1>t, ZenonT(60) DEF CallRecord
  <2>2. call' = [call EXCEPT ![c] = next]
        BY <1>17, <1>t
  <2> HIDE DEF next
  <2>3. QED BY <2>1, <2>2, <1>t
<1>18. ASSUME NEW c \in AppCalls, Membership!Fetch(c) PROVE MembershipTypes'
      BY <1>18, <1>17, <1>t, <1>q DEF Membership!Fetch
<1>19. ASSUME NEW c \in AppCalls, Membership!AskCancel(c) PROVE MembershipTypes'
      BY <1>19, <1>17, <1>t, <1>q DEF Membership!AskCancel
<1>20. ASSUME NEW c \in AppCalls, Membership!Apply(c) PROVE MembershipTypes'
      BY <1>20, <1>l, <1>d, <1>s, <1>t, <1>q DEF Membership!Apply
<1>21. ASSUME NEW c \in AppCalls, Membership!ApplyCancel(c) PROVE MembershipTypes'
  <2>1. CallOK'
        BY <1>21, <1>t DEF Membership!ApplyCancel, CallRecord
  <2>2. QED BY <1>21, <2>1, <1>l, <1>s, <1>t, <1>q DEF Membership!ApplyCancel
<1>22. ASSUME NEW c \in AppCalls, Membership!MarkCancelled(c) PROVE MembershipTypes'
  <2>1. call[c].snap.end \in BOOLEAN
        BY <1>s DEF Membership!Snapshots
  <2>2. SubOK' /\ RowsOK'
        BY <1>22, <2>1, <1>t DEF Membership!MarkCancelled, RowRecordOf, Membership!Rows
  <2>3. QED BY <1>22, <2>2, <1>d, <1>t, <1>q DEF Membership!MarkCancelled
<1>23. ASSUME NEW c \in AppCalls, Membership!CallFails(c) PROVE MembershipTypes'
  <2>1. PaymentOK'
        BY <1>23, <1>t DEF Membership!CallFails
  <2>2. QED BY <1>23, <2>1, <1>d, <1>f, <1>t, <1>q DEF Membership!CallFails
<1>24. ASSUME NEW w \in Deliveries, NEW e \in Membership!Events, Membership!Deliver(w, e) PROVE MembershipTypes'
  <2>1. [Membership!Resting EXCEPT !.at = "find", !.event = e] \in DeliveryRecord /\ [Membership!Resting EXCEPT !.at = "known", !.event = e] \in DeliveryRecord
        BY <1>i DEF DeliveryRecord
  <2>2. WorkerOK' /\ EventsOK'
        BY <1>24, <2>1, <1>t DEF Membership!Deliver
  <2>3. QED BY <1>24, <2>2, <1>m, <1>t, <1>q DEF Membership!Deliver
<1>e. \A w \in Deliveries : worker[w].at # "rest" => worker[w].event \in Membership!Events
      BY DEF DeliveriesInv
<1>a. ASSUME NEW w \in Deliveries, Membership!Answer(w), worker[w].at # "rest" PROVE ackedEvents' \subseteq Membership!Events /\ WorkerOK'
      BY <1>a, <1>e, <1>r, <1>t DEF Membership!Answer, Membership!Rest
<1>25. ASSUME NEW w \in Deliveries, Membership!Known(w) PROVE MembershipTypes'
      BY <1>25, <1>a, <1>g, <1>t, <1>q DEF Membership!Known, Membership!At
<1>26. ASSUME NEW w \in Deliveries, Membership!Reclaim(w) PROVE MembershipTypes'
      BY <1>26, <1>a, <1>g, <1>t, <1>q DEF Membership!Reclaim, Membership!At
<1>27. ASSUME NEW w \in Deliveries, Membership!Ignore(w) PROVE MembershipTypes'
      BY <1>27, <1>a, <1>t, <1>q DEF Membership!Ignore, Membership!At
<1>28. ASSUME NEW w \in Deliveries, Membership!FetchForEvent(w) PROVE MembershipTypes'
  <2>1. WorkerOK'
        BY <1>28, <1>t, ZenonT(60) DEF Membership!FetchForEvent, DeliveryRecord
  <2>2. QED BY <1>28, <2>1, <1>t, <1>q DEF Membership!FetchForEvent
<1>29. ASSUME NEW w \in Deliveries, Membership!ApplyEvent(w) PROVE MembershipTypes'
      BY <1>29, <1>l, <1>w, <1>g, <1>t, <1>q DEF Membership!ApplyEvent
<1>30. ASSUME NEW w \in Deliveries, Membership!FinishEvent(w) PROVE MembershipTypes'
      BY <1>30, <1>g, <1>t, <1>q DEF Membership!FinishEvent
<1>31. ASSUME NEW w \in Deliveries, Membership!Tell(w) PROVE MembershipTypes'
      BY <1>31, <1>a, <1>t, <1>q DEF Membership!Tell, Membership!At
<1>32. ASSUME NEW w \in Deliveries, Membership!StepFails(w) PROVE MembershipTypes'
      BY <1>32, <1>g, <1>f, <1>t, <1>q DEF Membership!StepFails
<1>33. ASSUME NEW w \in Deliveries, Membership!MarkFailed(w) PROVE MembershipTypes'
      BY <1>33, <1>r, <1>t, <1>q DEF Membership!MarkFailed, Membership!Rest
<1>34. ASSUME Membership!Restart PROVE MembershipTypes'
  <2>1. CallOK' /\ WorkerOK'
        BY <1>34, <1>i DEF Membership!Restart
  <2>2. QED BY <1>34, <2>1, <1>f, <1>t, <1>q DEF Membership!Restart
<1>35. ASSUME UNCHANGED membershipVars PROVE MembershipTypes'
      BY <1>35, <1>t, <1>q DEF membershipVars
<1>36. QED BY <1>1, <1>2, <1>3, <1>4, <1>5, <1>6, <1>7, <1>8, <1>9, <1>10, <1>11, <1>12, <1>13, <1>15, <1>16, <1>18, <1>19,
               <1>20, <1>21, <1>22, <1>23, <1>24, <1>25, <1>26, <1>27, <1>28, <1>29, <1>30, <1>31, <1>32, <1>33, <1>34, <1>35 DEF Membership!Next

LEMMA MembershipStep ==
    ASSUME MembershipInv, [Membership!Next]_membershipVars
    PROVE  MembershipInv'
    BY PaidStep, WorkedStep, MembershipTypesStep DEF MembershipInv, PaidInv, WorkedInv

-------------------------------------------------------------------------------
\* The components in one.

allVars == <<part, vars, catalogueVars, settingsVars, membershipVars>>

\* A step is a step of the part that acts, and the part stays the same.
LEMMA PartSteps ==
    ASSUME [StorefrontNext]_allVars
    PROVE  /\ UNCHANGED part
           /\ part = "catalogue" => [Catalogue!Next]_catalogueVars
           /\ part = "settings" => [Cache!Next]_settingsVars
           /\ part = "memberships" => [Membership!Next]_membershipVars
    BY DEF StorefrontNext, allVars

\* The caches of the catalogue and of the settings keep their invariants.
CachesInv ==
    /\ part = "catalogue" => CatalogueInv
    /\ part = "settings" => SettingsInv

\* What an editor or an admin was told is done is in every answer asked for afterwards,
\* of the public catalogue and of the settings, for every number of them and of readers
\* (cachedPublic, overrides).
THEOREM AcknowledgedAlwaysSeen == StorefrontSpec => []AcknowledgedIsSeen
<1>1. StorefrontInit => CachesInv
      BY CatalogueInit, SettingsInit DEF StorefrontInit, CachesInv
<1>2. ASSUME CachesInv, [StorefrontNext]_allVars PROVE CachesInv'
  <2>1. part' = part
        BY <1>2, PartSteps
  <2>2. part = "catalogue" => CatalogueInv'
        BY <1>2, PartSteps, CatalogueStep DEF CachesInv
  <2>3. part = "settings" => SettingsInv'
        BY <1>2, PartSteps, SettingsStep DEF CachesInv
  <2>4. QED BY <2>1, <2>2, <2>3 DEF CachesInv
<1>3. CachesInv => AcknowledgedIsSeen
      BY DEF CachesInv, CatalogueInv, SettingsInv, AcknowledgedIsSeen
<1>4. QED BY <1>1, <1>2, <1>3, PTL DEF StorefrontSpec, allVars

\* An order is a membership for exactly one payment, and no two deliveries work on one
\* event, however calls, deliveries, failures and restarts interleave
\* (verifyMembershipOrder, webhook).
THEOREM PaidAndDeliveredAlwaysOnce == StorefrontSpec => []PaidAndDeliveredOnce
<1> DEFINE Inv == part = "memberships" => MembershipInv
<1>1. StorefrontInit => Inv
      BY MembershipInit DEF StorefrontInit
<1>2. ASSUME Inv, [StorefrontNext]_allVars PROVE Inv'
  <2>1. part' = part
        BY <1>2, PartSteps
  <2>2. part = "memberships" => MembershipInv'
        BY <1>2, PartSteps, MembershipStep
  <2>3. QED BY <2>1, <2>2
<1>3. Inv => PaidAndDeliveredOnce
      BY DEF MembershipInv, PaidAndDeliveredOnce
<1>4. QED BY <1>1, <1>2, <1>3, PTL DEF StorefrontSpec, allVars

\* What holds of submissions for themselves holds beside the other components.
LEMMA SubmissionsAlone == StorefrontSpec => Spec
<1>1. StorefrontInit => Init
      BY DEF StorefrontInit
<1>2. [StorefrontNext]_allVars => [Next]_vars
      BY DEF StorefrontNext, allVars
<1>3. QED BY <1>1, <1>2, PTL DEF StorefrontSpec, Spec, allVars

\* The limits and the quotes of offers, beside the other components.
THEOREM LimitsAlwaysHold == StorefrontSpec => []LimitsHold
<1>1. WithinDailyLimit /\ WithinRewardCap => LimitsHold
      BY DEF LimitsHold
<1>2. QED BY <1>1, SubmissionsAlone, LimitsKept, PTL

-------------------------------------------------------------------------------
\* The types of the catalogue.

\* An order of the keys of a set: of any two one is the older, and it is older than what is newer.
Ordered(S, R) ==
    /\ R \subseteq S \X S
    /\ \A j, k \in S : <<j, k>> \in R <=> j # k /\ <<k, j>> \notin R
    /\ \A j, k, q \in S : <<j, k>> \in R /\ <<k, q>> \in R => <<j, q>> \in R

\* Whatever keys are dropped, the rest stays in order, and so it does with a new one behind.
LEMMA OrderOfLess ==
    ASSUME NEW S, NEW T \in SUBSET S, NEW R, Ordered(S, R)
    PROVE  Ordered(T, R \cap (T \X T))
    BY DEF Ordered

LEMMA OrderOfMore ==
    ASSUME NEW S, NEW R, Ordered(S, R), NEW k, k \notin S
    PROVE  Ordered(S \cup {k}, R \cup (S \X {k}))
<1> DEFINE M == S \cup {k}
           Q == R \cup (S \X {k})
<1>1. \A i, j \in S : <<i, j>> \in Q <=> <<i, j>> \in R
      OBVIOUS
<1>2. \A i \in M : <<i, k>> \in Q <=> i \in S
      BY DEF Ordered
<1>3. \A i \in M : <<k, i>> \notin Q
      BY DEF Ordered
<1>4. Q \subseteq M \X M
      BY DEF Ordered
<1> HIDE DEF Q
<1>5. \A i, j \in M : <<i, j>> \in Q <=> i # j /\ <<j, i>> \notin Q
      BY <1>1, <1>2, <1>3 DEF Ordered
<1>6. \A i, j, q \in M : <<i, j>> \in Q /\ <<j, q>> \in Q => <<i, q>> \in Q
      BY <1>1, <1>2, <1>3 DEF Ordered
<1>7. QED BY <1>4, <1>5, <1>6 DEF Ordered

SlugRecord == [exists : BOOLEAN, deleted : BOOLEAN, published : BOOLEAN, slug : Catalogue!Slugs \cup {Catalogue!Freed}]

\* Slugs stay within their numbers, in rows and in what an editor is about to write.
SlugsInv ==
    /\ row \in [Catalogue!Rows -> SlugRecord]
    /\ \A d \in Editors : editor[d].slug \in Catalogue!Slugs \cup {Catalogue!Freed}
    /\ page \in [Categories -> {"none", "draft", "published"}]
    /\ upsets \in 0..MaxUpsets

\* An entry is a promise or a value, and the entries that are there are in order.
PlacesInv ==
    /\ \A k \in Keys : Catalogue!Has(k) => (cache[k].by = Nobody <=> cache[k].value # Catalogue!Unloaded)
    /\ Ordered(Catalogue!Present, older)

\* Whoever asks, asks for one of the keys.
KeysInv == \A r \in Readers : reader[r].does # "idle" => reader[r].key \in Keys

\* Every generation is an edit's whose editor has been answered.
Writers == {d \in Editors : editor[d].does = "written"}
GenerationInv == generation + Cardinality(Writers) <= edits

CatalogueTypes == CatalogueInv /\ SlugsInv /\ KeysInv /\ PlacesInv /\ GenerationInv

LEMMA CatalogueTyped == CatalogueTypes => Catalogue!TypeOK
<1> SUFFICES ASSUME CatalogueTypes PROVE Catalogue!TypeOK
    OBVIOUS
<1> USE CatalogueBounds
<1>1. EditTypes /\ EntriesInv /\ ReadersInv /\ SlugsInv /\ PlacesInv /\ GenerationInv
      BY DEF CatalogueTypes, CatalogueInv
<1>2. generation \in 0..MaxEdits
  <2>1. IsFiniteSet(Writers)
        BY FS_Subset DEF Writers
  <2>2. Cardinality(Writers) \in Nat
        BY <2>1, FS_CardinalityType
  <2>3. generation \in Nat /\ edits \in 0..MaxEdits /\ generation + Cardinality(Writers) <= edits
        BY <1>1 DEF EditTypes, GenerationInv
  <2>4. QED BY <2>2, <2>3
<1>3. cache \in [Keys -> [gen : 0..generation, value : 0..Catalogue!Unloaded, fresh : BOOLEAN, by : Readers \cup {Nobody}]]
  <2>1. ASSUME NEW k \in Keys PROVE cache[k].gen \in 0..generation
    <3>1. CASE cache[k] # Catalogue!NoEntry
          BY <3>1, <1>1, <1>2 DEF EntriesInv
    <3>2. CASE cache[k] = Catalogue!NoEntry
          BY <3>2, <1>2 DEF Catalogue!NoEntry
    <3>3. QED BY <3>1, <3>2
  <2>2. QED BY <2>1, <1>1 DEF EditTypes, EntryRecord
<1>4. row \in [Catalogue!Rows -> [exists : BOOLEAN, deleted : BOOLEAN, published : BOOLEAN, slug : Catalogue!Slugs \cup {Catalogue!Freed}]]
      BY <1>1 DEF SlugsInv, SlugRecord
<1>5. edits \in 0..MaxEdits /\ acked \in 0..edits /\ page \in [Categories -> {"none", "draft", "published"}] /\ upsets \in 0..MaxUpsets
      BY <1>1 DEF EditTypes, SlugsInv
<1>6. QED BY <1>1, <1>2, <1>3, <1>4, <1>5 DEF Catalogue!TypeOK, PlacesInv, Ordered

LEMMA SlugsStep ==
    ASSUME CatalogueInv, SlugsInv, [Catalogue!Next]_catalogueVars
    PROVE  SlugsInv'
<1> USE CatalogueBounds
<1>e. editor \in [Editors -> EditorRecord]
      BY DEF CatalogueInv, EditTypes
<1>s. /\ Catalogue!Freed = 0 /\ Catalogue!Slugs = 1..LastSlug
      /\ Catalogue!Freed' = Catalogue!Freed /\ Catalogue!Slugs' = Catalogue!Slugs /\ Catalogue!Rows' = Catalogue!Rows /\ SlugRecord' = SlugRecord
      BY DEF Catalogue!Freed, Catalogue!Slugs, Catalogue!Rows, SlugRecord
<1> DEFINE AnySlug == Catalogue!Slugs \cup {Catalogue!Freed}
\* The next record of an editor, with a slug among them.
<1>1. ASSUME NEW d \in Editors, NEW next, next.slug \in AnySlug, editor' = [editor EXCEPT ![d] = next],
             row' \in [Catalogue!Rows -> SlugRecord], page' \in [Categories -> {"none", "draft", "published"}], upsets' \in 0..MaxUpsets
      PROVE  SlugsInv'
  <2>1. \A q \in Editors : editor'[q].slug \in AnySlug
        BY <1>1, <1>e DEF SlugsInv
  <2>2. QED BY <2>1, <1>1, <1>s DEF SlugsInv
<1>f. Catalogue!Free.slug = Catalogue!Freed
      BY DEF Catalogue!Free, Catalogue!Editing
<1>t. row \in [Catalogue!Rows -> SlugRecord] /\ page \in [Categories -> {"none", "draft", "published"}] /\ upsets \in 0..MaxUpsets
      BY DEF SlugsInv
<1>2. ASSUME UNCHANGED <<row, page, editor>>, upsets' \in 0..MaxUpsets PROVE SlugsInv'
  <2>1. row' = row /\ page' = page /\ editor' = editor
        BY <1>2
  <2>2. \A d \in Editors : editor[d].slug \in AnySlug
        BY DEF SlugsInv
  <2>3. QED BY <2>1, <2>2, <1>2, <1>s, <1>t DEF SlugsInv
<1>3. ASSUME NEW r \in Readers, Catalogue!Fetch(r) \/ Catalogue!Settle(r) \/ Catalogue!SettleMissing(r) \/ Catalogue!FetchFails(r) \/ \E k \in Keys : Catalogue!Read(r, k)
      PROVE  SlugsInv'
  <2>1. UNCHANGED <<row, page, editor>>
        BY <1>3 DEF Catalogue!Fetch, Catalogue!Settle, Catalogue!SettleMissing, Catalogue!FetchFails, Catalogue!Read, Catalogue!rowVars
  <2>2. UNCHANGED upsets \/ (upsets < MaxUpsets /\ upsets' = upsets + 1)
        BY <1>3 DEF Catalogue!Fetch, Catalogue!Settle, Catalogue!SettleMissing, Catalogue!FetchFails, Catalogue!Read
  <2>3. QED BY <2>1, <2>2, <1>2, <1>t
<1>4. ASSUME NEW k \in Keys, Catalogue!Expire(k) PROVE SlugsInv'
      BY <1>4, <1>2, <1>t DEF Catalogue!Expire, Catalogue!rowVars
<1>5. ASSUME NEW d \in Editors, NEW next, next.slug \in AnySlug, Catalogue!Begins(d, next) PROVE SlugsInv'
  <2>1. editor' = [editor EXCEPT ![d] = next] /\ UNCHANGED <<row, page, upsets>>
        BY <1>5 DEF Catalogue!Begins, Catalogue!rowVars
  <2>2. QED BY <2>1, <1>1, <1>t, <1>5
<1>6. ASSUME NEW d \in Editors, NEW o \in Catalogue!Rows, NEW slug \in Asked, Catalogue!BeginCreate(d, o, slug) PROVE SlugsInv'
  <2>1. Catalogue!Editing(o, slug, "slug").slug \in AnySlug
        BY <1>s DEF Catalogue!Editing
  <2>2. QED BY <2>1, <1>5, <1>6 DEF Catalogue!BeginCreate
<1>7. ASSUME NEW d \in Editors, NEW o \in Catalogue!Rows, NEW slug \in Asked \cup {Catalogue!Freed}, Catalogue!BeginUpdate(d, o, slug) PROVE SlugsInv'
  <2> DEFINE asked == IF slug = Catalogue!Freed THEN row[o].slug ELSE slug
  <2>1. asked \in AnySlug
        BY <1>s, <1>t DEF SlugRecord
  <2>2. Catalogue!Begins(d, Catalogue!Editing(o, asked, "slug"))
        BY <1>7 DEF Catalogue!BeginUpdate
  <2> HIDE DEF asked
  <2>3. Catalogue!Editing(o, asked, "slug").slug \in AnySlug
        BY <2>1 DEF Catalogue!Editing
  <2>4. QED BY <2>2, <2>3, <1>5
<1>8. ASSUME NEW d \in Editors, NEW o \in Catalogue!Rows, Catalogue!BeginDelete(d, o) \/ Catalogue!BeginPage(d, o) PROVE SlugsInv'
  <2>1. \A what : Catalogue!Editing(o, Catalogue!Freed, what).slug \in AnySlug
        BY DEF Catalogue!Editing
  <2>2. QED BY <2>1, <1>5, <1>8 DEF Catalogue!BeginDelete, Catalogue!BeginPage
<1>9. ASSUME NEW d \in Editors, Catalogue!TrySlug(d) PROVE SlugsInv'
  <2>1. UNCHANGED <<row, page, upsets>> /\ editor[d].slug \in AnySlug
        BY <1>9 DEF Catalogue!TrySlug, Catalogue!rowVars, SlugsInv
  <2>2. CASE editor[d].slug < LastSlug /\ editor' = [editor EXCEPT ![d].slug = editor[d].slug + 1]
    <3> DEFINE next == [editor[d] EXCEPT !.slug = editor[d].slug + 1]
    <3>1. next.slug \in AnySlug
      <4>1. next.slug = editor[d].slug + 1
            BY <1>e DEF EditorRecord
      <4>2. QED BY <4>1, <2>1, <2>2, <1>s
    <3>2. editor' = [editor EXCEPT ![d] = next]
          BY <2>2, <1>e
    <3> HIDE DEF next
    <3>3. QED BY <3>1, <3>2, <2>1, <1>1, <1>t
  <2>3. CASE editor' = [editor EXCEPT ![d].does = "write"]
    <3> DEFINE next == [editor[d] EXCEPT !.does = "write"]
    <3>1. next.slug \in AnySlug
          BY <1>e, <2>1 DEF EditorRecord
    <3>2. editor' = [editor EXCEPT ![d] = next]
          BY <2>3, <1>e
    <3> HIDE DEF next
    <3>3. QED BY <3>1, <3>2, <2>1, <1>1, <1>t
  <2>4. QED BY <2>2, <2>3, <1>9 DEF Catalogue!TrySlug
<1>w. ASSUME NEW d \in Editors, Catalogue!Written(d) \/ Catalogue!EndEdit(d),
             row' \in [Catalogue!Rows -> SlugRecord], page' \in [Categories -> {"none", "draft", "published"}], upsets' \in 0..MaxUpsets
      PROVE  SlugsInv'
  <2>1. CASE Catalogue!EndEdit(d)
        BY <2>1, <1>w, <1>1, <1>f DEF Catalogue!EndEdit
  <2>2. CASE Catalogue!Written(d)
    <3> DEFINE next == [Catalogue!Free EXCEPT !.does = "written", !.edit = edits + 1]
    <3>1. next.slug \in AnySlug
          BY <1>f DEF Catalogue!Free, Catalogue!Editing
    <3>2. editor' = [editor EXCEPT ![d] = next]
          BY <2>2 DEF Catalogue!Written
    <3> HIDE DEF next
    <3>3. QED BY <3>1, <3>2, <1>w, <1>1
  <2>3. QED BY <2>1, <2>2, <1>w
<1>10. ASSUME NEW d \in Editors, Catalogue!Write(d) PROVE SlugsInv'
  <2>1. CASE UNCHANGED Catalogue!rowVars /\ Catalogue!EndEdit(d)
        BY <2>1, <1>10, <1>w, <1>t DEF Catalogue!Write, Catalogue!rowVars
  <2>2. CASE edits < MaxEdits /\ edits' = edits + 1 /\ Catalogue!Written(d) /\ UNCHANGED page
    <3> DEFINE o == editor[d].row
    <3>1. PICK shown \in BOOLEAN : row' = [row EXCEPT ![o] =
              [exists |-> TRUE, deleted |-> row[o].deleted, published |-> shown, slug |-> editor[d].slug]]
      <4>1. edits' # edits
            BY <2>2 DEF CatalogueInv, EditTypes
      <4>2. QED BY <4>1, <2>2, <1>10 DEF Catalogue!Write, Catalogue!rowVars
    <3>2. row' \in [Catalogue!Rows -> SlugRecord]
      <4>1. CASE o \in Catalogue!Rows
        <5>1. row[o].deleted \in BOOLEAN /\ editor[d].slug \in AnySlug
              BY <4>1, <1>t DEF SlugRecord, SlugsInv
        <5>2. [exists |-> TRUE, deleted |-> row[o].deleted, published |-> shown, slug |-> editor[d].slug] \in SlugRecord
              BY <5>1 DEF SlugRecord
        <5>3. QED BY <3>1, <5>2, <1>t
      <4>2. CASE o \notin Catalogue!Rows
            BY <3>1, <4>2, <1>t
      <4>3. QED BY <4>1, <4>2
    <3>3. QED BY <3>2, <2>2, <1>10, <1>w, <1>t DEF Catalogue!Write
  <2>3. QED BY <2>1, <2>2, <1>10 DEF Catalogue!Write
<1>11. ASSUME NEW d \in Editors, Catalogue!Erase(d) PROVE SlugsInv'
  <2> DEFINE o == editor[d].row
  <2>1. row' = [row EXCEPT ![o] = [row[o] EXCEPT !.deleted = TRUE, !.slug = Catalogue!Freed]]
    <3>1. row' = [row EXCEPT ![o].deleted = TRUE, ![o].slug = Catalogue!Freed]
          BY <1>11 DEF Catalogue!Erase
    <3>2. QED BY <3>1, <1>t
  <2>2. row' \in [Catalogue!Rows -> SlugRecord]
    <3>1. CASE o \in Catalogue!Rows
      <4>1. [row[o] EXCEPT !.deleted = TRUE, !.slug = Catalogue!Freed] \in SlugRecord
            BY <3>1, <1>t DEF SlugRecord
      <4>2. QED BY <2>1, <4>1, <1>t
    <3>2. CASE o \notin Catalogue!Rows
          BY <2>1, <3>2, <1>t
    <3>3. QED BY <3>1, <3>2
  <2>3. Catalogue!Written(d) /\ UNCHANGED <<page, upsets>>
        BY <1>11 DEF Catalogue!Erase
  <2>4. QED BY <2>2, <2>3, <1>w, <1>t
<1>12. ASSUME NEW d \in Editors, Catalogue!WritePage(d) PROVE SlugsInv'
  <2>1. PICK state \in {"draft", "published"} : page' = [page EXCEPT ![editor[d].row] = state]
        BY <1>12 DEF Catalogue!WritePage
  <2>2. page' \in [Categories -> {"none", "draft", "published"}]
        BY <2>1, <1>t
  <2>3. Catalogue!Written(d) /\ UNCHANGED <<row, upsets>>
        BY <1>12 DEF Catalogue!WritePage
  <2>4. QED BY <2>2, <2>3, <1>w, <1>t
<1>13. ASSUME NEW d \in Editors, Catalogue!Acknowledge(d) \/ Catalogue!LoseReply(d) PROVE SlugsInv'
  <2>1. Catalogue!EndEdit(d) /\ UNCHANGED <<row, page>> /\ upsets' \in 0..MaxUpsets
        BY <1>13, <1>t DEF Catalogue!Acknowledge, Catalogue!LoseReply, Catalogue!rowVars
  <2>2. QED BY <2>1, <1>w, <1>t
<1>14. ASSUME Catalogue!Restart PROVE SlugsInv'
  <2>1. upsets' \in 0..MaxUpsets /\ UNCHANGED <<row, page>> /\ editor' = [d \in Editors |-> Catalogue!Free]
        BY <1>14, <1>t DEF Catalogue!Restart, Catalogue!rowVars
  <2>2. QED BY <2>1, <1>f, <1>t, <1>s DEF SlugsInv
<1>15. ASSUME UNCHANGED catalogueVars PROVE SlugsInv'
       BY <1>15, <1>2, <1>t DEF catalogueVars
<1>16. QED BY <1>3, <1>4, <1>6, <1>7, <1>8, <1>9, <1>10, <1>11, <1>12, <1>13, <1>14, <1>15 DEF Catalogue!Next, Catalogue!Rows

LEMMA KeysStep ==
    ASSUME CatalogueInv, KeysInv, [Catalogue!Next]_catalogueVars
    PROVE  KeysInv'
<1>r. reader \in [Readers -> ReaderRecord]
      BY DEF CatalogueInv, EditTypes
<1>i. Catalogue!Resting.does = "idle"
      BY Records
<1>1. ASSUME UNCHANGED reader PROVE KeysInv'
      BY <1>1 DEF KeysInv
<1>2. ASSUME NEW r \in Readers, NEW next, reader' = [reader EXCEPT ![r] = next], next.key \in Keys PROVE KeysInv'
      BY <1>2, <1>r DEF KeysInv
<1>3. ASSUME NEW r \in Readers, Catalogue!Leave(r) PROVE KeysInv'
      BY <1>3, <1>i DEF KeysInv, Catalogue!Leave
<1>4. ASSUME NEW r \in Readers, NEW k \in Keys, Catalogue!Read(r, k) PROVE KeysInv'
  <2> DEFINE asks == [Catalogue!Resting EXCEPT !.key = k, !.gen = generation, !.since = acked]
  <2>1. [asks EXCEPT !.does = "join", !.leader = cache[k].by].key = k /\ [asks EXCEPT !.does = "load"].key = k
        BY DEF Catalogue!Resting
  <2> HIDE DEF asks
  <2>2. CASE UNCHANGED reader
        BY <2>2, <1>1
  <2>3. CASE reader' = [reader EXCEPT ![r] = [asks EXCEPT !.does = "join", !.leader = cache[k].by]]
        BY <2>1, <2>3, <1>2
  <2>4. CASE reader' = [reader EXCEPT ![r] = [asks EXCEPT !.does = "load"]]
        BY <2>1, <2>4, <1>2
  <2>5. QED BY <2>2, <2>3, <2>4, <1>4 DEF Catalogue!Read, asks
<1>5. ASSUME NEW r \in Readers, Catalogue!Fetch(r) PROVE KeysInv'
  <2> DEFINE what == IF Catalogue!IsShown(reader[r].key) THEN "loaded" ELSE "missing"
             next == [reader[r] EXCEPT !.does = what, !.seen = edits]
  <2>1. reader' = [reader EXCEPT ![r] = next] /\ reader[r].does = "load"
        BY <1>5, <1>r DEF Catalogue!Fetch
  <2> HIDE DEF what
  <2>2. next.key = reader[r].key
        BY <1>r DEF ReaderRecord
  <2> HIDE DEF next
  <2>3. QED BY <2>1, <2>2, <1>2 DEF KeysInv
<1>6. ASSUME NEW r \in Readers, Catalogue!Settle(r) \/ Catalogue!SettleMissing(r) \/ Catalogue!FetchFails(r) PROVE KeysInv'
      BY <1>6, <1>3 DEF Catalogue!Settle, Catalogue!SettleMissing, Catalogue!FetchFails, Catalogue!Answer
<1>7. ASSUME NEW k \in Keys, Catalogue!Expire(k) PROVE KeysInv'
      BY <1>7, <1>1 DEF Catalogue!Expire
<1>8. ASSUME NEW d \in Editors, NEW next, Catalogue!Begins(d, next) PROVE KeysInv'
      BY <1>8, <1>1 DEF Catalogue!Begins
<1>9. ASSUME NEW d \in Editors, NEW o \in Catalogue!Rows,
              \/ \E slug \in Asked : Catalogue!BeginCreate(d, o, slug)
              \/ \E slug \in Asked \cup {Catalogue!Freed} : Catalogue!BeginUpdate(d, o, slug)
              \/ Catalogue!BeginDelete(d, o) \/ Catalogue!BeginPage(d, o)
      PROVE  KeysInv'
      BY <1>8, <1>9 DEF Catalogue!BeginCreate, Catalogue!BeginUpdate, Catalogue!BeginDelete, Catalogue!BeginPage
<1>10. ASSUME NEW d \in Editors,
              \/ Catalogue!TrySlug(d) \/ Catalogue!Write(d) \/ Catalogue!Erase(d) \/ Catalogue!WritePage(d)
              \/ Catalogue!LoseReply(d) \/ Catalogue!Acknowledge(d)
       PROVE  KeysInv'
       BY <1>10, <1>1 DEF Catalogue!TrySlug, Catalogue!Write, Catalogue!Erase, Catalogue!WritePage, Catalogue!LoseReply, Catalogue!Acknowledge
<1>11. ASSUME Catalogue!Restart PROVE KeysInv'
       BY <1>11, <1>i DEF KeysInv, Catalogue!Restart
<1>12. ASSUME UNCHANGED catalogueVars PROVE KeysInv'
       BY <1>12, <1>1 DEF catalogueVars
<1>13. QED BY <1>4, <1>5, <1>6, <1>7, <1>9, <1>10, <1>11, <1>12 DEF Catalogue!Next, Catalogue!Rows

LEMMA PlacesStep ==
    ASSUME CatalogueInv, KeysInv, PlacesInv, [Catalogue!Next]_catalogueVars
    PROVE  PlacesInv'
<1> USE CatalogueBounds
<1> DEFINE P == Catalogue!Present
           E == {k \in Keys : cache'[k] # Catalogue!NoEntry}
<1>t. EditTypes /\ EntriesInv /\ Ordered(P, older) /\ cache \in [Keys -> EntryRecord] /\ reader \in [Readers -> ReaderRecord]
      BY DEF CatalogueInv, EditTypes, PlacesInv
<1>s. Catalogue!Unloaded' = Catalogue!Unloaded /\ Catalogue!NoEntry' = Catalogue!NoEntry
      BY DEF Catalogue!Unloaded, Catalogue!NoEntry
<1>p. E = Catalogue!Present' /\ P = {k \in Keys : cache[k] # Catalogue!NoEntry}
      BY <1>s DEF Catalogue!Present, Catalogue!Has
<1>v. \A k \in P : cache[k].by = Nobody <=> cache[k].value # Catalogue!Unloaded
      BY <1>p DEF PlacesInv, Catalogue!Has
<1>q. ASSUME \A k \in E : cache'[k].by = Nobody <=> cache'[k].value # Catalogue!Unloaded, Ordered(E, older')
      PROVE  PlacesInv'
  <2>1. \A k \in Keys : Catalogue!Has(k)' => (cache'[k].by = Nobody <=> cache'[k].value # Catalogue!Unloaded')
        BY <1>q, <1>s DEF Catalogue!Has
  <2>2. Ordered(Catalogue!Present', older')
        BY <1>q, <1>p
  <2>3. QED BY <2>1, <2>2 DEF PlacesInv, Ordered
\* Nothing is inserted or dropped.
<1>1. ASSUME UNCHANGED older, \A k \in Keys : Catalogue!Has(k) <=> cache'[k] # Catalogue!NoEntry,
             \A k \in Keys : cache'[k].by = cache[k].by /\ cache'[k].value = cache[k].value
      PROVE  PlacesInv'
  <2>1. E = P
        BY <1>1, <1>p DEF Catalogue!Has
  <2>2. QED BY <2>1, <1>1, <1>v, <1>t, <1>q
<1>2. ASSUME UNCHANGED <<cache, older>> PROVE PlacesInv'
      BY <1>1, <1>2 DEF Catalogue!Has
<1>3. ASSUME NEW kept \in SUBSET P, NEW k \in Keys, NEW entry, Catalogue!Insert(kept, k, entry),
             entry # Catalogue!NoEntry, entry.by = Nobody <=> entry.value # Catalogue!Unloaded
      PROVE  PlacesInv'
  <2>1. cache' = [q \in Keys |-> IF q = k THEN entry ELSE IF q \in kept THEN cache[q] ELSE Catalogue!NoEntry]
        BY <1>3 DEF Catalogue!Insert
  <2>2. E = kept \cup {k}
        BY <2>1, <1>3, <1>p
  <2>3. \A q \in E : cache'[q].by = Nobody <=> cache'[q].value # Catalogue!Unloaded
        BY <2>1, <2>2, <1>3, <1>v
  <2>4. Ordered(kept, older \cap (kept \X kept))
        BY <1>3, <1>t, OrderOfLess
  <2>5. CASE k \in kept
    <3>1. older' = older \cap (kept \X kept) /\ E = kept
          BY <2>2, <2>5, <1>3 DEF Catalogue!Insert
    <3>2. QED BY <3>1, <2>3, <2>4, <1>q
  <2>6. CASE k \notin kept
    <3>1. older' = (older \cap (kept \X kept)) \cup (kept \X {k})
          BY <2>6, <1>3 DEF Catalogue!Insert
    <3>2. Ordered(kept \cup {k}, (older \cap (kept \X kept)) \cup (kept \X {k}))
          BY <2>4, <2>6, OrderOfMore
    <3>3. Ordered(E, older')
          BY <3>1, <3>2, <2>2
    <3>4. QED BY <3>3, <2>3, <1>q
  <2>7. QED BY <2>5, <2>6
<1>4. ASSUME NEW k \in Keys, Catalogue!Drop(k) PROVE PlacesInv'
  <2>1. cache' = [cache EXCEPT ![k] = Catalogue!NoEntry] /\ older' = {p \in older : k \notin {p[1], p[2]}}
        BY <1>4 DEF Catalogue!Drop
  <2>2. E = P \ {k}
        BY <2>1, <1>t, <1>p
  <2>3. \A q \in E : cache'[q] = cache[q]
        BY <2>1, <2>2, <1>t
  <2>4. older' = older \cap (E \X E)
        BY <2>1, <2>2, <1>t DEF Ordered
  <2>5. Ordered(E, older')
        BY <2>2, <2>4, <1>t, OrderOfLess
  <2>6. QED BY <2>2, <2>3, <2>5, <1>v, <1>q
<1>5. ASSUME Catalogue!Emptied PROVE PlacesInv'
  <2>1. E = {} /\ older' = {}
        BY <1>5 DEF Catalogue!Emptied
  <2>2. QED BY <2>1, <1>q DEF Ordered
<1>6. ASSUME NEW r \in Readers, NEW k \in Keys, Catalogue!Read(r, k) PROVE PlacesInv'
  <2>1. CASE UNCHANGED <<cache, older>>
        BY <2>1, <1>2
  <2>2. CASE Catalogue!Insert(P, k, Catalogue!Promise(r))
    <3>1. Catalogue!Promise(r).by = r /\ Catalogue!Promise(r).value = Catalogue!Unloaded /\ r # Nobody
          BY DEF Catalogue!Promise
    <3>2. Catalogue!Promise(r) # Catalogue!NoEntry
          BY <3>1, Records
    <3>3. QED BY <3>1, <3>2, <2>2, <1>3
  <2>3. QED BY <2>1, <2>2, <1>6 DEF Catalogue!Read
<1>7. ASSUME NEW r \in Readers, Catalogue!Settle(r) PROVE PlacesInv'
  <2>1. CASE UNCHANGED <<cache, older>>
        BY <2>1, <1>2
  <2>2. CASE Catalogue!Insert(Catalogue!Pruned, reader[r].key, Catalogue!Loaded(reader[r].seen)) /\ reader[r].key \in Keys
    <3> DEFINE entry == Catalogue!Loaded(reader[r].seen)
    <3>1. entry.by = Nobody /\ entry.value = reader[r].seen /\ reader[r].seen \in 0..MaxEdits
          BY <1>t DEF Catalogue!Loaded, ReaderRecord
    <3>2. entry.value # Catalogue!Unloaded
          BY <3>1, Records
    <3>3. entry # Catalogue!NoEntry
          BY <3>2, Records
    <3>4. Catalogue!Pruned \in SUBSET P
          BY DEF Catalogue!Pruned, Catalogue!Live
    <3> HIDE DEF entry
    <3>5. Catalogue!Insert(Catalogue!Pruned, reader[r].key, entry)
          BY <2>2 DEF entry
    <3>6. QED BY <3>1, <3>2, <3>3, <3>4, <3>5, <2>2, <1>3
  <2>3. reader[r].key \in Keys
        BY <1>7, <1>t DEF Catalogue!Settle, KeysInv
  <2>4. QED BY <2>1, <2>2, <2>3, <1>7 DEF Catalogue!Settle
<1>d. ASSUME NEW r \in Readers, Catalogue!DropPromise(r), reader[r].key \in Keys PROVE PlacesInv'
  <2>1. Catalogue!Drop(reader[r].key) \/ UNCHANGED <<cache, older>>
        BY <1>d DEF Catalogue!DropPromise
  <2>2. QED BY <2>1, <1>d, <1>2, <1>4
<1>8. ASSUME NEW r \in Readers, Catalogue!SettleMissing(r) \/ Catalogue!FetchFails(r) PROVE PlacesInv'
  <2>1. Catalogue!DropPromise(r)
        BY <1>8 DEF Catalogue!SettleMissing, Catalogue!FetchFails
  <2>2. reader[r].key \in Keys
        BY <1>8, <1>t DEF KeysInv, Catalogue!SettleMissing, Catalogue!FetchFails
  <2>3. QED BY <2>1, <2>2, <1>d
<1>9. ASSUME NEW k \in Keys, Catalogue!Expire(k) PROVE PlacesInv'
  <2> DEFINE entry == [cache[k] EXCEPT !.fresh = FALSE]
  <2>1. cache' = [cache EXCEPT ![k] = entry] /\ cache[k].fresh /\ UNCHANGED older
        BY <1>9, <1>t DEF Catalogue!Expire
  <2>2. entry.by = cache[k].by /\ entry.value = cache[k].value /\ entry.gen = cache[k].gen /\ entry \in EntryRecord
        BY <1>t DEF EntryRecord
  <2>3. Catalogue!NoEntry.fresh = FALSE
        BY DEF Catalogue!NoEntry
  <2>4. Catalogue!Has(k)
        BY <2>1, <2>3 DEF Catalogue!Has
  <2>5. cache[k].gen = generation
        BY <2>4, <1>t DEF Catalogue!Has, EntriesInv
  <2>6. cache[k].by = Nobody /\ cache[k].value # Catalogue!Unloaded
        BY <2>4, <1>9 DEF Catalogue!Expire, PlacesInv
  <2>7. entry # Catalogue!NoEntry
        BY <2>2, <2>6, Records
  <2> HIDE DEF entry
  <2>8. \A q \in Keys : IF q = k THEN cache'[q] = entry ELSE cache'[q] = cache[q]
        BY <2>1, <1>t
  <2>9. QED BY <2>1, <2>2, <2>4, <2>7, <2>8, <1>1 DEF Catalogue!Has
<1>10. ASSUME NEW d \in Editors, NEW next, Catalogue!Begins(d, next) PROVE PlacesInv'
       BY <1>10, <1>2 DEF Catalogue!Begins, Catalogue!cacheVars
<1>11. ASSUME NEW d \in Editors, NEW o \in Catalogue!Rows,
              \/ \E slug \in Asked : Catalogue!BeginCreate(d, o, slug)
              \/ \E slug \in Asked \cup {Catalogue!Freed} : Catalogue!BeginUpdate(d, o, slug)
              \/ Catalogue!BeginDelete(d, o) \/ Catalogue!BeginPage(d, o)
       PROVE  PlacesInv'
       BY <1>10, <1>11 DEF Catalogue!BeginCreate, Catalogue!BeginUpdate, Catalogue!BeginDelete, Catalogue!BeginPage
<1>12. ASSUME NEW d \in Editors, Catalogue!TrySlug(d) \/ Catalogue!Write(d) \/ Catalogue!Erase(d) \/ Catalogue!WritePage(d) \/ Catalogue!LoseReply(d)
       PROVE  PlacesInv'
  <2>1. UNCHANGED <<cache, older>>
        BY <1>12 DEF Catalogue!TrySlug, Catalogue!Write, Catalogue!Erase, Catalogue!WritePage, Catalogue!LoseReply, Catalogue!cacheVars
  <2>2. QED BY <2>1, <1>2
<1>13. ASSUME NEW r \in Readers, Catalogue!Fetch(r) PROVE PlacesInv'
       BY <1>13, <1>2 DEF Catalogue!Fetch, Catalogue!cacheVars
<1>14. ASSUME NEW d \in Editors, Catalogue!Acknowledge(d) PROVE PlacesInv'
       BY <1>14, <1>5 DEF Catalogue!Acknowledge, Catalogue!Invalidated
<1>15. ASSUME Catalogue!Restart PROVE PlacesInv'
       BY <1>15, <1>5 DEF Catalogue!Restart
<1>16. ASSUME UNCHANGED catalogueVars PROVE PlacesInv'
       BY <1>16, <1>2 DEF catalogueVars
<1>17. QED BY <1>6, <1>7, <1>8, <1>9, <1>11, <1>12, <1>13, <1>14, <1>15, <1>16 DEF Catalogue!Next, Catalogue!Rows

\* An editor that has written is answered once, which begins one generation.
LEMMA GenerationStep ==
    ASSUME CatalogueInv, GenerationInv, [Catalogue!Next]_catalogueVars
    PROVE  GenerationInv'
<1> USE CatalogueBounds
<1>e. editor \in [Editors -> EditorRecord] /\ generation \in Nat /\ edits \in Nat
      BY DEF CatalogueInv, EditTypes
<1> DEFINE N == {d \in Editors : editor'[d].does = "written"}
<1>w. N = Writers' /\ IsFiniteSet(N) /\ IsFiniteSet(Writers) /\ Cardinality(N) \in Nat /\ Cardinality(Writers) \in Nat
  <2>1. N = Writers' /\ IsFiniteSet(N) /\ IsFiniteSet(Writers)
        BY FS_Subset DEF Writers
  <2>2. QED BY <2>1, FS_CardinalityType
<1>q. ASSUME generation' + Cardinality(N) <= edits' PROVE GenerationInv'
      BY <1>q, <1>w DEF GenerationInv
<1>f. Catalogue!Free.does = "idle"
      BY DEF Catalogue!Free, Catalogue!Editing
<1>1. ASSUME N = Writers, UNCHANGED <<edits, generation>> PROVE GenerationInv'
      BY <1>1, <1>q DEF GenerationInv
<1>2. ASSUME NEW d \in Editors, NEW next, editor' = [editor EXCEPT ![d] = next], editor[d].does # "written", next.does # "written",
             UNCHANGED <<edits, generation>>
      PROVE  GenerationInv'
  <2>1. N = Writers
        BY <1>2, <1>e DEF Writers
  <2>2. QED BY <2>1, <1>1, <1>2
<1>3. ASSUME NEW d \in Editors, Catalogue!Written(d), editor[d].does # "written", edits' = edits + 1, UNCHANGED generation
      PROVE  GenerationInv'
  <2> DEFINE next == [Catalogue!Free EXCEPT !.does = "written", !.edit = edits + 1]
  <2>1. next.does = "written" /\ editor' = [editor EXCEPT ![d] = next]
        BY <1>3 DEF Catalogue!Written, Catalogue!Free, Catalogue!Editing
  <2> HIDE DEF next
  <2>2. N = Writers \cup {d} /\ d \notin Writers
        BY <2>1, <1>3, <1>e DEF Writers
  <2>3. Cardinality(N) = Cardinality(Writers) + 1
        BY <2>2, <1>w, FS_AddElement
  <2>4. QED BY <2>3, <1>3, <1>w, <1>e, <1>q DEF GenerationInv
<1>4. ASSUME NEW d \in Editors, Catalogue!EndEdit(d), editor[d].does = "written", UNCHANGED edits, generation' \in {generation, generation + 1}
      PROVE  GenerationInv'
  <2>1. N = Writers \ {d} /\ d \in Writers
        BY <1>4, <1>f, <1>e DEF Writers, Catalogue!EndEdit
  <2>2. Cardinality(N) = Cardinality(Writers) - 1
        BY <2>1, <1>w, FS_RemoveElement
  <2>3. QED BY <2>2, <1>4, <1>w, <1>e, <1>q DEF GenerationInv
<1>5. ASSUME UNCHANGED <<editor, edits, generation>> PROVE GenerationInv'
      BY <1>5, <1>1 DEF Writers
<1>6. ASSUME NEW r \in Readers, Catalogue!Fetch(r) \/ Catalogue!Settle(r) \/ Catalogue!SettleMissing(r) \/ Catalogue!FetchFails(r) \/ \E k \in Keys : Catalogue!Read(r, k)
      PROVE  GenerationInv'
      BY <1>6, <1>5 DEF Catalogue!Fetch, Catalogue!Settle, Catalogue!SettleMissing, Catalogue!FetchFails, Catalogue!Read, Catalogue!rowVars, Catalogue!cacheVars
<1>7. ASSUME NEW k \in Keys, Catalogue!Expire(k) PROVE GenerationInv'
      BY <1>7, <1>5 DEF Catalogue!Expire, Catalogue!rowVars
<1>8. ASSUME NEW d \in Editors, NEW o, NEW slug, NEW what \in {"slug", "erase", "page"}, Catalogue!Begins(d, Catalogue!Editing(o, slug, what))
      PROVE  GenerationInv'
  <2>1. Catalogue!Editing(o, slug, what).does = what
        BY DEF Catalogue!Editing
  <2>2. QED BY <2>1, <1>8, <1>2 DEF Catalogue!Begins, Catalogue!rowVars, Catalogue!cacheVars
<1>9. ASSUME NEW d \in Editors, NEW o \in Catalogue!Rows,
              \/ \E slug \in Asked : Catalogue!BeginCreate(d, o, slug)
              \/ \E slug \in Asked \cup {Catalogue!Freed} : Catalogue!BeginUpdate(d, o, slug)
              \/ Catalogue!BeginDelete(d, o) \/ Catalogue!BeginPage(d, o)
       PROVE  GenerationInv'
       BY <1>8, <1>9 DEF Catalogue!BeginCreate, Catalogue!BeginUpdate, Catalogue!BeginDelete, Catalogue!BeginPage
<1>10. ASSUME NEW d \in Editors, Catalogue!TrySlug(d) PROVE GenerationInv'
  <2>1. UNCHANGED <<edits, generation>> /\ editor[d].does = "slug"
        BY <1>10 DEF Catalogue!TrySlug, Catalogue!rowVars, Catalogue!cacheVars
  <2>2. CASE editor' = [editor EXCEPT ![d].slug = editor[d].slug + 1]
    <3> DEFINE next == [editor[d] EXCEPT !.slug = editor[d].slug + 1]
    <3>1. next.does = "slug" /\ editor' = [editor EXCEPT ![d] = next]
          BY <2>1, <2>2, <1>e DEF EditorRecord
    <3> HIDE DEF next
    <3>2. QED BY <3>1, <2>1, <1>2
  <2>3. CASE editor' = [editor EXCEPT ![d].does = "write"]
    <3> DEFINE next == [editor[d] EXCEPT !.does = "write"]
    <3>1. next.does = "write" /\ editor' = [editor EXCEPT ![d] = next]
          BY <2>1, <2>3, <1>e DEF EditorRecord
    <3> HIDE DEF next
    <3>2. QED BY <3>1, <2>1, <1>2
  <2>4. QED BY <2>2, <2>3, <1>10 DEF Catalogue!TrySlug
<1>11. ASSUME NEW d \in Editors, Catalogue!Write(d) PROVE GenerationInv'
  <2>1. editor[d].does = "write" /\ UNCHANGED generation
        BY <1>11 DEF Catalogue!Write, Catalogue!cacheVars
  <2>2. CASE Catalogue!EndEdit(d) /\ UNCHANGED Catalogue!rowVars
        BY <2>1, <2>2, <1>f, <1>2 DEF Catalogue!EndEdit, Catalogue!rowVars
  <2>3. CASE Catalogue!Written(d) /\ edits' = edits + 1
        BY <2>1, <2>3, <1>3
  <2>4. QED BY <2>2, <2>3, <1>11 DEF Catalogue!Write
<1>12. ASSUME NEW d \in Editors, Catalogue!Erase(d) PROVE GenerationInv'
       BY <1>12, <1>3 DEF Catalogue!Erase, Catalogue!cacheVars
<1>13. ASSUME NEW d \in Editors, Catalogue!WritePage(d) PROVE GenerationInv'
       BY <1>13, <1>3 DEF Catalogue!WritePage, Catalogue!cacheVars
<1>14. ASSUME NEW d \in Editors, Catalogue!Acknowledge(d) PROVE GenerationInv'
       BY <1>14, <1>4 DEF Catalogue!Acknowledge, Catalogue!Invalidated, Catalogue!rowVars
<1>15. ASSUME NEW d \in Editors, Catalogue!LoseReply(d) PROVE GenerationInv'
       BY <1>15, <1>4 DEF Catalogue!LoseReply, Catalogue!rowVars, Catalogue!cacheVars
<1>16. ASSUME Catalogue!Restart PROVE GenerationInv'
  <2>1. generation' = 0 /\ edits' = edits /\ editor' = [d \in Editors |-> Catalogue!Free]
        BY <1>16 DEF Catalogue!Restart, Catalogue!rowVars
  <2>2. N = {}
        BY <2>1, <1>f
  <2>3. Cardinality(N) = 0
        BY <2>2, FS_EmptySet
  <2>4. QED BY <2>1, <2>3, <1>e, <1>q
<1>17. ASSUME UNCHANGED catalogueVars PROVE GenerationInv'
       BY <1>17, <1>5 DEF catalogueVars
<1>18. QED BY <1>6, <1>7, <1>9, <1>10, <1>11, <1>12, <1>13, <1>14, <1>15, <1>16, <1>17 DEF Catalogue!Next, Catalogue!Rows

LEMMA CatalogueTypesInit == Catalogue!Init => CatalogueTypes
<1> SUFFICES ASSUME Catalogue!Init PROVE CatalogueTypes
    OBVIOUS
<1> USE CatalogueBounds
<1>1. CatalogueInv
      BY CatalogueInit
<1>2. /\ page = [c \in Categories |-> "none"] /\ upsets = 0 /\ generation = 0 /\ edits = 0 /\ older = {}
      /\ cache = [k \in Keys |-> Catalogue!NoEntry] /\ editor = [d \in Editors |-> Catalogue!Free]
      BY DEF Catalogue!Init
<1>3. row \in [Catalogue!Rows -> SlugRecord]
  <2>1. Catalogue!Absent \in SlugRecord /\ [exists |-> TRUE, deleted |-> FALSE, published |-> TRUE, slug |-> 1] \in SlugRecord
        BY DEF Catalogue!Absent, SlugRecord, Catalogue!Freed, Catalogue!Slugs
  <2>2. QED BY <2>1 DEF Catalogue!Init
<1>4. \A d \in Editors : editor[d].slug = Catalogue!Freed /\ editor[d].does = "idle"
      BY <1>2 DEF Catalogue!Free, Catalogue!Editing
<1>5. SlugsInv
      BY <1>2, <1>3, <1>4 DEF SlugsInv
<1>6. PlacesInv
  <2>1. Catalogue!Present = {} /\ \A k \in Keys : ~Catalogue!Has(k)
        BY <1>2 DEF Catalogue!Present, Catalogue!Has
  <2>2. QED BY <2>1, <1>2 DEF PlacesInv, Ordered
<1>7. GenerationInv
  <2>1. Writers = {}
        BY <1>4 DEF Writers
  <2>2. QED BY <2>1, <1>2, FS_EmptySet DEF GenerationInv
<1>8. KeysInv
      BY Records DEF Catalogue!Init, KeysInv
<1>9. QED BY <1>1, <1>5, <1>6, <1>7, <1>8 DEF CatalogueTypes

LEMMA LeastOf ==
    ASSUME NEW T \in SUBSET Nat, T # {}
    PROVE  \E n \in T : \A m \in T : n <= m
<1> DEFINE R == OpToRel(<, Nat)
<1>1. IsWellFoundedOn(R, Nat)
      BY NatLessThanWellFounded
<1>2. \A p \in Nat \X Nat : p \in R <=> p[1] < p[2]
      BY DEF OpToRel
<1> HIDE DEF R
<1>3. PICK x \in T : \A y \in T : ~(<<y, x>> \in R)
      BY <1>1, WFMin
<1>4. ASSUME NEW y \in T PROVE x <= y
  <2>1. <<y, x>> \in Nat \X Nat /\ ~(y < x) /\ x \in Nat /\ y \in Nat
        BY <1>2, <1>3
  <2>2. QED BY <2>1
<1>5. QED BY <1>4

\* What pruning keeps is fewer than the cache may hold: of its oldest, all others are newer.
LEMMA PrunedIsSmall ==
    ASSUME Ordered(Catalogue!Present, older)
    PROVE  IsFiniteSet(Catalogue!Pruned) /\ Cardinality(Catalogue!Pruned) < CacheMax
<1> USE CacheBounds
<1> DEFINE L == Catalogue!Live
           P == Catalogue!Pruned
           N(k) == {q \in L : <<k, q>> \in older}
<1>1. L \subseteq Catalogue!Present /\ L \subseteq Keys /\ P = {k \in L : Cardinality(N(k)) + 1 < CacheMax}
  <2>1. L \subseteq Catalogue!Present /\ L \subseteq Keys
        BY DEF Catalogue!Live, Catalogue!Present
  <2>2. \A k : Catalogue!Newer(k) = N(k)
        BY DEF Catalogue!Newer
  <2>3. \A S : Catalogue!Cardinality(S) = Cardinality(S)
        BY DEF Catalogue!Cardinality, Cardinality
  <2>4. P = {k \in L : Catalogue!Cardinality(Catalogue!Newer(k)) + 1 < CacheMax}
        BY DEF Catalogue!Pruned
  <2> HIDE DEF L, P, N
  <2>5. QED BY <2>1, <2>2, <2>3, <2>4
<1>2. \A j, k \in L : <<j, k>> \in older <=> j # k /\ <<k, j>> \notin older
      BY <1>1 DEF Ordered
<1>3. \A j, k, q \in L : <<j, k>> \in older /\ <<k, q>> \in older => <<j, q>> \in older
      BY <1>1 DEF Ordered
<1> HIDE DEF L, P
<1>4. IsFiniteSet(L)
      BY <1>1, FS_Subset
<1>5. IsFiniteSet(P) /\ Cardinality(P) \in Nat /\ P \subseteq L
      BY <1>1, <1>4, FS_Subset, FS_CardinalityType
<1>6. ASSUME NEW k \in L
      PROVE  IsFiniteSet(N(k)) /\ Cardinality(N(k)) \in Nat /\ Cardinality(N(k)) <= Cardinality(L)
      BY <1>4, FS_Subset, FS_CardinalityType
<1> DEFINE size(k) == Cardinality(N(k))
           Behind == {Cardinality(L) - size(k) : k \in P}
<1>7. Cardinality(L) \in Nat
      BY <1>4, FS_CardinalityType
<1>8. \A k \in P : size(k) \in Nat /\ size(k) <= Cardinality(L) /\ size(k) + 1 < CacheMax
      BY <1>1, <1>5, <1>6
<1>9. CASE P = {}
      BY <1>5, <1>9, FS_EmptySet DEF P
<1>10. CASE P # {}
  <2>1. Behind \subseteq Nat /\ Behind # {}
    <3> HIDE DEF size
    <3>1. QED BY <1>7, <1>8, <1>10
  <2>2. PICK n \in Behind : \A m \in Behind : n <= m
        BY <2>1, LeastOf
  <2>3. PICK k \in P : n = Cardinality(L) - size(k)
        BY <2>2
  <2>4. ASSUME NEW q \in P, q # k PROVE q \in N(k)
    <3>1. SUFFICES ASSUME <<q, k>> \in older PROVE FALSE
          BY <1>2, <1>5, <2>4
    <3>2. N(k) \cup {k} \subseteq N(q) /\ k \notin N(k)
          BY <3>1, <1>2, <1>3, <1>5
    <3>3. IsFiniteSet(N(k)) /\ IsFiniteSet(N(q))
          BY <1>5, <1>6
    <3>4. Cardinality(N(k) \cup {k}) = size(k) + 1
          BY <3>2, <3>3, FS_AddElement
    <3>5. Cardinality(N(k) \cup {k}) <= size(q)
          BY <3>2, <3>3, FS_Subset
    <3> HIDE DEF size
    <3>6. n <= Cardinality(L) - size(q)
          BY <2>2
    <3>7. QED BY <3>4, <3>5, <3>6, <2>3, <1>7, <1>8
  <2>5. IsFiniteSet(N(k)) /\ P \subseteq N(k) \cup {k}
        BY <2>4, <1>5, <1>6
  <2>6. k \notin N(k)
        BY <1>2, <1>5
  <2>7. Cardinality(N(k) \cup {k}) = size(k) + 1 /\ IsFiniteSet(N(k) \cup {k})
        BY <2>5, <2>6, FS_AddElement
  <2>8. Cardinality(P) <= size(k) + 1
    <3>1. Cardinality(P) <= Cardinality(N(k) \cup {k})
          BY <2>5, <2>7, FS_Subset
    <3>2. QED BY <3>1, <2>7
  <2> HIDE DEF size
  <2>9. size(k) \in Nat /\ size(k) + 1 < CacheMax
        BY <1>8, <2>3
  <2>10. Cardinality(P) < CacheMax
        BY <2>8, <2>9, <1>5
  <2>11. QED BY <2>10, <1>5 DEF P
<1>11. QED BY <1>9, <1>10 DEF P

\* When a loaded value is stored, the cache is left within its size, though a promise may have
\* been put into it at any time without asking for room (cachedPublic, prunePublicCache).
StoredWithinSize ==
    \A r \in Readers :
        part = "catalogue" /\ Catalogue!Settle(r) /\ Catalogue!MayStore(r) => Cardinality(Catalogue!Present') <= CacheMax

LEMMA StoresWithinSize == ASSUME part = "catalogue" => CatalogueTypes PROVE StoredWithinSize
<1> SUFFICES ASSUME part = "catalogue", NEW r \in Readers, Catalogue!Settle(r), Catalogue!MayStore(r)
             PROVE  Cardinality(Catalogue!Present') <= CacheMax
    BY DEF StoredWithinSize
<1> DEFINE k == reader[r].key
<1>1. Ordered(Catalogue!Present, older)
      BY DEF CatalogueTypes, PlacesInv
<1>2. IsFiniteSet(Catalogue!Pruned) /\ Cardinality(Catalogue!Pruned) < CacheMax
      BY <1>1, PrunedIsSmall
<1>3. cache' = [q \in Keys |-> IF q = k THEN Catalogue!Loaded(reader[r].seen)
                               ELSE IF q \in Catalogue!Pruned THEN cache[q] ELSE Catalogue!NoEntry]
      BY DEF Catalogue!Settle, Catalogue!Insert
<1>4. Catalogue!Present' \subseteq Catalogue!Pruned \cup {k}
  <2>1. Catalogue!NoEntry' = Catalogue!NoEntry
        BY DEF Catalogue!NoEntry, Catalogue!Unloaded
  <2>2. QED BY <2>1, <1>3 DEF Catalogue!Present, Catalogue!Has
<1>5. IsFiniteSet(Catalogue!Pruned \cup {k}) /\ Cardinality(Catalogue!Pruned \cup {k}) <= Cardinality(Catalogue!Pruned) + 1
  <2>1. Cardinality(Catalogue!Pruned) \in Nat
        BY <1>2, FS_CardinalityType
  <2>2. /\ IsFiniteSet(Catalogue!Pruned \cup {k})
        /\ Cardinality(Catalogue!Pruned \cup {k}) \in {Cardinality(Catalogue!Pruned), Cardinality(Catalogue!Pruned) + 1}
        BY <1>2, FS_AddElement
  <2>3. QED BY <2>1, <2>2
<1>6. Cardinality(Catalogue!Present') <= Cardinality(Catalogue!Pruned \cup {k}) /\ IsFiniteSet(Catalogue!Present')
      BY <1>4, <1>5, FS_Subset
<1>7. /\ Cardinality(Catalogue!Pruned) \in Nat /\ Cardinality(Catalogue!Pruned \cup {k}) \in Nat
      /\ Cardinality(Catalogue!Present') \in Nat
      BY <1>2, <1>5, <1>6, FS_CardinalityType
<1>8. QED BY <1>2, <1>5, <1>6, <1>7, CacheBounds

\* For every set of offers, readers, calls and deliveries: the types of every part, and among
\* them that the cache is in one order; hence storing a value leaves the cache within its size.
THEOREM StorefrontTypes == StorefrontSpec => []TypesOK /\ [][StoredWithinSize]_allVars
<1>1. StorefrontInit => (part = "catalogue" => CatalogueTypes) /\ (part = "settings" => SettingsInv) /\ (part = "memberships" => MembershipInv)
      BY CatalogueTypesInit, SettingsInit, MembershipInit DEF StorefrontInit
<1> DEFINE Inv == (part = "catalogue" => CatalogueTypes) /\ (part = "settings" => SettingsInv) /\ (part = "memberships" => MembershipInv)
<1>2. ASSUME Inv, [StorefrontNext]_allVars PROVE Inv'
  <2>1. part' = part
        BY <1>2, PartSteps
  <2>2. part = "catalogue" => CatalogueTypes'
        BY <1>2, PartSteps, CatalogueStep, SlugsStep, KeysStep, PlacesStep, GenerationStep DEF CatalogueTypes
  <2>3. part = "settings" => SettingsInv'
        BY <1>2, PartSteps, SettingsStep
  <2>4. part = "memberships" => MembershipInv'
        BY <1>2, PartSteps, MembershipStep
  <2>5. QED BY <2>1, <2>2, <2>3, <2>4
<1>3. Inv /\ TypeOK => TypesOK
      BY CatalogueTyped DEF TypesOK, SettingsInv, MembershipInv, MembershipTypes
<1>4. Inv => StoredWithinSize
      BY StoresWithinSize
<1>5. QED BY <1>1, <1>2, <1>3, <1>4, SubmissionsAlone, SubmissionTypes, PTL DEF StorefrontSpec, allVars
===============================================================================
