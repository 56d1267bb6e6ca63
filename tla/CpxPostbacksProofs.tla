-------------------------- MODULE CpxPostbacksProofs --------------------------
(***************************************************************************)
(* What holds of CpxPostbacks for every set of users, transactions and     *)
(* calls.  HoldInv says who may commit a row: the call that inserted it,   *)
(* while nobody else's row is there.                                       *)
(***************************************************************************)
EXTENDS CpxPostbacks, TLAPS

HoldInv ==
    /\ \A c \in Calls : step[c] = "inserted" <=> inserting[Of[c]] = c
    /\ \A t \in Trans : inserting[t] # Nobody => Of[inserting[t]] = t /\ row[t] = "NONE"
    /\ \A c \in Calls : step[c] = "present" => row[Of[c]] # "NONE"

-------------------------------------------------------------------------------

\* The references of a transaction.
LEMMA RefTypes ==
    \A t \in Trans : <<"CREDIT", t>> \in Refs /\ <<"DEBIT", t>> \in Refs
    BY DEF Refs

\* Posting one event of a transaction leaves every other event as it was.
LEMMA MovePosts ==
    ASSUME TypeOK, NEW type \in {"CREDIT", "DEBIT"}, NEW t \in Trans,
           Ledger!Move(Owner[t], type, <<type, t>>, Amount[t])
    PROVE  /\ Ledger!TypeOK'
           /\ Posted(type, t)'
           /\ \A k \in {"CREDIT", "DEBIT"}, q \in Trans :
                 <<k, q>> # <<type, t>> => (Posted(k, q) <=> Posted(k, q)')
<1> DEFINE u == Owner[t]
           ref == <<type, t>>
           after == balance[u] + (IF type = "CREDIT" THEN Amount[t] ELSE -Amount[t])
           entry == [type |-> type, ref |-> ref, amount |-> Amount[t], balanceAfter |-> after]
<1>1. balance \in [Users -> Int] /\ ledger \in [Users -> Seq(Ledger!Entry)]
      BY DEF TypeOK, Ledger!TypeOK
<1>2. u \in Users /\ Amount[t] \in Int /\ Amount[t] \in Amounts
      BY ConstantsAssumption DEF Amounts
<1>3. after \in Int /\ entry \in Ledger!Entry
  <2>1. after \in Int
        BY <1>1, <1>2
  <2>2. ref \in Refs
        BY RefTypes
  <2>3. QED BY <2>1, <2>2, <1>2 DEF Ledger!Entry, Ledger!EntryTypes
<1>4. balance' = [balance EXCEPT ![u] = after] /\ ledger' = [ledger EXCEPT ![u] = Append(@, entry)]
      BY DEF Ledger!Move
<1>5. Ledger!TypeOK'
      BY <1>1, <1>2, <1>3, <1>4 DEF Ledger!TypeOK
<1>6. /\ Len(ledger'[u]) = Len(ledger[u]) + 1
      /\ ledger'[u][Len(ledger[u]) + 1] = entry
      /\ \A k \in 1..Len(ledger[u]) : ledger'[u][k] = ledger[u][k]
      /\ Len(ledger[u]) \in Nat
      /\ entry.ref = ref
  <2>1. ledger'[u] = Append(ledger[u], entry) /\ ledger[u] \in Seq(Ledger!Entry)
        BY <1>1, <1>2, <1>4
  <2>2. QED BY <2>1, <1>3
<1>7. \A v \in Users : v # u => ledger'[v] = ledger[v]
      BY <1>1, <1>4
<1>8. Posted(type, t)'
  <2>1. Len(ledger[u]) + 1 \in 1..Len(ledger'[u])
        BY <1>6
  <2>2. QED BY <2>1, <1>2, <1>6 DEF Posted, Ledger!IsPosted
<1>9. ASSUME NEW k \in {"CREDIT", "DEBIT"}, NEW q \in Trans, <<k, q>> # ref
      PROVE  Posted(k, q) <=> Posted(k, q)'
  <2>1. ASSUME NEW v \in Users, NEW n \in 1..Len(ledger[v]), ledger[v][n].ref = <<k, q>>
        PROVE  Posted(k, q)'
        BY <2>1, <1>6, <1>7 DEF Posted, Ledger!IsPosted
  <2>2. ASSUME NEW v \in Users, NEW n \in 1..Len(ledger'[v]), ledger'[v][n].ref = <<k, q>>
        PROVE  Posted(k, q)
    <3>1. CASE v = u
      <4>1. n \in 1..Len(ledger[u]) \/ n = Len(ledger[u]) + 1
            BY <2>2, <3>1, <1>6
      <4>2. n # Len(ledger[u]) + 1
            BY <2>2, <3>1, <1>6, <1>9
      <4>3. QED BY <2>2, <3>1, <4>1, <4>2, <1>6 DEF Posted, Ledger!IsPosted
    <3>2. CASE v # u
          BY <2>2, <3>2, <1>7 DEF Posted, Ledger!IsPosted
    <3>3. QED BY <3>1, <3>2
  <2>3. QED BY <2>1, <2>2 DEF Posted, Ledger!IsPosted
<1>10. QED BY <1>5, <1>8, <1>9

\* Where nothing is posted the events stay as they were.
LEMMA SamePosts ==
    ASSUME UNCHANGED walletVars
    PROVE  \A k \in {"CREDIT", "DEBIT"}, q \in Trans : Posted(k, q) <=> Posted(k, q)'
    BY DEF walletVars, Posted, Ledger!IsPosted

\* The effect of moveCoins, with coins and without.
LEMMA CoinsPost ==
    ASSUME TypeOK, NEW type \in {"CREDIT", "DEBIT"}, NEW t \in Trans, MoveCoins(type, t)
    PROVE  /\ Ledger!TypeOK'
           /\ Posted(type, t)' <=> Posted(type, t) \/ Amount[t] > 0
           /\ \A k \in {"CREDIT", "DEBIT"}, q \in Trans :
                 <<k, q>> # <<type, t>> => (Posted(k, q) <=> Posted(k, q)')
<1>1. CASE Amount[t] > 0
      BY <1>1, MovePosts DEF MoveCoins
<1>2. CASE ~(Amount[t] > 0)
  <2>1. UNCHANGED walletVars
        BY <1>2 DEF MoveCoins
  <2>2. Ledger!TypeOK'
        BY <2>1 DEF walletVars, TypeOK, Ledger!TypeOK
  <2>3. QED BY <2>1, <2>2, <1>2, SamePosts
<1>3. QED BY <1>1, <1>2

-------------------------------------------------------------------------------

\* Type correctness, and who may commit a row.
THEOREM TypeCorrect == Spec => [](TypeOK /\ HoldInv)
<1> DEFINE I == TypeOK /\ HoldInv
<1>1. Init => I
  <2> SUFFICES ASSUME Init PROVE I
      OBVIOUS
  <2>1. Ledger!TypeOK
        BY DEF Init, Ledger!Init, Ledger!TypeOK
  <2>2. QED
        BY <2>1, ConstantsAssumption DEF Init, TypeOK, HoldInv, Steps, Answers
<1>2. I /\ [Next]_vars => I'
  <2> SUFFICES ASSUME TypeOK, HoldInv, [Next]_vars PROVE I'
      OBVIOUS
  <2> USE ConstantsAssumption
      DEF TypeOK, HoldInv, Steps, Answers, walletVars, Advance, Answer
  <2>1. ASSUME NEW c \in Calls, Insert(c), step[c] \in {"idle", "absent"}
        PROVE  I'
        BY <2>1 DEF Insert, CanInsert, Ledger!TypeOK
  <2>2. ASSUME NEW c \in Calls, Refuse(c), step[c] \in {"idle", "absent"}
        PROVE  I'
        BY <2>2 DEF Refuse, Ledger!TypeOK
  <2>3. ASSUME NEW c \in Calls, CommitCredit(c)
        PROVE  I'
    <3>1. MoveCoins("CREDIT", Of[c]) /\ Of[c] \in Trans
          BY <2>3 DEF CommitCredit
    <3>2. Ledger!TypeOK'
          BY <3>1, CoinsPost
    <3>3. QED BY <2>3, <3>2 DEF CommitCredit
  <2>4. ASSUME NEW c \in Calls, Lookup(c)
        PROVE  I'
        BY <2>4 DEF Lookup, Ledger!TypeOK
  <2>5. ASSUME NEW c \in Calls, CommitReversal(c)
        PROVE  I'
        BY <2>5 DEF CommitReversal, Ledger!TypeOK
  <2>6. ASSUME NEW c \in Calls, Flip(c)
        PROVE  I'
    <3>1. MoveCoins("DEBIT", Of[c]) /\ Of[c] \in Trans
          BY <2>6 DEF Flip
    <3>2. Ledger!TypeOK'
          BY <3>1, CoinsPost
    <3>3. QED BY <2>6, <3>2 DEF Flip, CanFlip
  <2>7. ASSUME NEW c \in Calls, FlipNothing(c)
        PROVE  I'
        BY <2>7 DEF FlipNothing, Ledger!TypeOK
  <2>8. ASSUME NEW c \in Calls, Fail(c)
        PROVE  I'
        BY <2>8 DEF Fail, Ledger!TypeOK
  <2>9. CASE UNCHANGED vars
        BY <2>9 DEF vars, Ledger!TypeOK
  <2>10. QED BY <2>1, <2>2, <2>3, <2>4, <2>5, <2>6, <2>7, <2>8, <2>9
             DEF Next, Call, InsertCredit, RefuseCredit, InsertReversal, RefuseReversal
<1>3. QED BY <1>1, <1>2, PTL DEF Spec

-------------------------------------------------------------------------------

\* The steps that move no coins and change no row.
Quiet == UNCHANGED <<walletVars, row>>

LEMMA StepKinds ==
    [Next]_vars => Quiet \/ \E c \in Calls : CommitCredit(c) \/ CommitReversal(c) \/ Flip(c)
    BY DEF Next, Call, InsertCredit, RefuseCredit, Insert, Refuse, Lookup, InsertReversal,
           RefuseReversal, FlipNothing, Fail, vars, walletVars, Quiet

\* The clause of CoinsMatchRow for transaction t.
Matches(t) ==
    /\ row[t] = "NONE" => ~Posted("CREDIT", t) /\ ~Posted("DEBIT", t)
    /\ row[t] = "COMPLETED" => (Posted("CREDIT", t) <=> Amount[t] > 0) /\ ~Posted("DEBIT", t)
    /\ row[t] = "REVERSED" => (Posted("CREDIT", t) <=> Posted("DEBIT", t))

\* The coins agree with the row: they commit together, a credit only where no
\* row was, a debit only where the row was completed.
THEOREM Invariant == Spec => []CoinsMatchRow
<1>1. Init => CoinsMatchRow
      BY DEF Init, Ledger!Init, Posted, Ledger!IsPosted, CoinsMatchRow
<1>2. TypeOK /\ HoldInv /\ CoinsMatchRow /\ [Next]_vars => CoinsMatchRow'
  <2> SUFFICES ASSUME TypeOK, HoldInv, CoinsMatchRow, [Next]_vars, NEW q \in Trans
               PROVE  Matches(q)'
      BY DEF CoinsMatchRow, Matches
  <2>1. Matches(q) /\ row \in [Trans -> {"NONE", "COMPLETED", "REVERSED"}] /\ Amount[q] \in Nat
        BY ConstantsAssumption DEF CoinsMatchRow, Matches, TypeOK
  <2>2. CASE Quiet
    <3>1. (Posted("CREDIT", q) <=> Posted("CREDIT", q)') /\ (Posted("DEBIT", q) <=> Posted("DEBIT", q)')
          BY <2>2, SamePosts DEF Quiet
    <3>2. QED BY <2>1, <2>2, <3>1 DEF Matches, Quiet
  <2>3. ASSUME NEW c \in Calls, CommitCredit(c)
        PROVE  Matches(q)'
    <3>1. PICK t \in Trans : t = Of[c]
          BY ConstantsAssumption
    <3>2. inserting[t] = c /\ row[t] = "NONE"
          BY <2>3, <3>1, ConstantsAssumption DEF CommitCredit, HoldInv
    <3>3. row' = [row EXCEPT ![t] = "COMPLETED"] /\ MoveCoins("CREDIT", t)
          BY <2>3, <3>1 DEF CommitCredit
    <3>4. /\ Posted("CREDIT", t)' <=> Posted("CREDIT", t) \/ Amount[t] > 0
          /\ \A k \in {"CREDIT", "DEBIT"}, r \in Trans :
                <<k, r>> # <<"CREDIT", t>> => (Posted(k, r) <=> Posted(k, r)')
          BY <3>3, CoinsPost
    <3>5. CASE q = t
          BY <2>1, <3>2, <3>3, <3>4, <3>5 DEF Matches
    <3>6. CASE q # t
          BY <2>1, <3>3, <3>4, <3>6 DEF Matches
    <3>7. QED BY <3>5, <3>6
  <2>4. ASSUME NEW c \in Calls, CommitReversal(c)
        PROVE  Matches(q)'
    <3>1. PICK t \in Trans : t = Of[c]
          BY ConstantsAssumption
    <3>2. inserting[t] = c /\ row[t] = "NONE"
          BY <2>4, <3>1, ConstantsAssumption DEF CommitReversal, HoldInv
    <3>3. row' = [row EXCEPT ![t] = "REVERSED"] /\ UNCHANGED walletVars
          BY <2>4, <3>1 DEF CommitReversal
    <3>4. \A k \in {"CREDIT", "DEBIT"} : Posted(k, q) <=> Posted(k, q)'
          BY <3>3, SamePosts
    <3>5. QED BY <2>1, <3>2, <3>3, <3>4 DEF Matches
  <2>5. ASSUME NEW c \in Calls, Flip(c)
        PROVE  Matches(q)'
    <3>1. PICK t \in Trans : t = Of[c]
          BY ConstantsAssumption
    <3>2. /\ row[t] = "COMPLETED"
          /\ row' = [row EXCEPT ![t] = "REVERSED"]
          /\ MoveCoins("DEBIT", t)
          BY <2>5, <3>1 DEF Flip, CanFlip
    <3>3. /\ Posted("DEBIT", t)' <=> Posted("DEBIT", t) \/ Amount[t] > 0
          /\ \A k \in {"CREDIT", "DEBIT"}, r \in Trans :
                <<k, r>> # <<"DEBIT", t>> => (Posted(k, r) <=> Posted(k, r)')
          BY <3>2, CoinsPost
    <3>4. CASE q = t
          BY <2>1, <3>2, <3>3, <3>4 DEF Matches
    <3>5. CASE q # t
          BY <2>1, <3>2, <3>3, <3>5 DEF Matches
    <3>6. QED BY <3>4, <3>5
  <2>6. QED BY <2>2, <2>3, <2>4, <2>5, StepKinds
<1>3. QED BY <1>1, <1>2, TypeCorrect, PTL DEF Spec

\* The postbacks implement the abstract ledger: each credit and each reversal
\* is posted at most once, whatever is repeated or overlaps.
THEOREM Implementation == Spec => LedgerSpec
<1>1. Init => Ledger!Init
      BY DEF Init
<1>2. TypeOK /\ HoldInv /\ CoinsMatchRow /\ [Next]_vars => [Ledger!Next]_(Ledger!ledgerVars)
  <2> SUFFICES ASSUME TypeOK, HoldInv, CoinsMatchRow, [Next]_vars
               PROVE  [Ledger!Next]_(Ledger!ledgerVars)
      OBVIOUS
  <2>1. ASSUME NEW type \in {"CREDIT", "DEBIT"}, NEW t \in Trans, ~Posted(type, t), MoveCoins(type, t)
        PROVE  [Ledger!Next]_(Ledger!ledgerVars)
    <3>1. CASE Amount[t] > 0
      <4>1. Owner[t] \in Users /\ Amount[t] \in Amounts /\ <<type, t>> \in Refs
            BY ConstantsAssumption, RefTypes DEF Amounts
      <4>2. Ledger!Post(Owner[t], type, <<type, t>>, Amount[t])
            BY <2>1, <3>1 DEF MoveCoins, Posted, Ledger!Post, Ledger!Fresh
      <4>3. QED BY <4>1, <4>2 DEF Ledger!Next, Ledger!EntryTypes
    <3>2. CASE ~(Amount[t] > 0)
          BY <2>1, <3>2 DEF MoveCoins, walletVars, Ledger!ledgerVars
    <3>3. QED BY <3>1, <3>2
  <2>2. CASE Quiet
        BY <2>2 DEF Quiet, walletVars, Ledger!ledgerVars
  <2>3. ASSUME NEW c \in Calls, CommitCredit(c)
        PROVE  [Ledger!Next]_(Ledger!ledgerVars)
    <3>1. Of[c] \in Trans /\ inserting[Of[c]] = c /\ row[Of[c]] = "NONE"
          BY <2>3, ConstantsAssumption DEF CommitCredit, HoldInv
    <3>2. ~Posted("CREDIT", Of[c]) /\ MoveCoins("CREDIT", Of[c])
          BY <2>3, <3>1 DEF CommitCredit, CoinsMatchRow
    <3>3. QED BY <2>1, <3>1, <3>2
  <2>4. ASSUME NEW c \in Calls, CommitReversal(c)
        PROVE  [Ledger!Next]_(Ledger!ledgerVars)
        BY <2>4 DEF CommitReversal, walletVars, Ledger!ledgerVars
  <2>5. ASSUME NEW c \in Calls, Flip(c)
        PROVE  [Ledger!Next]_(Ledger!ledgerVars)
    <3>1. Of[c] \in Trans /\ row[Of[c]] = "COMPLETED"
          BY <2>5, ConstantsAssumption DEF Flip, CanFlip
    <3>2. ~Posted("DEBIT", Of[c]) /\ MoveCoins("DEBIT", Of[c])
          BY <2>5, <3>1 DEF Flip, CoinsMatchRow
    <3>3. QED BY <2>1, <3>1, <3>2
  <2>6. QED BY <2>2, <2>3, <2>4, <2>5, StepKinds
<1>3. QED BY <1>1, <1>2, TypeCorrect, Invariant, PTL DEF Spec, LedgerSpec, Ledger!Spec

-------------------------------------------------------------------------------

\* Where calls do not overlap, one is under way at a time, what it looked up is
\* still so, and a reversal that was answered is on record.
SerialInv ==
    /\ \A c, d \in Calls :
          /\ step[c] \notin {"idle", "over"}
          /\ step[d] \notin {"idle", "over"}
          /\ Of[c] = Of[d]
          /\ Of[c] \notin Overlapping
          => c = d
    /\ \A c \in Calls : step[c] = "absent" /\ Of[c] \notin Overlapping => row[Of[c]] = "NONE"
    /\ \A c \in Calls : step[c] \in {"absent", "present"} => Kind[c] = "reversal"

\* A reversal that was answered is on record, for every transaction whose calls
\* do not overlap.
THEOREM ReversalKept == Spec => []ReversalIsKeptInTurn
<1> DEFINE I == SerialInv /\ ReversalIsKeptInTurn
<1>1. Init => I
      BY DEF Init, SerialInv, ReversalIsKeptInTurn, Kept
<1>2. TypeOK /\ HoldInv /\ I /\ [Next]_vars => I'
  <2> SUFFICES ASSUME TypeOK, HoldInv, SerialInv, ReversalIsKeptInTurn, [Next]_vars PROVE I'
      OBVIOUS
  <2> USE ConstantsAssumption
      DEF TypeOK, HoldInv, SerialInv, ReversalIsKeptInTurn, Kept, Advance, Answer, MayStart
  <2>1. ASSUME NEW c \in Calls, Insert(c), step[c] = "absent" \/ (step[c] = "idle" /\ Kind[c] = "credit" /\ MayStart(c))
        PROVE  I'
        BY <2>1 DEF Insert, CanInsert
  <2>2. ASSUME NEW c \in Calls, RefuseCredit(c)
        PROVE  I'
        BY <2>2 DEF RefuseCredit, Refuse
  <2>3. ASSUME NEW c \in Calls, RefuseReversal(c)
        PROVE  I'
        BY <2>3 DEF RefuseReversal, Refuse, IsTaken
  <2>4. ASSUME NEW c \in Calls, CommitCredit(c)
        PROVE  I'
    <3>1. row' = [row EXCEPT ![Of[c]] = "COMPLETED"] /\ row[Of[c]] = "NONE"
          BY <2>4 DEF CommitCredit
    <3>2. QED BY <2>4, <3>1 DEF CommitCredit
  <2>5. ASSUME NEW c \in Calls, Lookup(c)
        PROVE  I'
        BY <2>5 DEF Lookup
  <2>6. ASSUME NEW c \in Calls, CommitReversal(c)
        PROVE  I'
        BY <2>6 DEF CommitReversal
  <2>7. ASSUME NEW c \in Calls, Flip(c)
        PROVE  I'
        BY <2>7 DEF Flip, CanFlip
  <2>8. ASSUME NEW c \in Calls, FlipNothing(c)
        PROVE  I'
        BY <2>8 DEF FlipNothing, CanFlip
  <2>9. ASSUME NEW c \in Calls, Fail(c)
        PROVE  I'
        BY <2>9 DEF Fail
  <2>10. CASE UNCHANGED vars
        BY <2>10 DEF vars
  <2>11. QED BY <2>1, <2>2, <2>3, <2>4, <2>5, <2>6, <2>7, <2>8, <2>9, <2>10
             DEF Next, Call, InsertCredit, InsertReversal
<1>3. QED BY <1>1, <1>2, TypeCorrect, PTL DEF Spec
===============================================================================
