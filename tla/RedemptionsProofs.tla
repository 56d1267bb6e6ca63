--------------------------- MODULE RedemptionsProofs ---------------------------
(***************************************************************************)
(* What holds of Redemptions for every set of users, redemptions, amounts  *)
(* and admins.  Inv is inductive: it ties the wallet lock to the           *)
(* transaction that holds it, the balance that transaction read to the     *)
(* wallet, and every row to its ledger entries.                            *)
(***************************************************************************)
EXTENDS Redemptions, TLAPS

InRequest(i) == request[i] \in {"locked", "checked"}

\* A wallet is locked by the one transaction of its owner that is under way.
LockInv ==
    /\ \A i \in Ids : InRequest(i) <=> walletLock[Owner[i]] = i
    /\ \A u \in Users : walletLock[u] # Nobody => Owner[walletLock[u]] = u

\* The balance a transaction read is still the balance, and suffices once checked.
SeenInv ==
    \A i \in Ids :
        /\ InRequest(i) => seen[i] = balance[Owner[i]]
        /\ request[i] = "checked" => seen[i] >= coins[i]

\* A row is written only by the commit of its request.
RowInv == \A i \in Ids : request[i] # "over" => status[i] = "NONE"

\* A review under way, or an issued voucher, belongs to an approved voucher row.
ReviewInv ==
    \A i \in Ids :
        review[i] \in LiveReview \/ issued[i] # "no" =>
            status[i] \in {"APPROVED", "FULFILLED"} /\ method[i] # "UPI"

Inv ==
    /\ TypeOK
    /\ LockInv
    /\ SeenInv
    /\ NoOverdraft
    /\ RowInv
    /\ EscrowMatchesRow
    /\ ReviewInv

-------------------------------------------------------------------------------

\* The kinds of references are kept apart by their names.
LEMMA RefsTypes ==
    /\ \A i \in Ids : Ref("redemption", i) \in Refs /\ Ref("redemption-refund", i) \in Refs
    /\ \A w \in Rewards : Ref("reward", w) \in Refs
    BY DEF Ref, Refs

\* The wallet a redemption is charged to and the coins it charges.
LEMMA FieldTypes ==
    ASSUME TypeOK
    PROVE  \A i \in Ids : /\ Owner[i] \in Users
                          /\ balance[Owner[i]] \in Int
                          /\ coins[i] \in Coins /\ coins[i] \in Nat /\ coins[i] > 0
<1>1. ASSUME NEW i \in Ids
      PROVE  Owner[i] \in Users /\ coins[i] \in Coins
      BY ConstantsAssumption DEF TypeOK
<1>2. \A c \in Coins : c \in Nat /\ c > 0
      BY ConstantsAssumption
<1>3. balance \in [Users -> Int]
      BY DEF TypeOK, Ledger!TypeOK
<1>4. QED BY <1>1, <1>2, <1>3

\* Posting event ref leaves every other event as it was, and makes ref posted.
LEMMA MovePosts ==
    ASSUME TypeOK, NEW u \in Users, NEW type \in Ledger!EntryTypes, NEW ref \in Refs,
           NEW amount \in Coins, Move(u, type, ref, amount)
    PROVE  /\ Ledger!TypeOK'
           /\ PostedAs(ref, u, type, amount)'
           /\ \A r \in Refs : r # ref => (Ledger!IsPosted(r) <=> Ledger!IsPosted(r)')
           /\ \A r \in Refs, v \in Users, t \in Ledger!EntryTypes, a \in Coins :
                 PostedAs(r, v, t, a) => PostedAs(r, v, t, a)'
<1> DEFINE after == balance[u] + (IF type = "CREDIT" THEN amount ELSE -amount)
           entry == [type |-> type, ref |-> ref, amount |-> amount, balanceAfter |-> after]
<1>1. balance \in [Users -> Int] /\ ledger \in [Users -> Seq(Ledger!Entry)]
      BY DEF TypeOK, Ledger!TypeOK
<1>2. amount \in Int
      BY ConstantsAssumption
<1>3. after \in Int /\ entry \in Ledger!Entry
      BY <1>1, <1>2 DEF Ledger!Entry, Ledger!EntryTypes
<1>4. balance' = [balance EXCEPT ![u] = after] /\ ledger' = [ledger EXCEPT ![u] = Append(@, entry)]
      BY DEF Move, Ledger!Move
<1>5. Ledger!TypeOK'
      BY <1>1, <1>3, <1>4 DEF Ledger!TypeOK
<1>6. /\ Len(ledger'[u]) = Len(ledger[u]) + 1
      /\ ledger'[u][Len(ledger[u]) + 1] = entry
      /\ \A k \in 1..Len(ledger[u]) : ledger'[u][k] = ledger[u][k]
      /\ Len(ledger[u]) \in Nat
      BY <1>1, <1>3, <1>4
<1>7. \A v \in Users : v # u => ledger'[v] = ledger[v]
      BY <1>1, <1>4
<1>8. PostedAs(ref, u, type, amount)'
  <2>1. Len(ledger[u]) + 1 \in 1..Len(ledger'[u])
        BY <1>6
  <2>2. QED BY <2>1, <1>6 DEF PostedAs
<1>9. \A r \in Refs : r # ref => (Ledger!IsPosted(r) <=> Ledger!IsPosted(r)')
  <2> SUFFICES ASSUME NEW r \in Refs, r # ref
               PROVE  Ledger!IsPosted(r) <=> Ledger!IsPosted(r)'
      OBVIOUS
  <2>1. ASSUME NEW v \in Users, NEW k \in 1..Len(ledger[v]), ledger[v][k].ref = r
        PROVE  Ledger!IsPosted(r)'
        BY <2>1, <1>6, <1>7 DEF Ledger!IsPosted
  <2>2. ASSUME NEW v \in Users, NEW k \in 1..Len(ledger'[v]), ledger'[v][k].ref = r
        PROVE  Ledger!IsPosted(r)
        BY <2>2, <1>6, <1>7 DEF Ledger!IsPosted
  <2>3. QED BY <2>1, <2>2 DEF Ledger!IsPosted
<1>10. ASSUME NEW r \in Refs, NEW v \in Users, NEW t \in Ledger!EntryTypes, NEW a \in Coins,
              PostedAs(r, v, t, a)
       PROVE  PostedAs(r, v, t, a)'
       BY <1>10, <1>6, <1>7 DEF PostedAs
<1>11. QED BY <1>5, <1>8, <1>9, <1>10

-------------------------------------------------------------------------------

\* Type correctness.
THEOREM TypeCorrect == Spec => []TypeOK
<1>1. Init => TypeOK
  <2> SUFFICES ASSUME Init PROVE TypeOK
      OBVIOUS
  <2>1. Ledger!TypeOK
        BY DEF Init, Ledger!Init, Ledger!TypeOK
  <2>2. QED
        BY <2>1, ConstantsAssumption
        DEF Init, TypeOK, Statuses, ReviewStates, RequestStates, Vouchers, FailReasons, IssueStates
<1>2. TypeOK /\ [Next]_vars => TypeOK'
  <2> SUFFICES ASSUME TypeOK, [Next]_vars PROVE TypeOK'
      OBVIOUS
  <2> USE ConstantsAssumption
      DEF TypeOK, Statuses, ReviewStates, LiveReview, RequestStates, Vouchers, FailReasons,
          IssueStates, walletVars, rowVars, sessionVars, worldVars
  <2>1. ASSUME NEW u \in Users, NEW w \in Rewards, NEW c \in Coins, Earn(u, w, c)
        PROVE  TypeOK'
    <3>1. Ledger!TypeOK'
          BY <2>1, MovePosts, RefsTypes DEF Earn, Ledger!EntryTypes
    <3>2. QED BY <2>1, <3>1 DEF Earn
  <2>2. ASSUME NEW i \in Ids, RequestStep(i)
        PROVE  TypeOK'
    <3>1. CASE BeginRequest(i)
          BY <3>1 DEF BeginRequest, Ledger!TypeOK
    <3>2. CASE CheckRequest(i)
          BY <3>2 DEF CheckRequest, Ledger!TypeOK
    <3>3. CASE RefuseRequest(i)
          BY <3>3 DEF RefuseRequest, EndRequest, Ledger!TypeOK
    <3>4. CASE CommitRequest(i)
      <4>1. Ledger!TypeOK'
            BY <3>4, MovePosts, RefsTypes DEF CommitRequest, Ledger!EntryTypes
      <4>2. QED BY <3>4, <4>1 DEF CommitRequest, EndRequest
    <3>5. CASE AbortRequest(i)
          BY <3>5 DEF AbortRequest, EndRequest, Ledger!TypeOK
    <3>6. QED BY <2>2, <3>1, <3>2, <3>3, <3>4, <3>5 DEF RequestStep
  <2>3. ASSUME NEW i \in Ids, ReviewStep(i)
        PROVE  TypeOK'
    <3> USE DEF EndReview, Ledger!TypeOK
    <3>1. ASSUME NEW outcome \in IssueStates, CallProvider(i, outcome)
          PROVE  TypeOK'
          BY <3>1 DEF CallProvider
    <3>2. CASE ParkRefusal(i)
          BY <3>2 DEF ParkRefusal
    <3>3. CASE SaveVoucher(i)
          BY <3>3 DEF SaveVoucher, WriteFulfilled
    <3>4. CASE SaveConflict(i)
          BY <3>4 DEF SaveConflict
    <3>5. CASE SaveFails(i)
          BY <3>5 DEF SaveFails, DbFails
    <3>6. CASE SaveUnconfirmed(i)
          BY <3>6 DEF SaveUnconfirmed, WriteFulfilled, DbFails
    <3>7. CASE ParkVoucher(i)
          BY <3>7 DEF ParkVoucher
    <3>8. CASE ParkFails(i)
          BY <3>8 DEF ParkFails, DbFails
    <3>9. QED BY <2>3, <3>1, <3>2, <3>3, <3>4, <3>5, <3>6, <3>7, <3>8 DEF ReviewStep
  <2>4. ASSUME NEW a \in Admins, NEW i \in Ids, AdminStep(a, i)
        PROVE  TypeOK'
    <3>1. CASE Reject(a, i)
      <4>1. Ledger!TypeOK'
            BY <3>1, MovePosts, RefsTypes DEF Reject, Ledger!EntryTypes
      <4>2. QED BY <3>1, <4>1 DEF Reject
    <3>2. ASSUME NEW next \in {"approved", "over"}, Approve(a, i, next)
          PROVE  TypeOK'
          BY <3>2 DEF Approve, Ledger!TypeOK
    <3>3. CASE Claim(a, i)
          BY <3>3 DEF Claim, Ledger!TypeOK
    <3>4. CASE Release(i)
          BY <3>4 DEF Release, Ledger!TypeOK
    <3>5. CASE PayByUpi(a, i)
          BY <3>5 DEF PayByUpi, Ledger!TypeOK
    <3>6. CASE MarkPaid(a, i)
          BY <3>6 DEF MarkPaid, Ledger!TypeOK
    <3>7. CASE Fulfill(a, i)
          BY <3>7 DEF Fulfill, WriteFulfilled, Ledger!TypeOK
    <3>8. QED BY <2>4, <3>1, <3>2, <3>3, <3>4, <3>5, <3>6, <3>7 DEF AdminStep
  <2>5. ASSUME NEW i \in Ids, CrashReview(i)
        PROVE  TypeOK'
        BY <2>5 DEF CrashReview, EndReview, Ledger!TypeOK
  <2>6. CASE UNCHANGED vars
        BY <2>6 DEF vars, Ledger!TypeOK
  <2>7. QED BY <2>1, <2>2, <2>3, <2>4, <2>5, <2>6 DEF Next
<1>3. QED BY <1>1, <1>2, PTL DEF Spec

-------------------------------------------------------------------------------

\* Steps that touch no wallet and no request, and move rows only among the
\* states in which the coins are held.
Quiet ==
    /\ UNCHANGED <<balance, ledger, method, coins, request, seen, walletLock>>
    /\ \A i \in Ids :
          \/ status'[i] = status[i]
          \/ /\ status[i] \in {"PENDING", "APPROVED"}
             /\ status'[i] \in {"PENDING", "APPROVED", "FULFILLED"}
             /\ status'[i] = "PENDING" => status[i] = "PENDING" \/ method[i] = "UPI"

\* Every step earns, advances a request, refunds, or is quiet.
LEMMA StepKinds ==
    ASSUME TypeOK, [Next]_vars
    PROVE  \/ \E u \in Users, w \in Rewards, c \in Coins : Earn(u, w, c)
           \/ \E i \in Ids : RequestStep(i)
           \/ \E a \in Admins, i \in Ids : Reject(a, i)
           \/ Quiet
<1> USE DEF TypeOK, Quiet, walletVars, rowVars, sessionVars, worldVars
<1>1. ASSUME NEW i \in Ids, ReviewStep(i)
      PROVE  Quiet
  <2> USE DEF EndReview
  <2>1. ASSUME NEW outcome \in IssueStates, CallProvider(i, outcome)
        PROVE  Quiet
        BY <2>1 DEF CallProvider
  <2>2. CASE ParkRefusal(i)
        BY <2>2 DEF ParkRefusal
  <2>3. CASE SaveVoucher(i)
        BY <2>3 DEF SaveVoucher, WriteFulfilled
  <2>4. CASE SaveConflict(i)
        BY <2>4 DEF SaveConflict
  <2>5. CASE SaveFails(i)
        BY <2>5 DEF SaveFails
  <2>6. CASE SaveUnconfirmed(i)
        BY <2>6 DEF SaveUnconfirmed, WriteFulfilled
  <2>7. CASE ParkVoucher(i)
        BY <2>7 DEF ParkVoucher
  <2>8. CASE ParkFails(i)
        BY <2>8 DEF ParkFails
  <2>9. QED BY <1>1, <2>1, <2>2, <2>3, <2>4, <2>5, <2>6, <2>7, <2>8 DEF ReviewStep
<1>2. ASSUME NEW i \in Ids, CrashReview(i)
      PROVE  Quiet
      BY <1>2 DEF CrashReview, EndReview
<1>3. ASSUME NEW a \in Admins, NEW i \in Ids, AdminStep(a, i), ~Reject(a, i)
      PROVE  Quiet
  <2>1. ASSUME NEW next \in {"approved", "over"}, Approve(a, i, next)
        PROVE  Quiet
        BY <2>1 DEF Approve, CanApprove
  <2>2. CASE Claim(a, i)
        BY <2>2 DEF Claim, CanClaim
  <2>3. CASE Release(i)
        BY <2>3 DEF Release, CanRelease
  <2>4. CASE PayByUpi(a, i)
        BY <2>4 DEF PayByUpi
  <2>5. CASE MarkPaid(a, i)
        BY <2>5 DEF MarkPaid, CanMarkPaid
  <2>6. CASE Fulfill(a, i)
        BY <2>6 DEF Fulfill, CanFulfill, WriteFulfilled
  <2>7. QED BY <1>3, <2>1, <2>2, <2>3, <2>4, <2>5, <2>6 DEF AdminStep
<1>4. CASE UNCHANGED vars
      BY <1>4 DEF vars
<1>5. QED BY <1>1, <1>2, <1>3, <1>4 DEF Next

\* The wallet lock follows the request under way.
LEMMA LockPreserved ==
    ASSUME TypeOK, LockInv, [Next]_vars
    PROVE  LockInv'
<1> USE ConstantsAssumption
    DEF TypeOK, LockInv, InRequest, walletVars, rowVars, sessionVars, worldVars
<1>1. ASSUME NEW u \in Users, NEW w \in Rewards, NEW c \in Coins, Earn(u, w, c)
      PROVE  LockInv'
      BY <1>1 DEF Earn
<1>2. ASSUME NEW i \in Ids, BeginRequest(i)
      PROVE  LockInv'
      BY <1>2 DEF BeginRequest, WalletFree
<1>3. ASSUME NEW i \in Ids, CheckRequest(i)
      PROVE  LockInv'
      BY <1>3 DEF CheckRequest
<1>4. ASSUME NEW i \in Ids, InRequest(i), EndRequest(i)
      PROVE  LockInv'
      BY <1>4 DEF EndRequest
<1>5. ASSUME NEW i \in Ids, RequestStep(i)
      PROVE  LockInv'
      BY <1>2, <1>3, <1>4, <1>5 DEF RequestStep, RefuseRequest, CommitRequest, AbortRequest
<1>6. ASSUME NEW a \in Admins, NEW i \in Ids, Reject(a, i)
      PROVE  LockInv'
      BY <1>6 DEF Reject
<1>7. CASE Quiet
      BY <1>7 DEF Quiet
<1>8. QED BY <1>1, <1>5, <1>6, <1>7, StepKinds

\* Nobody moves a balance under a transaction that has read it.
LEMMA SeenPreserved ==
    ASSUME TypeOK, LockInv, SeenInv, NoOverdraft, RowInv, [Next]_vars
    PROVE  SeenInv' /\ NoOverdraft' /\ RowInv'
<1> USE ConstantsAssumption
    DEF TypeOK, LockInv, SeenInv, NoOverdraft, RowInv, InRequest, Ledger!TypeOK,
        walletVars, rowVars, sessionVars, worldVars
<1>1. ASSUME NEW u \in Users, NEW w \in Rewards, NEW c \in Coins, Earn(u, w, c)
      PROVE  SeenInv' /\ NoOverdraft' /\ RowInv'
  <2>1. /\ UNCHANGED <<request, seen, coins, status>>
        /\ balance' = [balance EXCEPT ![u] = balance[u] + c]
        /\ \A i \in Ids : Owner[i] = u => ~InRequest(i)
        BY <1>1 DEF Earn, Move, Ledger!Move, WalletFree
  <2>2. c \in Nat
        OBVIOUS
  <2>3. SeenInv'
        BY <2>1, <2>2
  <2>4. NoOverdraft'
        BY <2>1, <2>2
  <2>5. RowInv'
        BY <2>1
  <2>6. QED BY <2>3, <2>4, <2>5
<1>2. ASSUME NEW i \in Ids, RequestStep(i)
      PROVE  SeenInv' /\ NoOverdraft' /\ RowInv'
  <2>1. CASE BeginRequest(i)
    <3>1. /\ UNCHANGED <<balance, coins, status>>
          /\ request' = [request EXCEPT ![i] = "locked"]
          /\ request[i] = "idle"
          /\ seen' = [seen EXCEPT ![i] = balance[Owner[i]]]
          BY <2>1 DEF BeginRequest
    <3>2. SeenInv'
          BY <3>1
    <3>3. QED BY <3>1, <3>2
  <2>2. CASE CheckRequest(i)
    <3>1. /\ UNCHANGED <<balance, seen, coins, status>>
          /\ request' = [request EXCEPT ![i] = "checked"]
          /\ request[i] = "locked" /\ seen[i] >= coins[i]
          BY <2>2 DEF CheckRequest, CanRequest
    <3>2. SeenInv'
          BY <3>1
    <3>3. QED BY <3>1, <3>2
  <2>3. CASE RefuseRequest(i)
        BY <2>3 DEF RefuseRequest, EndRequest
  <2>4. CASE CommitRequest(i)
    <3>1. /\ UNCHANGED <<seen, coins>>
          /\ request' = [request EXCEPT ![i] = "over"]
          /\ status' = [status EXCEPT ![i] = "PENDING"]
          /\ balance' = [balance EXCEPT ![Owner[i]] = balance[Owner[i]] - coins[i]]
          /\ request[i] = "checked"
          BY <2>4 DEF CommitRequest, EndRequest, Move, Ledger!Move
    <3>2. /\ \A j \in Ids : j # i /\ InRequest(j) => Owner[j] # Owner[i]
          /\ balance[Owner[i]] >= coins[i]
          BY <3>1
    <3>3. SeenInv'
          BY <3>1, <3>2
    <3>4. NoOverdraft'
      <4>1. Owner[i] \in Users /\ balance[Owner[i]] \in Int /\ coins[i] \in Nat
            BY FieldTypes
      <4>2. balance[Owner[i]] - coins[i] >= 0
            BY <3>2, <4>1
      <4>3. QED BY <3>1, <4>2
    <3>5. RowInv'
          BY <3>1
    <3>6. QED BY <3>3, <3>4, <3>5
  <2>5. CASE AbortRequest(i)
        BY <2>5 DEF AbortRequest, EndRequest
  <2>6. QED BY <1>2, <2>1, <2>2, <2>3, <2>4, <2>5 DEF RequestStep
<1>3. ASSUME NEW a \in Admins, NEW i \in Ids, Reject(a, i)
      PROVE  SeenInv' /\ NoOverdraft' /\ RowInv'
  <2>1. /\ UNCHANGED <<request, seen, coins>>
        /\ status' = [status EXCEPT ![i] = "REJECTED"]
        /\ balance' = [balance EXCEPT ![Owner[i]] = balance[Owner[i]] + coins[i]]
        /\ \A j \in Ids : Owner[j] = Owner[i] => ~InRequest(j)
        /\ request[i] = "over"
        BY <1>3 DEF Reject, CanReject, Move, Ledger!Move, WalletFree
  <2>2. SeenInv'
        BY <2>1
  <2>3. NoOverdraft'
    <3>1. Owner[i] \in Users /\ balance[Owner[i]] \in Int /\ coins[i] \in Nat
          BY FieldTypes
    <3>2. balance[Owner[i]] + coins[i] >= 0
          BY <3>1
    <3>3. QED BY <2>1, <3>2
  <2>4. RowInv'
        BY <2>1
  <2>5. QED BY <2>2, <2>3, <2>4
<1>4. CASE Quiet
  <2>1. /\ UNCHANGED <<balance, request, seen, coins>>
        /\ \A i \in Ids : status[i] = "NONE" => status'[i] = "NONE"
        BY <1>4 DEF Quiet
  <2>2. SeenInv' /\ NoOverdraft'
        BY <2>1
  <2>3. RowInv'
        BY <2>1
  <2>4. QED BY <2>2, <2>3
<1>5. QED BY <1>1, <1>2, <1>3, <1>4, StepKinds

\* One row's share of EscrowMatchesRow.
Escrow(i) ==
    /\ IF status[i] = "NONE"
          THEN ~Ledger!IsPosted(Ref("redemption", i))
          ELSE PostedAs(Ref("redemption", i), Owner[i], "DEBIT", coins[i])
    /\ IF status[i] = "REJECTED"
          THEN PostedAs(Ref("redemption-refund", i), Owner[i], "CREDIT", coins[i])
          ELSE ~Ledger!IsPosted(Ref("redemption-refund", i))

\* A movement for another event leaves a row's escrow as it was.
LEMMA EscrowFrame ==
    ASSUME TypeOK, NEW u \in Users, NEW type \in Ledger!EntryTypes, NEW ref \in Refs,
           NEW amount \in Coins, Move(u, type, ref, amount),
           NEW i \in Ids, Escrow(i),
           ref # Ref("redemption", i), ref # Ref("redemption-refund", i),
           status'[i] = status[i], coins'[i] = coins[i]
    PROVE  Escrow(i)'
<1>1. Ref("redemption", i) \in Refs /\ Ref("redemption-refund", i) \in Refs
      BY RefsTypes
<1>2. Owner[i] \in Users /\ coins[i] \in Coins
      BY FieldTypes
<1>3. \A r \in Refs : r # ref => (Ledger!IsPosted(r) <=> Ledger!IsPosted(r)')
      BY MovePosts
<1>4. \A r \in Refs, v \in Users, t \in Ledger!EntryTypes, a \in Coins :
          PostedAs(r, v, t, a) => PostedAs(r, v, t, a)'
      BY MovePosts
<1>5. /\ PostedAs(Ref("redemption", i), Owner[i], "DEBIT", coins[i])
             => PostedAs(Ref("redemption", i), Owner[i], "DEBIT", coins[i])'
      /\ PostedAs(Ref("redemption-refund", i), Owner[i], "CREDIT", coins[i])
             => PostedAs(Ref("redemption-refund", i), Owner[i], "CREDIT", coins[i])'
  <2>1. PICK c \in Coins : c = coins[i]
        BY <1>2
  <2>2. coins'[i] = c
        BY <2>1
  <2>3. /\ PostedAs(Ref("redemption", i), Owner[i], "DEBIT", c)
               => PostedAs(Ref("redemption", i), Owner[i], "DEBIT", c)'
        /\ PostedAs(Ref("redemption-refund", i), Owner[i], "CREDIT", c)
               => PostedAs(Ref("redemption-refund", i), Owner[i], "CREDIT", c)'
        BY <1>1, <1>2, <1>4, <2>1 DEF Ledger!EntryTypes
  <2>4. QED BY <2>1, <2>2, <2>3 DEF PostedAs
<1>6. QED BY <1>1, <1>3, <1>5 DEF Escrow

\* Every row keeps matching its ledger entries.
LEMMA EscrowPreserved ==
    ASSUME TypeOK, RowInv, EscrowMatchesRow, [Next]_vars
    PROVE  EscrowMatchesRow'
<1> SUFFICES ASSUME NEW i \in Ids
             PROVE  Escrow(i)'
    BY DEF EscrowMatchesRow, Escrow
<1>1. Escrow(i)
      BY DEF EscrowMatchesRow, Escrow
<1>2. /\ Owner[i] \in Users
      /\ coins[i] \in Coins
      /\ Ref("redemption", i) \in Refs /\ Ref("redemption-refund", i) \in Refs
      BY FieldTypes, RefsTypes
\* A step that moves no coins and keeps NONE and REJECTED as they are.
<1>3. ASSUME UNCHANGED <<ledger, coins>>,
             status'[i] = "NONE" <=> status[i] = "NONE",
             status'[i] = "REJECTED" <=> status[i] = "REJECTED"
      PROVE  Escrow(i)'
      BY <1>1, <1>3 DEF Escrow, PostedAs, Ledger!IsPosted
<1>4. ASSUME NEW u \in Users, NEW w \in Rewards, NEW c \in Coins, Earn(u, w, c)
      PROVE  Escrow(i)'
  <2>1. Move(u, "CREDIT", Ref("reward", w), c) /\ UNCHANGED <<status, coins>>
        BY <1>4 DEF Earn, rowVars
  <2>2. Ref("reward", w) # Ref("redemption", i) /\ Ref("reward", w) # Ref("redemption-refund", i)
        BY DEF Ref
  <2>3. QED BY <1>1, <2>1, <2>2, EscrowFrame, RefsTypes DEF Ledger!EntryTypes
<1>5. ASSUME NEW j \in Ids, RequestStep(j)
      PROVE  Escrow(i)'
  <2>1. CASE CommitRequest(j)
    <3>1. /\ status[j] = "NONE"
          /\ status' = [status EXCEPT ![j] = "PENDING"]
          /\ Move(Owner[j], "DEBIT", Ref("redemption", j), coins[j])
          /\ coins' = coins
          /\ status \in [Ids -> Statuses]
          BY <2>1 DEF CommitRequest, RowInv, TypeOK
    <3>2. CASE j = i
      <4>1. PICK u \in Users, c \in Coins : u = Owner[i] /\ c = coins[i]
            BY <1>2
      <4>2. Move(u, "DEBIT", Ref("redemption", i), c) /\ coins'[i] = c
            BY <3>1, <3>2, <4>1
      <4>3. /\ PostedAs(Ref("redemption", i), u, "DEBIT", c)'
            /\ \A r \in Refs : r # Ref("redemption", i) =>
                   (Ledger!IsPosted(r) <=> Ledger!IsPosted(r)')
            BY <1>2, <4>2, MovePosts DEF Ledger!EntryTypes
      <4>4. ~Ledger!IsPosted(Ref("redemption-refund", i))
            BY <1>1, <3>1, <3>2 DEF Escrow
      <4>5. ~Ledger!IsPosted(Ref("redemption-refund", i))'
            BY <4>3, <4>4, <1>2 DEF Ref
      <4>6. status'[i] = "PENDING"
            BY <3>1, <3>2
      <4>7. PostedAs(Ref("redemption", i), Owner[i], "DEBIT", coins[i])'
            BY <4>1, <4>2, <4>3 DEF PostedAs
      <4>8. QED BY <4>5, <4>6, <4>7 DEF Escrow
    <3>3. CASE j # i
      <4>1. /\ Ref("redemption", j) # Ref("redemption", i)
            /\ Ref("redemption", j) # Ref("redemption-refund", i)
            BY <3>3 DEF Ref
      <4>2. status'[i] = status[i] /\ coins'[i] = coins[i]
            BY <3>1, <3>3
      <4>3. Owner[j] \in Users /\ coins[j] \in Coins
            BY FieldTypes
      <4>4. QED BY <1>1, <3>1, <4>1, <4>2, <4>3, EscrowFrame, RefsTypes DEF Ledger!EntryTypes
    <3>4. QED BY <3>2, <3>3
  <2>2. CASE ~CommitRequest(j)
    <3>1. UNCHANGED <<ledger, coins, status>>
          BY <1>5, <2>2 DEF RequestStep, BeginRequest, CheckRequest, RefuseRequest, AbortRequest,
                            walletVars, rowVars
    <3>2. QED BY <1>3, <3>1
  <2>3. QED BY <2>1, <2>2
<1>6. ASSUME NEW a \in Admins, NEW j \in Ids, Reject(a, j)
      PROVE  Escrow(i)'
  <2>1. /\ status[j] = "PENDING"
        /\ status' = [status EXCEPT ![j] = "REJECTED"]
        /\ Move(Owner[j], "CREDIT", Ref("redemption-refund", j), coins[j])
        /\ coins' = coins
        /\ status \in [Ids -> Statuses]
        BY <1>6 DEF Reject, CanReject, TypeOK
  <2>2. CASE j = i
    <3>1. PICK u \in Users, c \in Coins : u = Owner[i] /\ c = coins[i]
          BY <1>2
    <3>2. /\ Move(u, "CREDIT", Ref("redemption-refund", i), c)
          /\ coins'[i] = c
          /\ PostedAs(Ref("redemption", i), u, "DEBIT", c)
          BY <1>1, <2>1, <2>2, <3>1 DEF Escrow
    <3>3. PostedAs(Ref("redemption-refund", i), u, "CREDIT", c)'
          BY <1>2, <3>2, MovePosts DEF Ledger!EntryTypes
    <3>4. PostedAs(Ref("redemption", i), u, "DEBIT", c)'
      <4>1. \A r \in Refs, v \in Users, t \in Ledger!EntryTypes, b \in Coins :
                PostedAs(r, v, t, b) => PostedAs(r, v, t, b)'
            BY <1>2, <3>2, MovePosts DEF Ledger!EntryTypes
      <4>2. QED BY <1>2, <3>2, <4>1 DEF Ledger!EntryTypes
    <3>5. status'[i] = "REJECTED"
          BY <2>1, <2>2
    <3>6. /\ PostedAs(Ref("redemption-refund", i), Owner[i], "CREDIT", coins[i])'
          /\ PostedAs(Ref("redemption", i), Owner[i], "DEBIT", coins[i])'
          BY <3>1, <3>2, <3>3, <3>4 DEF PostedAs
    <3>7. QED BY <3>5, <3>6 DEF Escrow
  <2>3. CASE j # i
    <3>1. /\ Ref("redemption-refund", j) # Ref("redemption", i)
          /\ Ref("redemption-refund", j) # Ref("redemption-refund", i)
          BY <2>3 DEF Ref
    <3>2. status'[i] = status[i] /\ coins'[i] = coins[i]
          BY <2>1, <2>3
    <3>3. Owner[j] \in Users /\ coins[j] \in Coins
          BY FieldTypes
    <3>4. QED BY <1>1, <2>1, <3>1, <3>2, <3>3, EscrowFrame, RefsTypes DEF Ledger!EntryTypes
  <2>4. QED BY <2>2, <2>3
<1>7. CASE Quiet
  <2>1. /\ UNCHANGED <<ledger, coins>>
        /\ status'[i] = "NONE" <=> status[i] = "NONE"
        /\ status'[i] = "REJECTED" <=> status[i] = "REJECTED"
        BY <1>7 DEF Quiet
  <2>2. QED BY <1>3, <2>1
<1>8. QED BY <1>4, <1>5, <1>6, <1>7, StepKinds

\* A review under way keeps its row approved: only UPI rows go back to pending,
\* and only pending rows are rejected.
LEMMA ReviewPreserved ==
    ASSUME TypeOK, RowInv, ReviewInv, [Next]_vars
    PROVE  ReviewInv'
<1> USE DEF TypeOK, ReviewInv, LiveReview, walletVars, rowVars, sessionVars, worldVars
<1>1. ASSUME NEW u \in Users, NEW w \in Rewards, NEW c \in Coins, Earn(u, w, c)
      PROVE  ReviewInv'
      BY <1>1 DEF Earn
<1>2. ASSUME NEW i \in Ids, RequestStep(i)
      PROVE  ReviewInv'
  <2>1. CASE CommitRequest(i)
        BY <2>1 DEF CommitRequest, EndRequest, RowInv
  <2>2. CASE ~CommitRequest(i)
    <3>1. UNCHANGED <<status, method, review, issued>>
          BY <1>2, <2>2 DEF RequestStep, BeginRequest, CheckRequest, RefuseRequest,
                            AbortRequest, EndRequest
    <3>2. QED BY <3>1
  <2>3. QED BY <2>1, <2>2
<1>3. ASSUME NEW i \in Ids, ReviewStep(i)
      PROVE  ReviewInv'
  <2> USE DEF EndReview
  <2>1. ASSUME NEW outcome \in IssueStates, CallProvider(i, outcome)
        PROVE  ReviewInv'
        BY <2>1 DEF CallProvider
  <2>2. CASE ParkRefusal(i)
        BY <2>2 DEF ParkRefusal
  <2>3. CASE SaveVoucher(i)
        BY <2>3 DEF SaveVoucher, WriteFulfilled
  <2>4. CASE SaveConflict(i)
        BY <2>4 DEF SaveConflict
  <2>5. CASE SaveFails(i)
        BY <2>5 DEF SaveFails
  <2>6. CASE SaveUnconfirmed(i)
        BY <2>6 DEF SaveUnconfirmed, WriteFulfilled
  <2>7. CASE ParkVoucher(i)
        BY <2>7 DEF ParkVoucher
  <2>8. CASE ParkFails(i)
        BY <2>8 DEF ParkFails
  <2>9. QED BY <1>3, <2>1, <2>2, <2>3, <2>4, <2>5, <2>6, <2>7, <2>8 DEF ReviewStep
<1>4. ASSUME NEW i \in Ids, CrashReview(i)
      PROVE  ReviewInv'
      BY <1>4 DEF CrashReview, EndReview
<1>5. ASSUME NEW a \in Admins, NEW i \in Ids, AdminStep(a, i)
      PROVE  ReviewInv'
  <2>1. CASE Reject(a, i)
        BY <2>1 DEF Reject, CanReject
  <2>2. ASSUME NEW next \in {"approved", "over"}, Approve(a, i, next)
        PROVE  ReviewInv'
        BY <2>2 DEF Approve, CanApprove
  <2>3. CASE Claim(a, i)
        BY <2>3 DEF Claim, CanClaim
  <2>4. CASE Release(i)
        BY <2>4 DEF Release, CanRelease
  <2>5. CASE PayByUpi(a, i)
        BY <2>5 DEF PayByUpi
  <2>6. CASE MarkPaid(a, i)
        BY <2>6 DEF MarkPaid, CanMarkPaid
  <2>7. CASE Fulfill(a, i)
        BY <2>7 DEF Fulfill, CanFulfill, WriteFulfilled
  <2>8. QED BY <1>5, <2>1, <2>2, <2>3, <2>4, <2>5, <2>6, <2>7 DEF AdminStep
<1>6. CASE UNCHANGED vars
      BY <1>6 DEF vars
<1>7. QED BY <1>1, <1>2, <1>3, <1>4, <1>5, <1>6 DEF Next

\* The initial state satisfies Inv.
LEMMA InvInit == Init => Inv
<1> SUFFICES ASSUME Init PROVE Inv
    OBVIOUS
<1>1. TypeOK
  <2>1. Ledger!TypeOK
        BY DEF Init, Ledger!Init, Ledger!TypeOK
  <2>2. QED
        BY <2>1, ConstantsAssumption
        DEF Init, TypeOK, Statuses, ReviewStates, RequestStates, Vouchers, FailReasons, IssueStates
<1>2. LockInv /\ SeenInv /\ NoOverdraft /\ RowInv
      BY ConstantsAssumption
      DEF Init, LockInv, SeenInv, NoOverdraft, RowInv, InRequest, Ledger!Init
<1>3. EscrowMatchesRow
  <2>1. \A u \in Users : Len(ledger[u]) = 0
        BY DEF Init, Ledger!Init
  <2>2. \A r : ~Ledger!IsPosted(r)
        BY <2>1 DEF Ledger!IsPosted
  <2>3. QED BY <2>2 DEF Init, EscrowMatchesRow
<1>4. ReviewInv
      BY DEF Init, ReviewInv, LiveReview
<1>5. QED BY <1>1, <1>2, <1>3, <1>4 DEF Inv

\* Inv holds in every reachable state.
THEOREM Invariant == Spec => []Inv
<1>1. Inv /\ [Next]_vars => Inv' \/ ~TypeOK'
      BY LockPreserved, SeenPreserved, EscrowPreserved, ReviewPreserved DEF Inv
<1>2. QED BY <1>1, InvInit, TypeCorrect, PTL DEF Spec

\* No interleaving of requests, refunds and earnings overdraws a wallet.
THEOREM NeverOverdrawn == Spec => []NoOverdraft
<1>1. Inv => NoOverdraft
      BY DEF Inv
<1>2. QED BY <1>1, Invariant, PTL

\* The coins of a redemption are taken and given back exactly as its row says.
THEOREM EscrowHolds == Spec => []EscrowMatchesRow
<1>1. Inv => EscrowMatchesRow
      BY DEF Inv
<1>2. QED BY <1>1, Invariant, PTL

\* A voucher the provider issued is never paid for with refunded coins.
THEOREM NoRefundAfterIssue == Spec => []IssuedIsNotRefunded
<1>1. Inv => IssuedIsNotRefunded
      BY DEF Inv, ReviewInv, IssuedIsNotRefunded
<1>2. QED BY <1>1, Invariant, PTL

-------------------------------------------------------------------------------

\* Redemptions implement the abstract ledger: a step posts a fresh event to a
\* wallet or leaves every wallet alone.
THEOREM Implementation == Spec => LedgerSpec
<1>1. Init => Ledger!Init
      BY DEF Init
<1>2. Inv /\ [Next]_vars => [Ledger!Next]_(Ledger!ledgerVars)
  <2> SUFFICES ASSUME Inv, [Next]_vars
               PROVE  [Ledger!Next]_(Ledger!ledgerVars)
      OBVIOUS
  <2> USE DEF Inv
  <2>1. ASSUME NEW u \in Users, NEW type \in Ledger!EntryTypes, NEW ref \in Refs,
               NEW amount \in Coins, ~Ledger!IsPosted(ref), Move(u, type, ref, amount)
        PROVE  Ledger!Next
    <3>1. Ledger!Post(u, type, ref, amount)
          BY <2>1 DEF Move, Ledger!Post, Ledger!Fresh
    <3>2. QED BY <3>1 DEF Ledger!Next
  <2>2. ASSUME NEW u \in Users, NEW w \in Rewards, NEW c \in Coins, Earn(u, w, c)
        PROVE  Ledger!Next
        BY <2>1, <2>2, RefsTypes DEF Earn, Ledger!EntryTypes
  <2>3. ASSUME NEW i \in Ids, RequestStep(i)
        PROVE  [Ledger!Next]_(Ledger!ledgerVars)
    <3>1. CASE CommitRequest(i)
      <4>1. status[i] = "NONE"
            BY <3>1 DEF CommitRequest, RowInv
      <4>2. ~Ledger!IsPosted(Ref("redemption", i))
            BY <4>1 DEF EscrowMatchesRow
      <4>3. Move(Owner[i], "DEBIT", Ref("redemption", i), coins[i])
            BY <3>1 DEF CommitRequest
      <4>4. QED BY <2>1, <4>2, <4>3, FieldTypes, RefsTypes DEF Ledger!EntryTypes
    <3>2. CASE ~CommitRequest(i)
          BY <2>3, <3>2 DEF RequestStep, BeginRequest, CheckRequest, RefuseRequest, AbortRequest,
                            walletVars, Ledger!ledgerVars
    <3>3. QED BY <3>1, <3>2
  <2>4. ASSUME NEW a \in Admins, NEW i \in Ids, Reject(a, i)
        PROVE  Ledger!Next
    <3>1. status[i] = "PENDING"
          BY <2>4 DEF Reject, CanReject
    <3>2. ~Ledger!IsPosted(Ref("redemption-refund", i))
          BY <3>1 DEF EscrowMatchesRow
    <3>3. Move(Owner[i], "CREDIT", Ref("redemption-refund", i), coins[i])
          BY <2>4 DEF Reject
    <3>4. QED BY <2>1, <3>2, <3>3, FieldTypes, RefsTypes DEF Ledger!EntryTypes
  <2>5. CASE Quiet
        BY <2>5 DEF Quiet, Ledger!ledgerVars
  <2>6. QED BY <2>2, <2>3, <2>4, <2>5, StepKinds
<1>3. QED BY <1>1, <1>2, Invariant, PTL DEF Spec, LedgerSpec, Ledger!Spec

-------------------------------------------------------------------------------

\* The pending count a transaction made under the wallet lock stays right until
\* it commits, but for UPI claims that are released.
PendingInv ==
    /\ OnePendingVoucher
    /\ \A i, j \in Ids :
          request[i] = "checked" /\ Waiting(j) /\ Owner[i] = Owner[j] => method[j] = "UPI"

\* Where UPI is not involved a user has one request waiting at a time.
THEOREM OnePendingVouchers == Spec => []OnePendingVoucher
<1>1. Init => PendingInv
      BY DEF Init, PendingInv, OnePendingVoucher, Waiting
<1>2. Inv /\ PendingInv /\ [Next]_vars => PendingInv'
  <2> SUFFICES ASSUME Inv, PendingInv, [Next]_vars
               PROVE  PendingInv'
      OBVIOUS
  <2> USE DEF Inv, TypeOK, PendingInv, OnePendingVoucher, Waiting
  <2>1. ASSUME UNCHANGED <<request, method>>,
               \A i \in Ids : status'[i] = "PENDING" => status[i] = "PENDING"
        PROVE  PendingInv'
        BY <2>1
  <2>2. ASSUME NEW u \in Users, NEW w \in Rewards, NEW c \in Coins, Earn(u, w, c)
        PROVE  PendingInv'
        BY <2>1, <2>2 DEF Earn, rowVars, sessionVars
  <2>3. ASSUME NEW i \in Ids, RequestStep(i)
        PROVE  PendingInv'
    <3>1. CASE BeginRequest(i)
          BY <3>1 DEF BeginRequest, rowVars
    <3>2. CASE CheckRequest(i)
          BY <3>2 DEF CheckRequest, CanRequest, HasPending, rowVars
    <3>3. CASE RefuseRequest(i)
          BY <3>3 DEF RefuseRequest, EndRequest, rowVars
    <3>4. CASE CommitRequest(i)
      <4>1. /\ request[i] = "checked"
            /\ request' = [request EXCEPT ![i] = "over"]
            /\ status' = [status EXCEPT ![i] = "PENDING"]
            /\ method' = method
            BY <3>4 DEF CommitRequest, EndRequest
      <4>2. \A j \in Ids : j # i /\ request[j] = "checked" => Owner[j] # Owner[i]
            BY <4>1 DEF LockInv, InRequest
      <4>3. QED BY <4>1, <4>2
    <3>5. CASE AbortRequest(i)
          BY <3>5 DEF AbortRequest, EndRequest, rowVars
    <3>6. QED BY <2>3, <3>1, <3>2, <3>3, <3>4, <3>5 DEF RequestStep
  <2>4. ASSUME NEW a \in Admins, NEW i \in Ids, Reject(a, i)
        PROVE  PendingInv'
        BY <2>1, <2>4 DEF Reject, sessionVars
  <2>5. CASE Quiet
        BY <2>5 DEF Quiet
  <2>6. QED BY <2>2, <2>3, <2>4, <2>5, StepKinds
<1>3. PendingInv => OnePendingVoucher
      BY DEF PendingInv
<1>4. QED BY <1>1, <1>2, <1>3, Invariant, PTL DEF Spec
-------------------------------------------------------------------------------

\* A review whose provider call threw holds no voucher, and one that has not called yet
\* neither, so the catch of the first error loses none.
RefusedInv ==
    \A i \in Ids : review[i] = "refused" => issued[i] # "returned"

\* Only a review's own steps change it or the provider's answer; an approval makes one.
LEMMA ReviewFrame ==
    ASSUME TypeOK, ReviewInv, RowInv, [Next]_vars,
           \A i \in Ids : ~ReviewStep(i)
    PROVE  /\ issued' = issued
           /\ \A j \in Ids : \/ review'[j] = review[j]
                             \/ review[j] \notin LiveReview /\ review'[j] \in {"approved", "over"}
                             \/ review'[j] = "crashed"
<1> USE DEF TypeOK, walletVars, rowVars, sessionVars, worldVars
<1>1. ASSUME NEW u \in Users, NEW w \in Rewards, NEW c \in Coins, Earn(u, w, c)
      PROVE  UNCHANGED <<issued, review>>
      BY <1>1 DEF Earn
<1>2. ASSUME NEW i \in Ids, RequestStep(i)
      PROVE  UNCHANGED <<issued, review>>
      BY <1>2 DEF RequestStep, BeginRequest, CheckRequest, RefuseRequest, CommitRequest,
                  AbortRequest, EndRequest
<1>3. ASSUME NEW i \in Ids, CrashReview(i)
      PROVE  issued' = issued /\ review' = [review EXCEPT ![i] = "crashed"]
      BY <1>3 DEF CrashReview, EndReview
<1>4. ASSUME NEW a \in Admins, NEW i \in Ids, AdminStep(a, i)
      PROVE  \/ UNCHANGED <<issued, review>>
             \/ /\ issued' = issued /\ status[i] = "PENDING"
                /\ \E next \in {"approved", "over"} : review' = [review EXCEPT ![i] = next]
      BY <1>4 DEF AdminStep, Reject, Approve, CanApprove, Claim, Release, PayByUpi, MarkPaid, Fulfill
<1>5. CASE UNCHANGED vars
      BY <1>5 DEF vars
<1>6. ASSUME NEW i \in Ids, status[i] = "PENDING"
      PROVE  review[i] \notin LiveReview
      BY <1>6 DEF ReviewInv
<1>7. QED BY <1>1, <1>2, <1>3, <1>4, <1>5, <1>6 DEF Next

LEMMA RefusedPreserved ==
    ASSUME Inv, RefusedInv, [Next]_vars
    PROVE  RefusedInv'
<1> USE DEF RefusedInv, worldVars, rowVars
<1>1. review \in [Ids -> ReviewStates] /\ issued \in [Ids -> IssueStates]
      BY DEF Inv, TypeOK
<1>2. ASSUME NEW i \in Ids, ReviewStep(i)
      PROVE  RefusedInv'
  <2>1. ASSUME NEW outcome \in IssueStates, CallProvider(i, outcome)
        PROVE  RefusedInv'
        BY <1>1, <2>1 DEF CallProvider, EndReview
  <2>2. ASSUME NEW end \in {"over", "unsaved", "lost"}, EndReview(i, end), issued' = issued
        PROVE  RefusedInv'
        BY <1>1, <2>2 DEF EndReview
  <2>3. QED BY <1>2, <2>1, <2>2
            DEF ReviewStep, ParkRefusal, SaveVoucher, SaveConflict, SaveFails, SaveUnconfirmed,
                ParkVoucher, ParkFails
<1>3. CASE \A i \in Ids : ~ReviewStep(i)
  <2>1. /\ issued' = issued
        /\ \A j \in Ids : review'[j] = "refused" => review[j] = "refused"
        BY <1>3, ReviewFrame DEF Inv, LiveReview
  <2>2. QED BY <2>1
<1>4. QED BY <1>2, <1>3

\* A review ends without a word only when it had no voucher, or the database failed
\* too: what a voucher was issued for is on the row, or the note that asks for
\* reconciliation (the two catches of review()).
LEMMA RecordedStep ==
    ASSUME Inv, RefusedInv, [Next]_vars, NEW i \in Ids,
           issued[i] = "returned", review[i] \in LiveReview, review'[i] \in {"over", "lost"},
           dbFailures' = dbFailures
    PROVE  voucher'[i] = "provider" \/ failReason'[i] = "reconcile"
<1> USE DEF worldVars, rowVars
<1>1. /\ review \in [Ids -> ReviewStates] /\ failReason \in [Ids -> FailReasons]
      /\ voucher \in [Ids -> Vouchers] /\ dbFailures \in Int
      BY DEF Inv, TypeOK
<1>2. review[i] # "refused" /\ status[i] \in {"APPROVED", "FULFILLED"}
      BY DEF RefusedInv, Inv, ReviewInv
<1>3. PICK j \in Ids : ReviewStep(j)
      BY ReviewFrame DEF Inv, LiveReview
<1>4. ASSUME NEW end, EndReview(j, end)
      PROVE  j = i /\ review'[i] = end
      BY <1>1, <1>4 DEF EndReview, LiveReview
<1>5. ASSUME NEW outcome \in IssueStates, CallProvider(j, outcome)
      PROVE  FALSE
      BY <1>4, <1>5 DEF CallProvider
<1>6. ~ParkRefusal(j) /\ ~SaveConflict(j) /\ ~SaveFails(j) /\ ~SaveUnconfirmed(j)
      BY <1>2, <1>4 DEF ParkRefusal, SaveConflict, SaveFails, SaveUnconfirmed
<1>7. CASE SaveVoucher(j)
      BY <1>1, <1>4, <1>7 DEF SaveVoucher, WriteFulfilled
<1>8. CASE ParkVoucher(j)
      BY <1>1, <1>4, <1>8 DEF ParkVoucher
<1>9. CASE ParkFails(j)
  <2>1. j = i
        BY <1>4, <1>9 DEF ParkFails
  <2>2. CanPark(j)
        BY <1>2, <2>1 DEF CanPark
  <2>3. dbFailures' = dbFailures + 1
        BY <1>9, <2>2 DEF ParkFails, DbFails
  <2>4. QED BY <1>1, <2>3
<1>10. QED BY <1>3, <1>5, <1>6, <1>7, <1>8, <1>9 DEF ReviewStep

\* A review that was given a voucher ends with it on the row, or with the note that asks
\* for reconciliation, unless the database failed or the process died.
THEOREM IssuedAlwaysRecorded == Spec => IssuedIsRecorded
<1>1. Init => RefusedInv
      BY DEF Init, RefusedInv
<1>2. Inv /\ RefusedInv /\ [Next]_vars => RefusedInv'
      BY RefusedPreserved
<1>3. Inv /\ RefusedInv /\ [Next]_vars =>
        [\A i \in Ids :
            /\ issued[i] = "returned" /\ review[i] \in LiveReview
            /\ review'[i] \in {"over", "lost"}
            /\ dbFailures' = dbFailures
            => voucher'[i] = "provider" \/ failReason'[i] = "reconcile"]_vars
      BY RecordedStep
<1>4. QED BY <1>1, <1>2, <1>3, Invariant, PTL DEF Spec, IssuedIsRecorded
===============================================================================
