-------------------------- MODULE CoinPurchasesProofs --------------------------
(***************************************************************************)
(* What holds of CoinPurchases for every set of users, orders, payments    *)
(* and sessions.  CoinsForMoney is inductive together with TargetInv: a    *)
(* session about to complete a purchase holds a payment that Razorpay      *)
(* captured, and a captured payment stays captured.                        *)
(***************************************************************************)
EXTENDS CoinPurchases, FiniteSetTheorems, TLAPS

Busy(s) == step[s] \in {"lookup", "capture", "complete"}

TargetInv ==
    \A s \in Sessions :
        /\ Busy(s) => target[s] \in Payments
        /\ step[s] = "complete" => payment[target[s]] = "captured"

-------------------------------------------------------------------------------

\* Crediting order o makes it posted and leaves every other order as it was.
LEMMA MovePosts ==
    ASSUME TypeOK, NEW o \in Orders, Ledger!Move(Owner[o], "CREDIT", o, Coins[o])
    PROVE  /\ Ledger!TypeOK'
           /\ Ledger!IsPosted(o)'
           /\ \A q \in Orders : q # o => (Ledger!IsPosted(q) <=> Ledger!IsPosted(q)')
<1> DEFINE u == Owner[o]
           after == balance[u] + Coins[o]
           entry == [type |-> "CREDIT", ref |-> o, amount |-> Coins[o], balanceAfter |-> after]
<1>1. balance \in [Users -> Int] /\ ledger \in [Users -> Seq(Ledger!Entry)]
      BY DEF TypeOK, Ledger!TypeOK
<1>2. u \in Users /\ Coins[o] \in Int /\ Coins[o] \in Amounts
      BY ConstantsAssumption DEF Amounts
<1>3. after \in Int /\ entry \in Ledger!Entry
      BY <1>1, <1>2 DEF Ledger!Entry, Ledger!EntryTypes
<1>4. balance' = [balance EXCEPT ![u] = after] /\ ledger' = [ledger EXCEPT ![u] = Append(@, entry)]
      BY DEF Ledger!Move
<1>5. Ledger!TypeOK'
      BY <1>1, <1>2, <1>3, <1>4 DEF Ledger!TypeOK
<1>6. /\ Len(ledger'[u]) = Len(ledger[u]) + 1
      /\ ledger'[u][Len(ledger[u]) + 1] = entry
      /\ \A k \in 1..Len(ledger[u]) : ledger'[u][k] = ledger[u][k]
      /\ Len(ledger[u]) \in Nat
      BY <1>1, <1>2, <1>3, <1>4
<1>7. \A v \in Users : v # u => ledger'[v] = ledger[v]
      BY <1>1, <1>4
<1>8. Ledger!IsPosted(o)'
  <2>1. Len(ledger[u]) + 1 \in 1..Len(ledger'[u])
        BY <1>6
  <2>2. QED BY <2>1, <1>2, <1>6 DEF Ledger!IsPosted
<1>9. \A q \in Orders : q # o => (Ledger!IsPosted(q) <=> Ledger!IsPosted(q)')
  <2> SUFFICES ASSUME NEW q \in Orders, q # o
               PROVE  Ledger!IsPosted(q) <=> Ledger!IsPosted(q)'
      OBVIOUS
  <2>1. ASSUME NEW v \in Users, NEW k \in 1..Len(ledger[v]), ledger[v][k].ref = q
        PROVE  Ledger!IsPosted(q)'
        BY <2>1, <1>6, <1>7 DEF Ledger!IsPosted
  <2>2. ASSUME NEW v \in Users, NEW k \in 1..Len(ledger'[v]), ledger'[v][k].ref = q
        PROVE  Ledger!IsPosted(q)
    <3>1. CASE v # u
          BY <2>2, <3>1, <1>7 DEF Ledger!IsPosted
    <3>2. CASE v = u
      <4>1. k # Len(ledger[u]) + 1
            BY <2>2, <3>2, <1>6
      <4>2. k \in 1..Len(ledger[u])
            BY <2>2, <3>2, <4>1, <1>6
      <4>3. ledger[u][k].ref = q
            BY <2>2, <3>2, <4>2, <1>6
      <4>4. QED BY <4>2, <4>3, <1>2 DEF Ledger!IsPosted
    <3>3. QED BY <3>1, <3>2
  <2>3. QED BY <2>1, <2>2 DEF Ledger!IsPosted
<1>10. QED BY <1>5, <1>8, <1>9

\* The steps of a session that credit nothing.
Quiet ==
    \/ Outside
    \/ \E s \in Sessions, p \in Payments : BeginVerify(s, p)
    \/ \E s \in Sessions : BeginReconcile(s)
    \/ \E s \in Sessions :
          \/ Lookup(s)
          \/ \E p \in Payments : Scan(s, p)
          \/ \E o \in Orders : ScanNothing(s, o)
          \/ Capture(s)
          \/ CaptureRefused(s)
          \/ CompleteNothing(s)
          \/ CaptureUnanswered(s)
          \/ Fail(s)
          \/ Crash(s)
    \/ UNCHANGED vars

LEMMA StepKinds == [Next]_vars => Quiet \/ \E s \in Sessions : Complete(s)
    BY DEF Next, Run, Quiet

LEMMA QuietWallets == Quiet => UNCHANGED <<balance, ledger, row, paidBy>> \/ \E o \in Orders : CreateOrder(o)
    BY DEF Quiet, Outside, Age, Pay, AutoCapture, Expire, SetPayment, BeginVerify, BeginReconcile,
           Lookup, Finish, Goto, Scan, ScanNothing, Capture, CaptureRefused, CompleteNothing,
           CaptureUnanswered, Fail, Crash, vars, walletVars, rowVars

-------------------------------------------------------------------------------

\* What a session's status check leads to.
LEMMA AfterTypes ==
    \A status \in PaymentStates :
        /\ AfterStatus(status) \in {"idle", "capture", "complete"}
        /\ AfterStatus(status) = "complete" => status = "captured"
        /\ status \in {"authorized", "captured"} => AfterStatus(status) # "idle"
    BY DEF AfterStatus, PaymentStates

\* createdAt is a number: orders are finitely many.
LEMMA CountType == Cardinality({q \in Orders : row[q] # "NONE"}) + 1 \in Nat
<1>1. IsFiniteSet({q \in Orders : row[q] # "NONE"})
      BY ConstantsAssumption, FS_Subset
<1>2. QED BY <1>1, FS_CardinalityType

\* Type correctness, and every session about to complete holds a captured payment.
THEOREM TypeCorrect == Spec => [](TypeOK /\ TargetInv)
<1> DEFINE I == TypeOK /\ TargetInv
<1>1. Init => I
  <2> SUFFICES ASSUME Init PROVE I
      OBVIOUS
  <2>1. Ledger!TypeOK
        BY DEF Init, Ledger!Init, Ledger!TypeOK
  <2>2. QED
        BY <2>1, ConstantsAssumption
        DEF Init, TypeOK, TargetInv, Busy, RowStates, PaymentStates, Steps
<1>2. I /\ [Next]_vars => I'
  <2> SUFFICES ASSUME TypeOK, TargetInv, [Next]_vars PROVE I'
      OBVIOUS
  <2> USE ConstantsAssumption
      DEF TypeOK, TargetInv, Busy, RowStates, PaymentStates, Steps, walletVars, rowVars,
          sessionVars
  <2>1. CASE Outside
    <3> USE DEF Ledger!TypeOK
    <3>1. ASSUME NEW o \in Orders, CreateOrder(o) PROVE I'
          BY <3>1, CountType DEF CreateOrder
    <3>2. ASSUME NEW o \in Orders, Age(o) PROVE I'
          BY <3>2 DEF Age
    <3>3. ASSUME NEW p \in Payments, Pay(p) PROVE I'
          BY <3>3 DEF Pay, SetPayment
    <3>4. ASSUME NEW p \in Payments, AutoCapture(p) PROVE I'
          BY <3>4 DEF AutoCapture, SetPayment
    <3>5. ASSUME NEW p \in Payments, Expire(p) PROVE I'
          BY <3>5 DEF Expire, SetPayment
    <3>6. QED BY <2>1, <3>1, <3>2, <3>3, <3>4, <3>5 DEF Outside
  <2>2. ASSUME NEW s \in Sessions, NEW p \in Payments, BeginVerify(s, p)
        PROVE  I'
        BY <2>2 DEF BeginVerify, Ledger!TypeOK
  <2>3. ASSUME NEW s \in Sessions, BeginReconcile(s)
        PROVE  I'
    <3>1. Listed \subseteq Orders
          BY DEF Listed
    <3>2. QED BY <2>3, <3>1 DEF BeginReconcile, Ledger!TypeOK
  <2>4. ASSUME NEW s \in Sessions, Run(s)
        PROVE  I'
    <3>1. CASE Lookup(s)
      <4>1. payment[target[s]] \in PaymentStates
            BY <3>1 DEF Lookup
      <4>2. PICK next \in {"idle", "capture", "complete"} :
               /\ next = AfterStatus(payment[target[s]])
               /\ next = "complete" => payment[target[s]] = "captured"
            BY <4>1, AfterTypes
      <4>3. UNCHANGED <<walletVars, rowVars, payment, failures>> /\ step[s] = "lookup"
            BY <3>1 DEF Lookup
      <4>4. CASE next = "idle"
        <5>1. Finish(s)
              BY <3>1, <4>2, <4>4 DEF Lookup
        <5>2. QED BY <5>1, <4>3 DEF Finish, Ledger!TypeOK
      <4>5. CASE next # "idle"
        <5>1. step' = [step EXCEPT ![s] = next] /\ UNCHANGED <<target, todo>>
              BY <3>1, <4>2, <4>5 DEF Lookup, Goto
        <5>2. next \in {"capture", "complete"}
              BY <4>2, <4>5
        <5>3. QED BY <5>1, <5>2, <4>2, <4>3 DEF Ledger!TypeOK
      <4>6. QED BY <4>4, <4>5
    <3>2. ASSUME NEW p \in Payments, Scan(s, p) PROVE I'
      <4>1. payment[p] \in {"authorized", "captured"}
            BY <3>2 DEF Scan, Candidates, OfOrder
      <4>2. AfterStatus(payment[p]) \in {"capture", "complete"}
            /\ (AfterStatus(payment[p]) = "complete" => payment[p] = "captured")
            BY <4>1, AfterTypes
      <4>3. QED BY <3>2, <4>2 DEF Scan, Ledger!TypeOK
    <3>3. ASSUME NEW o \in Orders, ScanNothing(s, o) PROVE I'
      <4>1. o \in todo[s]
            BY <3>3 DEF ScanNothing, IsNext
      <4>2. todo[s] # {o} => (todo[s] \ {o}) # {}
            BY <4>1
      <4>3. QED BY <3>3, <4>2 DEF ScanNothing, Ledger!TypeOK
    <3>4. CASE Capture(s)
          BY <3>4 DEF Capture, Goto, Ledger!TypeOK
    <3>5. CASE CaptureRefused(s)
          BY <3>5 DEF CaptureRefused, Finish, Ledger!TypeOK
    <3>6. CASE Complete(s)
      <4>1. target[s] \in Payments /\ Order[target[s]] \in Orders
            BY <3>6 DEF Complete
      <4>2. Ledger!Move(Owner[Order[target[s]]], "CREDIT", Order[target[s]], Coins[Order[target[s]]])
            BY <3>6 DEF Complete
      <4>3. Ledger!TypeOK'
            BY <4>1, <4>2, MovePosts
      <4>4. QED BY <3>6, <4>1, <4>3 DEF Complete, Finish
    <3>7. CASE CompleteNothing(s)
          BY <3>7 DEF CompleteNothing, Finish, Ledger!TypeOK
    <3>8. QED BY <2>4, <3>1, <3>2, <3>3, <3>4, <3>5, <3>6, <3>7 DEF Run
  <2>5. ASSUME NEW s \in Sessions, CaptureUnanswered(s)
        PROVE  I'
        BY <2>5 DEF CaptureUnanswered, Finish, Fails, Ledger!TypeOK
  <2>6. ASSUME NEW s \in Sessions, Fail(s)
        PROVE  I'
        BY <2>6 DEF Fail, Finish, Fails, Ledger!TypeOK
  <2>7. ASSUME NEW s \in Sessions, Crash(s)
        PROVE  I'
        BY <2>7 DEF Crash, Fails, Ledger!TypeOK
  <2>8. CASE UNCHANGED vars
        BY <2>8 DEF vars, Ledger!TypeOK
  <2>9. QED BY <2>1, <2>2, <2>3, <2>4, <2>5, <2>6, <2>7, <2>8 DEF Next
<1>3. QED BY <1>1, <1>2, PTL DEF Spec

-------------------------------------------------------------------------------

\* A captured payment stays captured.
LEMMA CapturedStays ==
    ASSUME [Next]_vars, TypeOK
    PROVE  \A p \in Payments : payment[p] = "captured" => payment'[p] = "captured"
<1> USE DEF TypeOK, Finish, Goto, walletVars, rowVars, sessionVars
<1>1. CASE Outside
      BY <1>1 DEF Outside, CreateOrder, Age, Pay, AutoCapture, MayCapture, Expire, SetPayment
<1>2. ASSUME NEW s \in Sessions, NEW p \in Payments, BeginVerify(s, p)
      PROVE  payment' = payment
      BY <1>2 DEF BeginVerify
<1>3. ASSUME NEW s \in Sessions, BeginReconcile(s) PROVE payment' = payment
      BY <1>3 DEF BeginReconcile
<1>4. ASSUME NEW s \in Sessions, Run(s)
      PROVE  payment' = payment \/ payment' = [payment EXCEPT ![target[s]] = "captured"]
      BY <1>4 DEF Run, Lookup, Scan, ScanNothing, Capture, CaptureRefused, Complete, CompleteNothing
<1>5. ASSUME NEW s \in Sessions, CaptureUnanswered(s) \/ Fail(s) \/ Crash(s)
      PROVE  payment' = payment \/ payment' = [payment EXCEPT ![target[s]] = "captured"]
      BY <1>5 DEF CaptureUnanswered, Fail, Crash
<1>6. CASE UNCHANGED vars
      BY <1>6 DEF vars
<1>7. QED BY <1>1, <1>2, <1>3, <1>4, <1>5, <1>6 DEF Next

\* Coins are given once per purchase and only for a captured payment of its
\* order: the guard of completePurchase, and the status checked before it.
THEOREM Invariant == Spec => []CoinsForMoney
<1>1. Init => CoinsForMoney
      BY DEF Init, Ledger!Init, Ledger!IsPosted, CoinsForMoney
<1>2. TypeOK /\ TargetInv /\ CoinsForMoney /\ [Next]_vars => CoinsForMoney'
  <2> SUFFICES ASSUME TypeOK, TargetInv, CoinsForMoney, [Next]_vars PROVE CoinsForMoney'
      OBVIOUS
  <2>1. CASE Quiet
    <3>1. CASE UNCHANGED <<balance, ledger, row, paidBy>>
      <4>1. \A q \in Orders : Ledger!IsPosted(q)' <=> Ledger!IsPosted(q)
            BY <3>1 DEF Ledger!IsPosted
      <4>2. QED BY <3>1, <4>1, CapturedStays DEF CoinsForMoney
    <3>2. ASSUME NEW o \in Orders, CreateOrder(o)
          PROVE  CoinsForMoney'
          BY <3>2 DEF CreateOrder, CoinsForMoney, Ledger!IsPosted, walletVars, TypeOK
    <3>3. QED BY <2>1, <3>1, <3>2, QuietWallets
  <2>2. ASSUME NEW s \in Sessions, Complete(s)
        PROVE  CoinsForMoney'
    <3>1. PICK p \in Payments : p = target[s] /\ payment[p] = "captured"
          BY <2>2 DEF Complete, TargetInv, Busy
    <3>2. PICK o \in Orders : o = Order[p]
          BY ConstantsAssumption
    <3>3. Ledger!IsPosted(o)' /\ \A q \in Orders : q # o => (Ledger!IsPosted(q) <=> Ledger!IsPosted(q)')
      <4>1. Ledger!Move(Owner[o], "CREDIT", o, Coins[o])
            BY <2>2, <3>1, <3>2 DEF Complete
      <4>2. QED BY <4>1, MovePosts
    <3>4. /\ row' = [row EXCEPT ![o] = "CAPTURED"]
          /\ paidBy' = [paidBy EXCEPT ![o] = p]
          /\ payment' = payment
          BY <2>2, <3>1, <3>2 DEF Complete
    <3>5. row \in [Orders -> RowStates] /\ paidBy \in [Orders -> Payments \cup {NoPayment}]
          BY DEF TypeOK
    <3>6. ASSUME NEW q \in Orders
          PROVE  /\ Ledger!IsPosted(q)' <=> row'[q] = "CAPTURED"
                 /\ row'[q] = "CAPTURED" =>
                      /\ paidBy'[q] \in Payments
                      /\ Order[paidBy'[q]] = q
                      /\ payment'[paidBy'[q]] = "captured"
      <4>1. CASE q = o
            BY <4>1, <3>1, <3>2, <3>3, <3>4, <3>5
      <4>2. CASE q # o
            BY <4>2, <3>3, <3>4, <3>5 DEF CoinsForMoney
      <4>3. QED BY <4>1, <4>2
    <3>7. QED BY <3>6 DEF CoinsForMoney
  <2>3. QED BY <2>1, <2>2, StepKinds
<1>3. QED BY <1>1, <1>2, TypeCorrect, PTL DEF Spec

\* The purchases implement the abstract ledger.
THEOREM Implementation == Spec => LedgerSpec
<1>1. Init => Ledger!Init
      BY DEF Init
<1>2. TypeOK /\ TargetInv /\ CoinsForMoney /\ [Next]_vars => [Ledger!Next]_(Ledger!ledgerVars)
  <2> SUFFICES ASSUME TypeOK, TargetInv, CoinsForMoney, [Next]_vars
               PROVE  [Ledger!Next]_(Ledger!ledgerVars)
      OBVIOUS
  <2>1. CASE Quiet
        BY <2>1, QuietWallets DEF CreateOrder, walletVars, Ledger!ledgerVars
  <2>2. ASSUME NEW s \in Sessions, Complete(s)
        PROVE  Ledger!Next
    <3> DEFINE o == Order[target[s]]
    <3>1. target[s] \in Payments /\ o \in Orders
          BY <2>2, ConstantsAssumption DEF Complete, TargetInv, Busy
    <3>2. ~Ledger!IsPosted(o)
          BY <2>2, <3>1 DEF Complete, CanClaim, CoinsForMoney
    <3>3. Ledger!Move(Owner[o], "CREDIT", o, Coins[o])
          BY <2>2 DEF Complete
    <3>4. Owner[o] \in Users /\ Coins[o] \in Amounts
          BY <3>1, ConstantsAssumption DEF Amounts
    <3>5. Ledger!Post(Owner[o], "CREDIT", o, Coins[o])
          BY <3>2, <3>3 DEF Ledger!Post, Ledger!Fresh
    <3>6. QED BY <3>1, <3>4, <3>5 DEF Ledger!Next, Ledger!EntryTypes
  <2>3. QED BY <2>1, <2>2, StepKinds
<1>3. QED BY <1>1, <1>2, TypeCorrect, Invariant, PTL DEF Spec, LedgerSpec, Ledger!Spec
===============================================================================
