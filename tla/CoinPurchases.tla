----------------------------- MODULE CoinPurchases -----------------------------
(***************************************************************************)
(* Buying coins through Razorpay (coin-purchase.service.ts).               *)
(*                                                                         *)
(* verify() and reconcile() run the same chain for one payment of an       *)
(* order: look it up, capture it if it is only authorized, then mark the   *)
(* purchase and credit the coins in one transaction.  Between two calls to *)
(* Razorpay anything may happen: another session handles the same payment, *)
(* a reply is lost, the process dies.  reconcile() repeats the chain for   *)
(* every open purchase of the user, newest first.                          *)
(***************************************************************************)
EXTENDS Integers, Sequences, FiniteSets

CONSTANTS
    Users, Orders, Payments,
    Owner,          \* Owner[o]: the user who created order o
    Coins,          \* Coins[o]: coins of the purchase
    Order,          \* Order[p]: the order payment p is for
    Verifiers,      \* sessions that run verify()
    Reconcilers,    \* sessions that run reconcile()
    Take,           \* open purchases one reconcile() looks at (10 in the code)
    Single,         \* the orders with one live payment at a time
    NoPayment,
    MaxFailures     \* bound: provider replies lost and sessions cut off

Sessions == Verifiers \cup Reconcilers

ASSUME ConstantsAssumption ==
    /\ IsFiniteSet(Orders)
    /\ Owner \in [Orders -> Users]
    /\ Coins \in [Orders -> Nat]
    /\ Order \in [Payments -> Orders]
    /\ Verifiers \cap Reconcilers = {}
    /\ Take \in Nat
    /\ Single \subseteq Orders
    /\ NoPayment \notin Payments
    /\ MaxFailures \in Nat

VARIABLES
    balance, ledger,   \* wallets, wallet_transactions
    row, paidBy,       \* coin_purchases: status and razorpayPaymentId
    createdAt,         \* when the row was created: 1 for the oldest
    old,               \* rows more than seven days old
    payment,           \* status of each payment at Razorpay
    step,              \* progress of each session
    target,            \* the payment a session is working on
    todo,              \* the orders a reconcile() has still to look at
    failures

walletVars == <<balance, ledger>>
rowVars == <<row, paidBy, createdAt, old>>
sessionVars == <<step, target, todo>>
vars == <<walletVars, rowVars, payment, sessionVars, failures>>

Amounts == {Coins[o] : o \in Orders}

Ledger == INSTANCE WalletLedger WITH Refs <- Orders

RowStates == {"NONE", "CREATED", "CAPTURED"}
PaymentStates == {"none", "authorized", "captured", "failed"}
Steps == {"idle", "scan", "lookup", "capture", "complete"}

Init ==
    /\ Ledger!Init
    /\ row = [o \in Orders |-> "NONE"]
    /\ paidBy = [o \in Orders |-> NoPayment]
    /\ createdAt = [o \in Orders |-> 0]
    /\ old = {}
    /\ payment = [p \in Payments |-> "none"]
    /\ step = [s \in Sessions |-> "idle"]
    /\ target = [s \in Sessions |-> NoPayment]
    /\ todo = [s \in Sessions |-> {}]
    /\ failures = 0

-------------------------------------------------------------------------------
\* Orders, and what happens to payments outside the program

\* createOrder: the order is placed at Razorpay, then its row is created and
\* the client learns the order.  Cut off in between, nobody can pay the order.
CreateOrder(o) ==
    /\ row[o] = "NONE"
    /\ row' = [row EXCEPT ![o] = "CREATED"]
    /\ createdAt' = [createdAt EXCEPT ![o] = Cardinality({q \in Orders : row[q] # "NONE"}) + 1]
    /\ UNCHANGED <<walletVars, paidBy, old, payment, sessionVars, failures>>

\* Seven days have passed since the row was created.
Age(o) ==
    /\ row[o] # "NONE"
    /\ old' = old \cup {o}
    /\ UNCHANGED <<walletVars, row, paidBy, createdAt, payment, sessionVars, failures>>

OfOrder(o, states) == {p \in Payments : Order[p] = o /\ payment[p] \in states}

SetPayment(p, status) ==
    /\ payment' = [payment EXCEPT ![p] = status]
    /\ UNCHANGED <<walletVars, rowVars, sessionVars, failures>>

\* Razorpay takes one payment per order.
MayCapture(p) == payment[p] = "authorized" /\ OfOrder(Order[p], {"captured"}) = {}

\* The user completes the checkout.
Pay(p) ==
    /\ payment[p] = "none"
    /\ row[Order[p]] # "NONE"
    /\ OfOrder(Order[p], IF Order[p] \in Single THEN {"authorized", "captured"} ELSE {"captured"}) = {}
    /\ SetPayment(p, "authorized")

\* Razorpay captures by itself, or gives an authorized payment back.
AutoCapture(p) == MayCapture(p) /\ SetPayment(p, "captured")
Expire(p) == payment[p] = "authorized" /\ SetPayment(p, "failed")

-------------------------------------------------------------------------------
\* verify() and reconcile()

\* The end of the chain: the next open purchase, or the end of the call.
Finish(s) ==
    /\ step' = [step EXCEPT ![s] = IF todo[s] = {} THEN "idle" ELSE "scan"]
    /\ target' = [target EXCEPT ![s] = NoPayment]
    /\ UNCHANGED todo

Goto(s, next) == step' = [step EXCEPT ![s] = next] /\ UNCHANGED <<target, todo>>

\* verify(): the row is read; a captured one is answered at once.
BeginVerify(s, p) ==
    /\ s \in Verifiers
    /\ step[s] = "idle"
    /\ payment[p] # "none"
    /\ row[Order[p]] = "CREATED"
    /\ step' = [step EXCEPT ![s] = "lookup"]
    /\ target' = [target EXCEPT ![s] = p]
    /\ UNCHANGED <<todo, walletVars, rowVars, payment, failures>>

\* A mutant of AfterStatus: an authorized payment is as good as a captured one.
AfterStatusEager(status) ==
    IF status \in {"authorized", "captured"} THEN "complete" ELSE "idle"

\* What the chain does next on the status Razorpay reported.
AfterStatus(status) ==
    CASE status = "authorized" -> "capture"
      [] status = "captured" -> "complete"
      [] OTHER -> "idle"

\* verify(): GET /payments/:id.
Lookup(s) ==
    /\ step[s] = "lookup"
    /\ IF AfterStatus(payment[target[s]]) = "idle"
          THEN Finish(s)
          ELSE Goto(s, AfterStatus(payment[target[s]]))
    /\ UNCHANGED <<walletVars, rowVars, payment, failures>>

Open(o) == row[o] = "CREATED" /\ o \notin old

Newer(o) == {q \in Orders : Open(q) /\ createdAt[q] > createdAt[o]}

\* The purchases reconcile() reads: open, not too old, the newest Take of them.
Listed == {o \in Orders : Open(o) /\ Cardinality(Newer(o)) < Take}

BeginReconcile(s) ==
    /\ s \in Reconcilers
    /\ step[s] = "idle"
    /\ Listed # {}
    /\ step' = [step EXCEPT ![s] = "scan"]
    /\ todo' = [todo EXCEPT ![s] = Listed]
    /\ UNCHANGED <<target, walletVars, rowVars, payment, failures>>

\* A mutant of Candidates: payments captured already are left out.
CandidatesAuthorized(o) == OfOrder(o, {"authorized"})

\* The payments reconcile() would take; it takes the first Razorpay lists.
Candidates(o) == OfOrder(o, {"authorized", "captured"})

\* The purchase a reconcile() comes to next.
IsNext(s, o) == o \in todo[s] /\ \A q \in todo[s] : createdAt[q] <= createdAt[o]

\* reconcile(): GET /orders/:id/payments for the next purchase.
Scan(s, p) ==
    /\ step[s] = "scan"
    /\ IsNext(s, Order[p])
    /\ p \in Candidates(Order[p])
    /\ step' = [step EXCEPT ![s] = AfterStatus(payment[p])]
    /\ target' = [target EXCEPT ![s] = p]
    /\ todo' = [todo EXCEPT ![s] = @ \ {Order[p]}]
    /\ UNCHANGED <<walletVars, rowVars, payment, failures>>

\* The purchase has no such payment: on to the next.
ScanNothing(s, o) ==
    /\ step[s] = "scan"
    /\ IsNext(s, o)
    /\ Candidates(o) = {}
    /\ todo' = [todo EXCEPT ![s] = @ \ {o}]
    /\ step' = [step EXCEPT ![s] = IF todo[s] = {o} THEN "idle" ELSE "scan"]
    /\ UNCHANGED <<target, walletVars, rowVars, payment, failures>>

\* POST /payments/:id/capture, answered.
Capture(s) ==
    /\ step[s] = "capture"
    /\ MayCapture(target[s])
    /\ payment' = [payment EXCEPT ![target[s]] = "captured"]
    /\ Goto(s, "complete")
    /\ UNCHANGED <<walletVars, rowVars, failures>>

\* Razorpay refuses: captured by another session, given back, order paid.
CaptureRefused(s) ==
    /\ step[s] = "capture"
    /\ ~MayCapture(target[s])
    /\ Finish(s)
    /\ UNCHANGED <<walletVars, rowVars, payment, failures>>

Fails == failures < MaxFailures /\ failures' = failures + 1

\* The payment is captured and the reply is lost (timeout after 15 s).
CaptureUnanswered(s) ==
    /\ step[s] = "capture"
    /\ MayCapture(target[s])
    /\ payment' = [payment EXCEPT ![target[s]] = "captured"]
    /\ Finish(s)
    /\ Fails
    /\ UNCHANGED <<walletVars, rowVars>>

CanClaim(o) == row[o] = "CREATED"

\* completePurchase: the guarded update and the credit, one transaction.
Complete(s) ==
    LET o == Order[target[s]]
    IN  /\ step[s] = "complete"
        /\ CanClaim(o)
        /\ row' = [row EXCEPT ![o] = "CAPTURED"]
        /\ paidBy' = [paidBy EXCEPT ![o] = target[s]]
        /\ Ledger!Move(Owner[o], "CREDIT", o, Coins[o])
        /\ Finish(s)
        /\ UNCHANGED <<createdAt, old, payment, failures>>

\* Another session completed the purchase: its result is returned.
CompleteNothing(s) ==
    /\ step[s] = "complete"
    /\ ~CanClaim(Order[target[s]])
    /\ Finish(s)
    /\ UNCHANGED <<walletVars, rowVars, payment, failures>>

\* A request to Razorpay or the transaction fails: verify() throws, reconcile()
\* goes on with the next purchase.
Fail(s) ==
    /\ step[s] \in {"lookup", "capture", "complete"}
    /\ Finish(s)
    /\ Fails
    /\ UNCHANGED <<walletVars, rowVars, payment>>

\* The process dies.
Crash(s) ==
    /\ step[s] # "idle"
    /\ step' = [step EXCEPT ![s] = "idle"]
    /\ target' = [target EXCEPT ![s] = NoPayment]
    /\ todo' = [todo EXCEPT ![s] = {}]
    /\ Fails
    /\ UNCHANGED <<walletVars, rowVars, payment>>

-------------------------------------------------------------------------------

Run(s) ==
    \/ Lookup(s)
    \/ \E p \in Payments : Scan(s, p)
    \/ \E o \in Orders : ScanNothing(s, o)
    \/ Capture(s)
    \/ CaptureRefused(s)
    \/ Complete(s)
    \/ CompleteNothing(s)

Outside ==
    \/ \E o \in Orders : CreateOrder(o) \/ Age(o)
    \/ \E p \in Payments : Pay(p) \/ AutoCapture(p) \/ Expire(p)

Next ==
    \/ Outside
    \/ \E s \in Sessions, p \in Payments : BeginVerify(s, p)
    \/ \E s \in Sessions : BeginReconcile(s)
    \/ \E s \in Sessions : Run(s)
    \/ \E s \in Sessions : CaptureUnanswered(s) \/ Fail(s) \/ Crash(s)

Spec == Init /\ [][Next]_vars

\* The event loop runs every call it has begun, and the app keeps asking for
\* recovery while the user has open purchases.
FairSpec == Spec /\ \A s \in Sessions : WF_vars(Run(s)) /\ WF_vars(BeginReconcile(s))

-------------------------------------------------------------------------------
\* Properties

TypeOK ==
    /\ Ledger!TypeOK
    /\ row \in [Orders -> RowStates]
    /\ paidBy \in [Orders -> Payments \cup {NoPayment}]
    /\ createdAt \in [Orders -> Nat]
    /\ old \subseteq Orders
    /\ payment \in [Payments -> PaymentStates]
    /\ step \in [Sessions -> Steps]
    /\ \A s \in Sessions : step[s] = "scan" => todo[s] # {}
    /\ target \in [Sessions -> Payments \cup {NoPayment}]
    /\ todo \in [Sessions -> SUBSET Orders]
    /\ failures \in 0..MaxFailures

\* However verifications, recoveries and retries of one order interleave, its
\* coins are credited once and together with the row (completePurchase).
LedgerSpec == Ledger!Spec

\* Coins are given for money received only: a purchase marked captured names a
\* payment of that order that Razorpay has captured, and exactly those
\* purchases have their ledger row.
CoinsForMoney ==
    \A o \in Orders :
        /\ Ledger!IsPosted(o) <=> row[o] = "CAPTURED"
        /\ row[o] = "CAPTURED" =>
              /\ paidBy[o] \in Payments
              /\ Order[paidBy[o]] = o
              /\ payment[paidBy[o]] = "captured"

\* Money received is turned into coins, although the reply to the capture or
\* the whole verification may be lost: recovery finds the captured payment, as
\* long as the purchase is less than seven days old and no other payment of the
\* order stands before it ("Recovery path for a
\* checkout that succeeded just before the app closed or lost connectivity").
CapturedIsCredited ==
    \A p \in Payments :
        payment[p] = "captured" /\ Order[p] \in Single
            ~> row[Order[p]] = "CAPTURED" \/ Order[p] \in old
===============================================================================
