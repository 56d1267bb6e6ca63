------------------------------ MODULE Redemptions ------------------------------
(***************************************************************************)
(* Redeeming coins for a voucher or a UPI payout                           *)
(* (redemptions.service.ts, redemptions.repository.ts).                    *)
(*                                                                         *)
(* A redemption is identified with the one call of request() that may      *)
(* create it.  request() is an interactive transaction of several          *)
(* statements, so other sessions run between its steps; a voucher review   *)
(* goes on after its first commit with a call to the voucher provider and  *)
(* two more guarded updates.  Every other operation is one guarded         *)
(* statement or one short transaction and is one action: what it reads     *)
(* beforehand (existence, method) never changes, and its status check is   *)
(* repeated by the WHERE of the update.                                    *)
(***************************************************************************)
EXTENDS Integers, Sequences, FiniteSets

CONSTANTS
    Users, Ids, Admins,
    Owner,           \* Owner[i]: the user whose call of request() may create i
    Methods,         \* a subset of {"VOUCHER", "UPI"}
    Coins,           \* the amounts the catalogue and the settings let a user redeem
    Rewards,         \* rewards earned elsewhere, each credited at most once
    Nobody,          \* no wallet lock holder, no reviewer
    MaxDbFailures    \* bound: writes after an issued voucher that fail on the database

ASSUME ConstantsAssumption ==
    /\ Owner \in [Ids -> Users]
    /\ Methods \subseteq {"VOUCHER", "UPI"}
    /\ Coins \subseteq Nat \ {0}
    /\ Nobody \notin Ids \cup Admins
    /\ MaxDbFailures \in Nat

VARIABLES
    \* the database
    balance, ledger,     \* wallets and wallet_transactions, per user
    status, method, coins, reviewer, voucher, failReason,   \* redemptions
    walletLock,          \* the request() transaction that holds u's wallet row
    \* sessions of this process
    request,             \* progress of request() for i
    seen,                \* the balance request() read under the lock
    review,              \* progress of review(APPROVE) for i
    \* the world outside
    issued,              \* whether the provider issued a voucher for i, and said so
    paid,                \* money has been sent by UPI for i
    dbFailures

rowVars == <<status, method, coins, reviewer, voucher, failReason>>
walletVars == <<balance, ledger>>
sessionVars == <<request, seen, walletLock, review>>
worldVars == <<issued, paid, dbFailures>>
vars == <<walletVars, rowVars, sessionVars, worldVars>>

Statuses == {"NONE", "PENDING", "APPROVED", "REJECTED", "FULFILLED"}
RequestStates == {"idle", "locked", "checked", "over"}
\* review(APPROVE) after its first commit: "approved" is about to call the
\* provider, "issued" holds a voucher to save, "refused" an error to note,
\* "unsaved" a voucher the row would not take; the rest are ends.
LiveReview == {"approved", "issued", "refused", "unsaved"}
ReviewStates == LiveReview \cup {"idle", "over", "lost", "crashed"}
\* Where a row's voucher came from; what its failReason says.
Vouchers == {"none", "provider", "manual"}
FailReasons == {"none", "failed", "reconcile"}
\* "silent": a voucher was issued and the caller saw an error.
IssueStates == {"no", "returned", "silent"}

Ref(kind, i) == [kind |-> kind, id |-> i]
Refs == [kind : {"redemption", "redemption-refund"}, id : Ids]
            \cup [kind : {"reward"}, id : Rewards]

Ledger == INSTANCE WalletLedger WITH Amounts <- Coins

Init ==
    /\ Ledger!Init
    /\ status = [i \in Ids |-> "NONE"]
    /\ method \in [Ids -> Methods]
    /\ coins \in [Ids -> Coins]
    /\ reviewer = [i \in Ids |-> Nobody]
    /\ voucher = [i \in Ids |-> "none"]
    /\ failReason = [i \in Ids |-> "none"]
    /\ walletLock = [u \in Users |-> Nobody]
    /\ request = [i \in Ids |-> "idle"]
    /\ seen = [i \in Ids |-> 0]
    /\ review = [i \in Ids |-> "idle"]
    /\ issued = [i \in Ids |-> "no"]
    /\ paid = [i \in Ids |-> FALSE]
    /\ dbFailures = 0

-------------------------------------------------------------------------------
\* Wallet movements

\* The wallet UPDATE and its ledger row, inlined in every transaction.
Move(u, type, ref, amount) == Ledger!Move(u, type, ref, amount)

\* Nobody holds the wallet row, so a statement that updates it can run.
WalletFree(u) == walletLock[u] = Nobody

\* Another component credits a reward (claims, missions, games, purchases).
Earn(u, w, c) ==
    /\ WalletFree(u)
    /\ ~Ledger!IsPosted(Ref("reward", w))
    /\ Move(u, "CREDIT", Ref("reward", w), c)
    /\ UNCHANGED <<rowVars, sessionVars, worldVars>>

-------------------------------------------------------------------------------
\* request(): the interactive transaction createRequest

\* wallet.upsert: its forced UPDATE takes the row lock and returns the balance.
BeginRequest(i) ==
    /\ request[i] = "idle"
    /\ WalletFree(Owner[i])
    /\ request' = [request EXCEPT ![i] = "locked"]
    /\ seen' = [seen EXCEPT ![i] = balance[Owner[i]]]
    /\ walletLock' = [walletLock EXCEPT ![Owner[i]] = i]
    /\ UNCHANGED <<walletVars, rowVars, review, worldVars>>

HasPending(u) == \E j \in Ids : Owner[j] = u /\ status[j] = "PENDING"

\* A mutant of CanRequest: no pending count.
CanRequestFunded(i) == seen[i] >= coins[i]

CanRequest(i) == ~HasPending(Owner[i]) /\ seen[i] >= coins[i]

\* The pending count and the balance check, before anything is written.
CheckRequest(i) ==
    /\ request[i] = "locked"
    /\ CanRequest(i)
    /\ request' = [request EXCEPT ![i] = "checked"]
    /\ UNCHANGED <<walletVars, rowVars, seen, walletLock, review, worldVars>>

EndRequest(i) ==
    /\ request' = [request EXCEPT ![i] = "over"]
    /\ walletLock' = [walletLock EXCEPT ![Owner[i]] = Nobody]
    /\ UNCHANGED <<seen, review>>

\* ConflictError or BadRequestError: the transaction rolls back.
RefuseRequest(i) ==
    /\ request[i] = "locked"
    /\ ~CanRequest(i)
    /\ EndRequest(i)
    /\ UNCHANGED <<walletVars, rowVars, worldVars>>

\* create, wallet.update, walletTransaction.create, COMMIT.
CommitRequest(i) ==
    /\ request[i] = "checked"
    /\ status' = [status EXCEPT ![i] = "PENDING"]
    /\ Move(Owner[i], "DEBIT", Ref("redemption", i), coins[i])
    /\ EndRequest(i)
    /\ UNCHANGED <<method, coins, reviewer, voucher, failReason, worldVars>>

\* The process or the connection dies, or the transaction times out: rollback.
AbortRequest(i) ==
    /\ request[i] \in {"locked", "checked"}
    /\ EndRequest(i)
    /\ UNCHANGED <<walletVars, rowVars, worldVars>>

-------------------------------------------------------------------------------
\* review()

\* Mutants of CanReject: an approved row too, and no guard at all.
CanRejectUnsettled(i) == status[i] \in {"PENDING", "APPROVED"}
CanRejectAny(i) == status[i] # "NONE"

CanReject(i) == status[i] = "PENDING"

\* review(REJECT): rejectWithRefund, one transaction.
Reject(a, i) ==
    /\ CanReject(i)
    /\ WalletFree(Owner[i])
    /\ status' = [status EXCEPT ![i] = "REJECTED"]
    /\ reviewer' = [reviewer EXCEPT ![i] = a]
    /\ Move(Owner[i], "CREDIT", Ref("redemption-refund", i), coins[i])
    /\ UNCHANGED <<method, coins, voucher, failReason, sessionVars, worldVars>>

CanApprove(i) == status[i] = "PENDING" /\ method[i] # "UPI"

\* review(APPROVE): the approval is committed first.  With no provider for the
\* item the call ends there, otherwise it goes on to the provider.
Approve(a, i, next) ==
    /\ CanApprove(i)
    /\ status' = [status EXCEPT ![i] = "APPROVED"]
    /\ reviewer' = [reviewer EXCEPT ![i] = a]
    /\ review' = [review EXCEPT ![i] = next]
    /\ UNCHANGED <<walletVars, method, coins, voucher, failReason,
                   request, seen, walletLock, worldVars>>

EndReview(i, end) ==
    /\ review' = [review EXCEPT ![i] = end]
    /\ UNCHANGED <<request, seen, walletLock>>

\* issueVoucher returns a voucher, or throws before or after one was issued
\* (the provider call has a timeout, its reply can be lost).
CallProvider(i, outcome) ==
    /\ review[i] = "approved"
    /\ issued' = [issued EXCEPT ![i] = outcome]
    /\ EndReview(i, IF outcome = "returned" THEN "issued" ELSE "refused")
    /\ UNCHANGED <<walletVars, rowVars, paid, dbFailures>>

\* A mutant of ParkRefusal: the provider's error is swallowed.
SwallowRefusal(i) ==
    /\ review[i] = "refused"
    /\ EndReview(i, "over")
    /\ UNCHANGED <<walletVars, rowVars, worldVars>>

\* guardedUpdate [APPROVED] with the provider's error; a row fulfilled by hand
\* meanwhile is left alone (ConflictError).
ParkRefusal(i) ==
    /\ review[i] = "refused"
    /\ failReason' = IF status[i] = "APPROVED" THEN [failReason EXCEPT ![i] = "failed"]
                                               ELSE failReason
    /\ EndReview(i, "over")
    /\ UNCHANGED <<walletVars, status, method, coins, reviewer, voucher, worldVars>>

\* The row's columns after guardedUpdate [APPROVED] -> FULFILLED.
WriteFulfilled(i, source) ==
    /\ status' = [status EXCEPT ![i] = "FULFILLED"]
    /\ voucher' = [voucher EXCEPT ![i] = source]
    /\ failReason' = [failReason EXCEPT ![i] = "none"]
    /\ UNCHANGED <<method, coins>>

\* The issued voucher is saved.
SaveVoucher(i) ==
    /\ review[i] = "issued"
    /\ status[i] = "APPROVED"
    /\ WriteFulfilled(i, "provider")
    /\ EndReview(i, "over")
    /\ UNCHANGED <<walletVars, reviewer, worldVars>>

\* A mutant of SaveConflict: losing the race is taken for success.
SaveConflictIgnored(i) ==
    /\ review[i] = "issued"
    /\ status[i] # "APPROVED"
    /\ EndReview(i, "over")
    /\ UNCHANGED <<walletVars, rowVars, worldVars>>

\* A manual fulfil won the race: the guard matches no row.
SaveConflict(i) ==
    /\ review[i] = "issued"
    /\ status[i] # "APPROVED"
    /\ EndReview(i, "unsaved")
    /\ UNCHANGED <<walletVars, rowVars, worldVars>>

DbFails == dbFailures < MaxDbFailures /\ dbFailures' = dbFailures + 1

\* The database fails and nothing is written.
SaveFails(i) ==
    /\ review[i] = "issued"
    /\ status[i] = "APPROVED"
    /\ DbFails
    /\ EndReview(i, "unsaved")
    /\ UNCHANGED <<walletVars, rowVars, issued, paid>>

\* guardedUpdate writes the row and fails to read it back.
SaveUnconfirmed(i) ==
    /\ review[i] = "issued"
    /\ status[i] = "APPROVED"
    /\ DbFails
    /\ WriteFulfilled(i, "provider")
    /\ EndReview(i, "unsaved")
    /\ UNCHANGED <<walletVars, reviewer, issued, paid>>

CanPark(i) == status[i] \in {"APPROVED", "FULFILLED"}

\* "Auto-issued reward needs reconciliation" on whatever state the row is in.
ParkVoucher(i) ==
    /\ review[i] = "unsaved"
    /\ CanPark(i)
    /\ failReason' = [failReason EXCEPT ![i] = "reconcile"]
    /\ EndReview(i, "over")
    /\ UNCHANGED <<walletVars, status, method, coins, reviewer, voucher, worldVars>>

\* Parking is refused by its guard or fails on the database: the error is
\* thrown and only the log names the voucher.
ParkFails(i) ==
    /\ review[i] = "unsaved"
    /\ IF CanPark(i) THEN DbFails ELSE UNCHANGED dbFailures
    /\ EndReview(i, "lost")
    /\ UNCHANGED <<walletVars, rowVars, issued, paid>>

\* The process dies, or a statement between the commit and the provider throws.
CrashReview(i) ==
    /\ review[i] \in LiveReview
    /\ EndReview(i, "crashed")
    /\ UNCHANGED <<walletVars, rowVars, worldVars>>

-------------------------------------------------------------------------------
\* UPI payouts and manual fulfilment

\* A mutant of CanMarkPaid: no status guard.
CanMarkPaidAny(i) == method[i] = "UPI" /\ status[i] # "NONE"

CanClaim(i) == method[i] = "UPI" /\ status[i] = "PENDING"
CanRelease(i) == method[i] = "UPI" /\ status[i] = "APPROVED"
CanMarkPaid(i) == method[i] = "UPI" /\ status[i] \in {"PENDING", "APPROVED"}
CanFulfill(i) == method[i] # "UPI" /\ status[i] = "APPROVED"

Claim(a, i) ==
    /\ CanClaim(i)
    /\ status' = [status EXCEPT ![i] = "APPROVED"]
    /\ reviewer' = [reviewer EXCEPT ![i] = a]
    /\ UNCHANGED <<walletVars, method, coins, voucher, failReason, sessionVars, worldVars>>

\* Any admin may release any claim.
Release(i) ==
    /\ CanRelease(i)
    /\ status' = [status EXCEPT ![i] = "PENDING"]
    /\ reviewer' = [reviewer EXCEPT ![i] = Nobody]
    /\ UNCHANGED <<walletVars, method, coins, voucher, failReason, sessionVars, worldVars>>

\* Outside the program: an admin who holds the claim sends the money.
PayByUpi(a, i) ==
    /\ method[i] = "UPI"
    /\ status[i] = "APPROVED"
    /\ reviewer[i] = a
    /\ ~paid[i]
    /\ paid' = [paid EXCEPT ![i] = TRUE]
    /\ UNCHANGED <<walletVars, rowVars, sessionVars, issued, dbFailures>>

\* markPaid; an admin who did not claim sends the money and confirms in one step.
MarkPaid(a, i) ==
    /\ CanMarkPaid(i)
    /\ status' = [status EXCEPT ![i] = "FULFILLED"]
    /\ failReason' = [failReason EXCEPT ![i] = "none"]
    /\ reviewer' = [reviewer EXCEPT ![i] = a]
    /\ paid' = [paid EXCEPT ![i] = TRUE]
    /\ UNCHANGED <<walletVars, method, coins, voucher, sessionVars, issued, dbFailures>>

\* fulfill: a super admin attaches a voucher by hand.
Fulfill(a, i) ==
    /\ CanFulfill(i)
    /\ WriteFulfilled(i, "manual")
    /\ reviewer' = [reviewer EXCEPT ![i] = a]
    /\ UNCHANGED <<walletVars, sessionVars, worldVars>>

-------------------------------------------------------------------------------

RequestStep(i) ==
    \/ BeginRequest(i)
    \/ CheckRequest(i)
    \/ RefuseRequest(i)
    \/ CommitRequest(i)
    \/ AbortRequest(i)

\* The steps review(APPROVE) takes by itself after its first commit.
ReviewStep(i) ==
    \/ \E outcome \in IssueStates : CallProvider(i, outcome)
    \/ ParkRefusal(i)
    \/ SaveVoucher(i)
    \/ SaveConflict(i)
    \/ SaveFails(i)
    \/ SaveUnconfirmed(i)
    \/ ParkVoucher(i)
    \/ ParkFails(i)

AdminStep(a, i) ==
    \/ Reject(a, i)
    \/ \E next \in {"approved", "over"} : Approve(a, i, next)
    \/ Claim(a, i)
    \/ Release(i)
    \/ PayByUpi(a, i)
    \/ MarkPaid(a, i)
    \/ Fulfill(a, i)

Next ==
    \/ \E u \in Users, w \in Rewards, c \in Coins : Earn(u, w, c)
    \/ \E i \in Ids : RequestStep(i) \/ ReviewStep(i) \/ CrashReview(i)
    \/ \E a \in Admins, i \in Ids : AdminStep(a, i)

Spec == Init /\ [][Next]_vars

\* The event loop keeps running a review that is not cut off: weak fairness of
\* its own steps, none of the admins' or the users'.
FairSpec == Spec /\ \A i \in Ids : WF_vars(ReviewStep(i))

-------------------------------------------------------------------------------
\* Properties

TypeOK ==
    /\ Ledger!TypeOK
    /\ status \in [Ids -> Statuses]
    /\ method \in [Ids -> Methods]
    /\ coins \in [Ids -> Coins]
    /\ reviewer \in [Ids -> Admins \cup {Nobody}]
    /\ voucher \in [Ids -> Vouchers]
    /\ failReason \in [Ids -> FailReasons]
    /\ walletLock \in [Users -> Ids \cup {Nobody}]
    /\ request \in [Ids -> RequestStates]
    /\ seen \in [Ids -> Int]
    /\ review \in [Ids -> ReviewStates]
    /\ issued \in [Ids -> IssueStates]
    /\ paid \in [Ids -> BOOLEAN]
    /\ dbFailures \in 0..MaxDbFailures

\* Concurrent requests never spend the same coins twice: the balance checked
\* is the balance debited (createRequest's row lock).
NoOverdraft == \A u \in Users : balance[u] >= 0

Waiting(i) == status[i] = "PENDING"

\* A user has one request waiting at a time (createRequest's pending count).
OnePending ==
    \A i, j \in Ids : Waiting(i) /\ Waiting(j) /\ Owner[i] = Owner[j] => i = j

\* ... which holds of vouchers: a second request waits only beside a UPI
\* request, claimed when the second one was made and released later.
OnePendingVoucher ==
    \A i, j \in Ids :
        Waiting(i) /\ Waiting(j) /\ Owner[i] = Owner[j] /\ i # j => "UPI" \in {method[i], method[j]}

\* The ledger row of event ref is in u's wallet, of that type and amount.
PostedAs(ref, u, type, amount) ==
    \E k \in 1..Len(ledger[u]) :
        /\ ledger[u][k].ref = ref
        /\ ledger[u][k].type = type
        /\ ledger[u][k].amount = amount

\* Escrow: a redemption's coins left its owner's wallet exactly when its row
\* exists, and came back, in full, exactly when it was rejected.
EscrowMatchesRow ==
    \A i \in Ids :
        /\ IF status[i] = "NONE"
              THEN ~Ledger!IsPosted(Ref("redemption", i))
              ELSE PostedAs(Ref("redemption", i), Owner[i], "DEBIT", coins[i])
        /\ IF status[i] = "REJECTED"
              THEN PostedAs(Ref("redemption-refund", i), Owner[i], "CREDIT", coins[i])
              ELSE ~Ledger!IsPosted(Ref("redemption-refund", i))

\* A voucher the provider issued is never one whose coins were refunded
\* (review() commits the approval before it calls the provider).
IssuedIsNotRefunded == \A i \in Ids : issued[i] # "no" => status[i] \in {"APPROVED", "FULFILLED"}

\* The wallet side of every behaviour is a behaviour of the abstract ledger:
\* no event is posted twice and no balance moves without its row.
LedgerSpec == Ledger!Spec

\* A review that was given a voucher ends with the voucher on the row or with
\* the note that asks for reconciliation, unless the database failed or the
\* process died (the two catches of review()).
IssuedIsRecorded ==
    [][\A i \in Ids :
          /\ issued[i] = "returned" /\ review[i] \in LiveReview
          /\ review'[i] \in {"over", "lost"}
          /\ dbFailures' = dbFailures
          => voucher'[i] = "provider" \/ failReason'[i] = "reconcile"]_vars

\* What an approval leads to: a fulfilled row or a row that says why it is not,
\* unless the review was cut off.
ApprovalIsResolved ==
    \A i \in Ids :
        review[i] = "approved" ~>
            \/ status[i] = "FULFILLED"
            \/ failReason[i] # "none"
            \/ review[i] \in {"crashed", "lost"}

\* Money sent under a claim is never followed by a refund of the coins (what
\* the comment on claim() says claiming is for).
PaidIsNotRefunded == \A i \in Ids : paid[i] => status[i] # "REJECTED"
===============================================================================
