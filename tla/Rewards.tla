--------------------------------- MODULE Rewards ---------------------------------
(***************************************************************************)
(* Coins for a submission an admin approves (claims.service.ts,              *)
(* missions.service.ts) and for an invitation (users.service.ts:             *)
(* applyReferral), and the deletion of accounts, which takes them away.      *)
(*                                                                         *)
(* A review reads its row, then decides in a transaction guarded by the      *)
(* status.  An invitation locks the rows of both users, one after the other, *)
(* and decides under the locks; a deletion locks the invited users before    *)
(* its own row.  PostgreSQL aborts one transaction of a deadlock.            *)
(***************************************************************************)
EXTENDS Integers, FiniteSets, Sequences

CONSTANTS
    Users,       \* numbers, in the order in which the database sorts the ids
    Reviewers,
    Amounts,     \* rewards an admin may set
    MaxCalls     \* bound: submissions, reviews, invitations and deletions begun

VARIABLES
    account,     \* users: exists, isActive, referredById, referredAt
    submission,  \* claims and mission_completions
    offered,     \* the reward of a mission, which an admin may change
    submitting,  \* submissions that passed their checks, with the reward they read
    review,      \* what each reviewer has read
    txn,         \* transaction of a user: an invitation or a deletion
    lock,        \* the transaction that has locked the row of a user
    balance,     \* wallets
    ledger,      \* wallet_transactions of each user, oldest first
    begunCalls

accountVars == <<account, txn, lock>>
walletVars == <<balance, ledger>>
reviewVars == <<submission, offered, submitting, review>>
vars == <<accountVars, walletVars, reviewVars, begunCalls>>

NoUser == 0
Kinds == {"claim", "mission"}
Items == Kinds \X Users
Refs == (Kinds \cup {"referral", "referral-join"}) \X Users
NoTxn == [kind |-> "none", to |-> NoUser, want |-> NoUser]
NoReview == [item |-> <<"none", NoUser>>, reward |-> 0]
Exists(u) == account[u].exists

Init ==
    /\ account = [u \in Users |-> [exists |-> TRUE, active |-> TRUE, by |-> NoUser, marked |-> FALSE]]
    /\ submission = [x \in Items |-> [status |-> "NONE", reward |-> 0]]
    /\ offered \in Amounts
    /\ submitting = {}
    /\ review = [r \in Reviewers |-> NoReview]
    /\ txn = [u \in Users |-> NoTxn]
    /\ lock = [u \in Users |-> NoUser]
    /\ balance = [u \in Users |-> 0]
    /\ ledger = [u \in Users |-> <<>>]
    /\ begunCalls = 0

Begin == begunCalls < MaxCalls /\ begunCalls' = begunCalls + 1

\* WalletRepository.credit, as the services repeat it: for each user who is paid the
\* balance and the row that explains it.
Row(u, pay) == [ref |-> pay.ref, amount |-> pay.amount, balanceAfter |-> balance[u] + pay.amount]
Pay(pays) ==
    /\ balance' = [u \in Users |-> IF u \in DOMAIN pays THEN balance[u] + pays[u].amount ELSE balance[u]]
    /\ ledger' = [u \in Users |-> IF u \in DOMAIN pays THEN Append(ledger[u], Row(u, pays[u])) ELSE ledger[u]]

-------------------------------------------------------------------------------
\* Submissions and their reviews

\* The campaign is running, or the mission is published, and nothing was sent yet.
BeginSubmit(x) ==
    /\ Begin
    /\ Exists(x[2]) /\ submission[x].status = "NONE"
    /\ submitting' = submitting \cup {[item |-> x, reward |-> offered]}
    /\ UNCHANGED <<accountVars, walletVars, submission, offered, review>>

\* The row is unique for user and item; a claim keeps the reward it was sent for.
EndSubmit(s) ==
    /\ s \in submitting
    /\ submitting' = submitting \ {s}
    /\ submission' = IF submission[s.item].status = "NONE" /\ Exists(s.item[2])
                     THEN [submission EXCEPT ![s.item] = [status |-> "PENDING",
                             reward |-> IF s.item[1] = "claim" THEN s.reward ELSE 0]]
                     ELSE submission
    /\ UNCHANGED <<accountVars, walletVars, offered, review, begunCalls>>

\* update, of a mission.
SetReward(a) ==
    /\ Begin
    /\ a # offered
    /\ offered' = a
    /\ UNCHANGED <<accountVars, walletVars, submission, submitting, review>>

\* The reward of a mission is read here, before the transaction that pays it.
BeginReview(r, x) ==
    /\ Begin
    /\ review[r] = NoReview
    /\ submission[x].status = "PENDING"
    /\ review' = [review EXCEPT ![r] = [item |-> x,
                    reward |-> IF x[1] = "claim" THEN submission[x].reward ELSE offered]]
    /\ UNCHANGED <<accountVars, walletVars, submission, offered, submitting>>

\* A mutant of Reviewable: by the status that was read.
ReviewableRead(x) == submission[x].status # "NONE"

Reviewable(x) == submission[x].status = "PENDING"

Reject(r) ==
    /\ review[r] # NoReview
    /\ review' = [review EXCEPT ![r] = NoReview]
    /\ submission' = IF Reviewable(review[r].item)
                     THEN [submission EXCEPT ![review[r].item].status = "REJECTED"] ELSE submission
    /\ UNCHANGED <<accountVars, walletVars, offered, submitting, begunCalls>>

Approve(r) ==
    LET x == review[r].item
    IN  /\ review[r] # NoReview
        /\ review' = [review EXCEPT ![r] = NoReview]
        /\ IF Reviewable(x)
           THEN /\ submission' = [submission EXCEPT ![x].status = "APPROVED"]
                /\ Pay([u \in {x[2]} |-> [ref |-> x, amount |-> review[r].reward]])
           ELSE UNCHANGED <<submission, walletVars>>
        /\ UNCHANGED <<accountVars, offered, submitting, begunCalls>>

-------------------------------------------------------------------------------
\* Locks on the rows of users

Held(u) == {v \in Users : lock[v] = u}

\* A mutant of LockOrder: the caller's own row first.
LockOrderCaller(u, rows) == IF u \in rows THEN u ELSE CHOOSE v \in rows : TRUE

\* SELECT ... ORDER BY id FOR UPDATE
LockOrder(u, rows) == CHOOSE v \in rows : \A w \in rows : v <= w

\* The rows a transaction has still to lock.  Rows that are gone are passed over.
Needs(u) ==
    LET rows == IF txn[u].kind = "refer" THEN {u, txn[u].to}
                ELSE {v \in Users : account[v].by = u}
    IN  {v \in rows : Exists(v)} \ Held(u)

\* The row it asks for next; a deletion comes to the invited users in any order,
\* and to its own row last.
Ask(u) ==
    /\ txn[u] # NoTxn /\ txn[u].want = NoUser
    /\ \/ /\ txn[u].kind = "refer" /\ Needs(u) # {}
          /\ txn' = [txn EXCEPT ![u].want = LockOrder(u, Needs(u))]
       \/ /\ txn[u].kind = "delete"
          /\ \E v \in IF Needs(u) = {} THEN {u} \ Held(u) ELSE Needs(u) : txn' = [txn EXCEPT ![u].want = v]
    /\ UNCHANGED <<account, lock, walletVars, reviewVars, begunCalls>>

Take(u) ==
    LET v == txn[u].want
    IN  /\ v # NoUser
        /\ lock[v] = NoUser
        /\ lock' = [lock EXCEPT ![v] = IF Exists(v) THEN u ELSE NoUser]
        /\ txn' = [txn EXCEPT ![u].want = NoUser]
        /\ UNCHANGED <<account, walletVars, reviewVars, begunCalls>>

\* Commit or rollback: the locks are released.
Finish(u) ==
    /\ txn' = [txn EXCEPT ![u] = NoTxn]
    /\ lock' = [v \in Users |-> IF lock[v] = u THEN NoUser ELSE lock[v]]

\* Transactions that wait for one another, all of them.
Cycles == {S \in (SUBSET Users) \ {{}} : \A u \in S : txn[u].want # NoUser /\ lock[txn[u].want] \in S}

\* PostgreSQL's deadlock detection, or a client that goes away: rolled back.
Abort(u) ==
    /\ \E S \in Cycles : u \in S
    /\ Finish(u)
    /\ UNCHANGED <<account, walletVars, reviewVars, begunCalls>>

-------------------------------------------------------------------------------
\* applyReferral

\* The code is looked up before the transaction begins.
BeginReferral(u, v) ==
    /\ Begin
    /\ Exists(u) /\ Exists(v) /\ u # v
    /\ txn[u] = NoTxn
    /\ txn' = [txn EXCEPT ![u] = [NoTxn EXCEPT !.kind = "refer", !.to = v]]
    /\ UNCHANGED <<account, lock, walletVars, reviewVars>>

Locked(u) == txn[u].kind = "refer" /\ txn[u].want = NoUser /\ Needs(u) = {}

Eligible(u, v) ==
    /\ Exists(u) /\ account[u].active
    /\ ~account[u].marked
    /\ Exists(v) /\ account[v].active
    /\ account[v].by # u

\* An error, a pause of the programme, or the receipt of an earlier success.
RefuseReferral(u) ==
    /\ Locked(u)
    /\ Finish(u)
    /\ UNCHANGED <<account, walletVars, reviewVars, begunCalls>>

\* Both credits are written, also when the policy pays nothing.
Refer(u) ==
    LET v == txn[u].to
    IN  /\ Locked(u)
        /\ Eligible(u, v)
        /\ account' = [account EXCEPT ![u].by = v, ![u].marked = TRUE]
        /\ \E a, b \in Amounts :
            Pay([w \in {u, v} |-> IF w = v THEN [ref |-> <<"referral", u>>, amount |-> a]
                                  ELSE [ref |-> <<"referral-join", u>>, amount |-> b]])
        /\ Finish(u)
        /\ UNCHANGED <<reviewVars, begunCalls>>

-------------------------------------------------------------------------------
\* Accounts

\* updateUserStatus, one statement on the row.
SetActive(u, b) ==
    /\ Begin
    /\ Exists(u) /\ lock[u] = NoUser /\ account[u].active # b
    /\ account' = [account EXCEPT ![u].active = b]
    /\ UNCHANGED <<txn, lock, walletVars, reviewVars>>

BeginDelete(u) ==
    /\ Begin
    /\ Exists(u) /\ txn[u] = NoTxn
    /\ txn' = [txn EXCEPT ![u] = [NoTxn EXCEPT !.kind = "delete"]]
    /\ UNCHANGED <<account, lock, walletVars, reviewVars>>

\* Everything of the user goes with the row.  Who was invited keeps the mark, also
\* the one whose invitation committed while the deletion waited for its row.
Delete(u) ==
    /\ txn[u].kind = "delete" /\ txn[u].want = NoUser /\ u \in Held(u)
    /\ account' = [v \in Users |->
        IF v = u THEN [exists |-> FALSE, active |-> FALSE, by |-> NoUser, marked |-> FALSE]
        ELSE IF account[v].by = u THEN [account[v] EXCEPT !.by = NoUser] ELSE account[v]]
    /\ submission' = [x \in Items |-> IF x[2] = u THEN [status |-> "NONE", reward |-> 0] ELSE submission[x]]
    /\ balance' = [balance EXCEPT ![u] = 0]
    /\ ledger' = [ledger EXCEPT ![u] = <<>>]
    /\ Finish(u)
    /\ UNCHANGED <<offered, submitting, review, begunCalls>>

Next ==
    \/ \E x \in Items : BeginSubmit(x) \/ \E r \in Reviewers : BeginReview(r, x)
    \/ \E s \in submitting : EndSubmit(s)
    \/ \E a \in Amounts : SetReward(a)
    \/ \E r \in Reviewers : Reject(r) \/ Approve(r)
    \/ \E u \in Users :
        \/ \E v \in Users : BeginReferral(u, v)
        \/ Ask(u) \/ Take(u) \/ Abort(u) \/ RefuseReferral(u) \/ Refer(u)
        \/ \E b \in BOOLEAN : SetActive(u, b)
        \/ BeginDelete(u) \/ Delete(u)

Spec == Init /\ [][Next]_vars

-------------------------------------------------------------------------------
TypeOK ==
    /\ account \in [Users -> [exists : BOOLEAN, active : BOOLEAN, by : Users \cup {NoUser}, marked : BOOLEAN]]
    /\ submission \in [Items -> [status : {"NONE", "PENDING", "APPROVED", "REJECTED"}, reward : Amounts \cup {0}]]
    /\ offered \in Amounts
    /\ submitting \subseteq [item : Items, reward : Amounts]
    /\ review \in [Reviewers -> [item : Items \cup {NoReview.item}, reward : Amounts \cup {0}]]
    /\ txn \in [Users -> [kind : {"none", "refer", "delete"}, to : Users \cup {NoUser}, want : Users \cup {NoUser}]]
    /\ lock \in [Users -> Users \cup {NoUser}]
    /\ balance \in [Users -> Int]
    /\ ledger \in [Users -> Seq([ref : Refs, amount : Amounts \cup {0}, balanceAfter : Int])]
    /\ begunCalls \in 0..MaxCalls

\* The rows of a wallet for one event, and the balance before its k-th row.
Paid(u, ref) == {k \in 1..Len(ledger[u]) : ledger[u][k].ref = ref}
Before(u, k) == IF k = 1 THEN 0 ELSE ledger[u][k - 1].balanceAfter

\* Every approval and every invitation is paid exactly once, however reviews,
\* retries, invitations both ways and deletions interleave: the ledger of a wallet
\* explains its balance, and its rows are those of what has earned them.
\* Nobody is invited by the user they have invited.
RewardsPaidOnce ==
    \A u \in Users : Exists(u) =>
        /\ \A k \in 1..Len(ledger[u]) : ledger[u][k].balanceAfter = Before(u, k) + ledger[u][k].amount
        /\ balance[u] = Before(u, Len(ledger[u]) + 1)
        /\ \A k \in Kinds : Cardinality(Paid(u, <<k, u>>)) = IF submission[<<k, u>>].status = "APPROVED" THEN 1 ELSE 0
        /\ \A k \in Paid(u, <<"claim", u>>) : ledger[u][k].amount = submission[<<"claim", u>>].reward
        /\ Cardinality(Paid(u, <<"referral-join", u>>)) = IF account[u].marked THEN 1 ELSE 0
        /\ \A v \in Users : Exists(v) /\ account[v].by = u =>
            Cardinality(Paid(u, <<"referral", v>>)) = 1 /\ account[u].by # v

\* "Lock both accounts in deterministic order" (applyReferral): invitations alone
\* never wait for one another in a circle.  A deletion can be part of one.
ReferralsDoNotDeadlock ==
    \A S \in Cycles : \E u \in S : txn[u].kind = "delete"
===============================================================================
