------------------------------ MODULE CpxPostbacks ------------------------------
(***************************************************************************)
(* Survey postbacks of CPX Research (cpx.service.ts): status 1 credits a   *)
(* transaction, status 2 reverses it.  The provider calls whenever it      *)
(* likes and repeats a call that was not answered, so any number of calls  *)
(* for one transaction may be under way together.                          *)
(*                                                                         *)
(* The database is read committed: a SELECT sees committed rows only,      *)
(* while an INSERT of a key another transaction has inserted waits for     *)
(* that transaction to end, then fails on the unique key or goes through.  *)
(***************************************************************************)
EXTENDS Integers, Sequences

CONSTANTS
    Users, Trans,
    Owner,         \* Owner[t]: user_id of transaction t
    Amount,        \* Amount[t]: coins of transaction t, possibly none
    Calls,         \* postbacks received
    Of,            \* Of[c]: the transaction of call c
    Kind,          \* Kind[c]: "credit" (status 1) or "reversal" (status 2)
    Overlapping,   \* the transactions whose calls may overlap
    Nobody,        \* no call holds an uncommitted row
    MaxFailures    \* bound: database transactions that fail

ASSUME ConstantsAssumption ==
    /\ Owner \in [Trans -> Users]
    /\ Amount \in [Trans -> Nat]
    /\ Of \in [Calls -> Trans]
    /\ Kind \in [Calls -> {"credit", "reversal"}]
    /\ Overlapping \subseteq Trans
    /\ Nobody \notin Calls
    /\ MaxFailures \in Nat

VARIABLES
    balance, ledger,   \* wallets, wallet_transactions
    row,               \* cpx_transactions: the committed status of each transId
    inserting,         \* the call whose transaction holds t's uncommitted row
    step,              \* progress of each call
    answer,            \* what the caller was told
    failures

walletVars == <<balance, ledger>>
vars == <<walletVars, row, inserting, step, answer, failures>>

Refs == {"CREDIT", "DEBIT"} \X Trans
Amounts == {Amount[t] : t \in Trans}

Ledger == INSTANCE WalletLedger

Steps == {"idle", "absent", "present", "inserted", "over"}
Answers == {"none", "credited", "reversed", "duplicate"}

Init ==
    /\ Ledger!Init
    /\ row = [t \in Trans |-> "NONE"]
    /\ inserting = [t \in Trans |-> Nobody]
    /\ step = [c \in Calls |-> "idle"]
    /\ answer = [c \in Calls |-> "none"]
    /\ failures = 0

-------------------------------------------------------------------------------

Advance(c, next) == step' = [step EXCEPT ![c] = next]

Answer(c, result) ==
    /\ Advance(c, "over")
    /\ answer' = [answer EXCEPT ![c] = result]

\* The provider's calls for one transaction follow one another, or not.
MayStart(c) ==
    Of[c] \in Overlapping \/ \A d \in Calls : Of[d] = Of[c] => step[d] \in {"idle", "over"}

\* A mutant of MoveCoins: a reversal is posted as a negative credit.
MoveCoinsSigned(type, t) ==
    IF Amount[t] > 0
       THEN Ledger!Move(Owner[t], "CREDIT", <<type, t>>,
                        IF type = "CREDIT" THEN Amount[t] ELSE -Amount[t])
       ELSE UNCHANGED walletVars

\* moveCoins, skipped when there are none.
MoveCoins(type, t) ==
    IF Amount[t] > 0 THEN Ledger!Move(Owner[t], type, <<type, t>>, Amount[t])
                     ELSE UNCHANGED walletVars

\* The unique key on transId, with nobody else's insert pending.
CanInsert(t) == inserting[t] = Nobody /\ row[t] = "NONE"

\* The INSERT finds the key taken by a committed row: P2002, answered "duplicate".
IsTaken(t) == inserting[t] = Nobody /\ row[t] # "NONE"

Insert(c) ==
    /\ CanInsert(Of[c])
    /\ inserting' = [inserting EXCEPT ![Of[c]] = c]
    /\ Advance(c, "inserted")
    /\ UNCHANGED <<walletVars, row, answer, failures>>

Refuse(c) ==
    /\ IsTaken(Of[c])
    /\ Answer(c, "duplicate")
    /\ UNCHANGED <<walletVars, row, inserting, failures>>

\* Status 1: insert the row, credit, commit.
InsertCredit(c) == step[c] = "idle" /\ Kind[c] = "credit" /\ MayStart(c) /\ Insert(c)
RefuseCredit(c) == step[c] = "idle" /\ Kind[c] = "credit" /\ MayStart(c) /\ Refuse(c)

CommitCredit(c) ==
    /\ step[c] = "inserted"
    /\ Kind[c] = "credit"
    /\ row' = [row EXCEPT ![Of[c]] = "COMPLETED"]
    /\ inserting' = [inserting EXCEPT ![Of[c]] = Nobody]
    /\ MoveCoins("CREDIT", Of[c])
    /\ Answer(c, "credited")
    /\ UNCHANGED failures

\* Status 2: findUnique sees the committed row, if there is one.
Lookup(c) ==
    /\ step[c] = "idle"
    /\ Kind[c] = "reversal"
    /\ MayStart(c)
    /\ Advance(c, IF row[Of[c]] = "NONE" THEN "absent" ELSE "present")
    /\ UNCHANGED <<walletVars, row, inserting, answer, failures>>

\* No row: record the reversal so that a late completion is ignored.
InsertReversal(c) == step[c] = "absent" /\ Insert(c)
RefuseReversal(c) == step[c] = "absent" /\ Refuse(c)

CommitReversal(c) ==
    /\ step[c] = "inserted"
    /\ Kind[c] = "reversal"
    /\ row' = [row EXCEPT ![Of[c]] = "REVERSED"]
    /\ inserting' = [inserting EXCEPT ![Of[c]] = Nobody]
    /\ Answer(c, "reversed")
    /\ UNCHANGED <<walletVars, failures>>

\* A mutant of CanFlip: the update is not guarded by the status.
CanFlipAny(t) == row[t] # "NONE"

CanFlip(t) == row[t] = "COMPLETED"

\* The guarded update takes the row lock, so update, debit and commit are one step.
Flip(c) ==
    /\ step[c] = "present"
    /\ CanFlip(Of[c])
    /\ row' = [row EXCEPT ![Of[c]] = "REVERSED"]
    /\ MoveCoins("DEBIT", Of[c])
    /\ Answer(c, "reversed")
    /\ UNCHANGED <<inserting, failures>>

\* A mutant of FlipNothing: nothing to reverse is reported as an error.
FlipNothingRetried(c) ==
    /\ step[c] = "present"
    /\ ~CanFlip(Of[c])
    /\ Advance(c, "idle")
    /\ UNCHANGED <<walletVars, row, inserting, answer, failures>>

\* The update matches no row: reversed before, answered "duplicate".
FlipNothing(c) ==
    /\ step[c] = "present"
    /\ ~CanFlip(Of[c])
    /\ Answer(c, "duplicate")
    /\ UNCHANGED <<walletVars, row, inserting, failures>>

\* The database transaction is rolled back, the caller sees an error and calls again.
Fail(c) ==
    /\ step[c] \in {"absent", "present", "inserted"}
    /\ failures < MaxFailures
    /\ failures' = failures + 1
    /\ Advance(c, "idle")
    /\ inserting' = [t \in Trans |-> IF inserting[t] = c THEN Nobody ELSE inserting[t]]
    /\ UNCHANGED <<walletVars, row, answer>>

-------------------------------------------------------------------------------

Call(c) ==
    \/ InsertCredit(c)
    \/ RefuseCredit(c)
    \/ CommitCredit(c)
    \/ Lookup(c)
    \/ InsertReversal(c)
    \/ RefuseReversal(c)
    \/ CommitReversal(c)
    \/ Flip(c)
    \/ FlipNothing(c)

Next == \E c \in Calls : Call(c) \/ Fail(c)

Spec == Init /\ [][Next]_vars

\* The provider repeats an unanswered call and the server runs what it received.
FairSpec == Spec /\ \A c \in Calls : WF_vars(Call(c))

-------------------------------------------------------------------------------
\* Properties

TypeOK ==
    /\ Ledger!TypeOK
    /\ row \in [Trans -> {"NONE", "COMPLETED", "REVERSED"}]
    /\ inserting \in [Trans -> Calls \cup {Nobody}]
    /\ step \in [Calls -> Steps]
    /\ answer \in [Calls -> Answers]
    /\ failures \in 0..MaxFailures

Posted(type, t) == Ledger!IsPosted(<<type, t>>)

\* The wallet agrees with the row: a completed transaction with coins was
\* credited and not debited, a reversed one was debited exactly if it had been
\* credited, an unknown one moved nothing (the row and the coins commit together).
CoinsMatchRow ==
    \A t \in Trans :
        /\ row[t] = "NONE" => ~Posted("CREDIT", t) /\ ~Posted("DEBIT", t)
        /\ row[t] = "COMPLETED" => (Posted("CREDIT", t) <=> Amount[t] > 0) /\ ~Posted("DEBIT", t)
        /\ row[t] = "REVERSED" => (Posted("CREDIT", t) <=> Posted("DEBIT", t))

\* Retried and concurrent postbacks never credit or reverse twice ("a retried
\* postback can never credit twice"): the wallet is a behaviour of the ledger.
LedgerSpec == Ledger!Spec

\* Once the provider is told a reversal is done, or was done before, the
\* transaction is reversed (the answer "duplicate" ends its retries).
Kept(c) == Kind[c] = "reversal" /\ answer[c] # "none" => row[Of[c]] = "REVERSED"

ReversalIsKept == \A c \in Calls : Kept(c)

\* ... which the code achieves for transactions whose calls do not overlap.
ReversalIsKeptInTurn == \A c \in Calls : Of[c] \notin Overlapping => Kept(c)

\* Every postback is answered although inserts wait for one another.
EveryCallAnswered == \A c \in Calls : <>(answer[c] # "none")
===============================================================================
