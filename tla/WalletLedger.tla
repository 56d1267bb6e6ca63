----------------------------- MODULE WalletLedger -----------------------------
(***************************************************************************)
(* The abstract coin wallet every rewards component writes to.             *)
(*                                                                         *)
(* A wallet has a balance and an append-only ledger of WalletTransaction   *)
(* rows.  The components promise that the balance only ever moves together *)
(* with the ledger row that explains it, that the row records the balance  *)
(* it left behind, and that one business event, named by its reference     *)
(* ("redemption:<id>", "coin-purchase:<id>", ...), is posted at most once. *)
(* The detailed modules are shown to implement this one.                   *)
(***************************************************************************)
EXTENDS Integers, Sequences

CONSTANTS
    Users,      \* owners of a wallet
    Refs,       \* the business events that may move coins
    Amounts     \* the amounts of coins an event may move, numbers

VARIABLES
    balance,    \* balance[u]: wallets.balance of user u
    ledger      \* ledger[u]: wallet_transactions of u, oldest first

ledgerVars == <<balance, ledger>>

EntryTypes == {"CREDIT", "DEBIT"}

Entry == [type : EntryTypes, ref : Refs, amount : Amounts, balanceAfter : Int]

\* What a row does to the balance.
SignedAmount(e) == IF e.type = "CREDIT" THEN e.amount ELSE -e.amount

\* A business event has been posted to some wallet.
IsPosted(ref) == \E u \in Users : \E k \in 1..Len(ledger[u]) : ledger[u][k].ref = ref

Init ==
    /\ balance = [u \in Users |-> 0]
    /\ ledger = [u \in Users |-> <<>>]

\* One wallet movement: the balance update and its ledger row, one transaction.
Move(u, type, ref, amount) ==
    LET after == balance[u] + (IF type = "CREDIT" THEN amount ELSE -amount)
    IN  /\ balance' = [balance EXCEPT ![u] = after]
        /\ ledger' = [ledger EXCEPT ![u] =
               Append(@, [type |-> type, ref |-> ref,
                          amount |-> amount, balanceAfter |-> after])]

Fresh(ref) == ~IsPosted(ref)

\* A movement for an event that was never posted before.
Post(u, type, ref, amount) == Fresh(ref) /\ Move(u, type, ref, amount)

Next == \E u \in Users, type \in EntryTypes, ref \in Refs, amount \in Amounts :
            Post(u, type, ref, amount)

Spec == Init /\ [][Next]_ledgerVars

-------------------------------------------------------------------------------

TypeOK ==
    /\ balance \in [Users -> Int]
    /\ ledger \in [Users -> Seq(Entry)]

\* The balance a wallet had before its k-th row.
BalanceBefore(u, k) == IF k = 1 THEN 0 ELSE ledger[u][k - 1].balanceAfter

\* The ledger explains the balance: every row continues the one before it and
\* the wallet stands where its last row left it (wallet.repository.ts credit,
\* and every component's inlined copy of it).
LedgerExplainsBalance ==
    \A u \in Users :
        /\ \A k \in 1..Len(ledger[u]) :
               ledger[u][k].balanceAfter = BalanceBefore(u, k) + SignedAmount(ledger[u][k])
        /\ balance[u] = IF ledger[u] = <<>> THEN 0
                        ELSE ledger[u][Len(ledger[u])].balanceAfter

\* No business event is posted twice, to one wallet or to two.
PostedOnce ==
    \A u, v \in Users :
        \A j \in 1..Len(ledger[u]), k \in 1..Len(ledger[v]) :
            ledger[u][j].ref = ledger[v][k].ref => u = v /\ j = k
===============================================================================
