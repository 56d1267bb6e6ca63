-------------------------- MODULE WalletLedgerProofs --------------------------
(***************************************************************************)
(* What the abstract ledger promises, for every set of users, events and   *)
(* amounts.                                                                *)
(***************************************************************************)
EXTENDS WalletLedger, TLAPS

\* What posting an event does to the wallets.
LEMMA PostEffect ==
    ASSUME Amounts \subseteq Nat, TypeOK, NEW u \in Users, NEW type \in EntryTypes,
           NEW ref \in Refs, NEW amount \in Amounts, Post(u, type, ref, amount)
    PROVE  \E entry \in Entry :
              /\ entry.ref = ref
              /\ entry.balanceAfter = balance[u] + SignedAmount(entry)
              /\ balance' = [balance EXCEPT ![u] = entry.balanceAfter]
              /\ ledger' = [ledger EXCEPT ![u] = Append(@, entry)]
<1> DEFINE after == balance[u] + (IF type = "CREDIT" THEN amount ELSE -amount)
           entry == [type |-> type, ref |-> ref, amount |-> amount, balanceAfter |-> after]
<1>1. amount \in Int /\ balance[u] \in Int
      BY DEF TypeOK
<1>2. after \in Int
      BY <1>1
<1>3. entry \in Entry
      BY <1>2 DEF Entry
<1>4. entry.balanceAfter = balance[u] + SignedAmount(entry)
      BY DEF SignedAmount
<1>5. balance' = [balance EXCEPT ![u] = after] /\ ledger' = [ledger EXCEPT ![u] = Append(@, entry)]
      BY DEF Post, Move
<1>6. QED BY <1>3, <1>4, <1>5

\* What appending a row does to the sequences of rows.
LEMMA AppendEffect ==
    ASSUME TypeOK, NEW u \in Users, NEW entry \in Entry,
           ledger' = [ledger EXCEPT ![u] = Append(@, entry)]
    PROVE  /\ ledger' \in [Users -> Seq(Entry)]
           /\ Len(ledger[u]) \in Nat
           /\ Len(ledger'[u]) = Len(ledger[u]) + 1
           /\ ledger'[u][Len(ledger[u]) + 1] = entry
           /\ \A k \in 1..Len(ledger[u]) : ledger'[u][k] = ledger[u][k]
           /\ \A v \in Users : v # u => ledger'[v] = ledger[v]
           /\ ledger[u] = <<>> <=> Len(ledger[u]) = 0
<1>1. ledger \in [Users -> Seq(Entry)]
      BY DEF TypeOK
<1>2. ledger'[u] = Append(ledger[u], entry) /\ ledger[u] \in Seq(Entry)
      BY <1>1
<1>3. QED BY <1>1, <1>2

\* Type correctness.
THEOREM LedgerTypeCorrect ==
    ASSUME Amounts \subseteq Nat
    PROVE  Spec => []TypeOK
<1>1. Init => TypeOK
      BY DEF Init, TypeOK
<1>2. TypeOK /\ [Next]_ledgerVars => TypeOK'
  <2> SUFFICES ASSUME TypeOK, [Next]_ledgerVars PROVE TypeOK'
      OBVIOUS
  <2>1. ASSUME NEW u \in Users, NEW type \in EntryTypes, NEW ref \in Refs, NEW amount \in Amounts,
               Post(u, type, ref, amount)
        PROVE  TypeOK'
    <3>1. PICK entry \in Entry :
              /\ balance' = [balance EXCEPT ![u] = entry.balanceAfter]
              /\ ledger' = [ledger EXCEPT ![u] = Append(@, entry)]
          BY <2>1, PostEffect
    <3>2. ledger' \in [Users -> Seq(Entry)]
          BY <3>1, AppendEffect
    <3>3. entry.balanceAfter \in Int
          BY DEF Entry
    <3>4. QED BY <3>1, <3>2, <3>3 DEF TypeOK
  <2>2. CASE UNCHANGED ledgerVars
        BY <2>2 DEF ledgerVars, TypeOK
  <2>3. QED BY <2>1, <2>2 DEF Next
<1>3. QED BY <1>1, <1>2, PTL DEF Spec

\* In every reachable state the rows of a wallet add up to its balance.
THEOREM LedgerExplains ==
    ASSUME Amounts \subseteq Nat
    PROVE  Spec => []LedgerExplainsBalance
<1>1. Init => LedgerExplainsBalance
  <2> SUFFICES ASSUME Init, NEW u \in Users
               PROVE  /\ ~\E k \in 1..Len(ledger[u]) : TRUE
                      /\ ledger[u] = <<>> /\ balance[u] = 0
      BY DEF LedgerExplainsBalance
  <2>1. ledger[u] = <<>> /\ balance[u] = 0
        BY DEF Init
  <2>2. QED BY <2>1
<1>2. TypeOK /\ LedgerExplainsBalance /\ [Next]_ledgerVars => LedgerExplainsBalance'
  <2> SUFFICES ASSUME TypeOK, LedgerExplainsBalance, [Next]_ledgerVars
               PROVE  LedgerExplainsBalance'
      OBVIOUS
  <2>1. ASSUME NEW u \in Users, NEW type \in EntryTypes, NEW ref \in Refs, NEW amount \in Amounts,
               Post(u, type, ref, amount)
        PROVE  LedgerExplainsBalance'
    <3>1. PICK entry \in Entry :
              /\ entry.balanceAfter = balance[u] + SignedAmount(entry)
              /\ balance' = [balance EXCEPT ![u] = entry.balanceAfter]
              /\ ledger' = [ledger EXCEPT ![u] = Append(@, entry)]
          BY <2>1, PostEffect
    <3>2. /\ ledger' \in [Users -> Seq(Entry)]
          /\ Len(ledger[u]) \in Nat
          /\ Len(ledger'[u]) = Len(ledger[u]) + 1
          /\ ledger'[u][Len(ledger[u]) + 1] = entry
          /\ \A k \in 1..Len(ledger[u]) : ledger'[u][k] = ledger[u][k]
          /\ \A v \in Users : v # u => ledger'[v] = ledger[v]
          /\ ledger[u] = <<>> <=> Len(ledger[u]) = 0
          BY <3>1, AppendEffect
    <3>3. balance \in [Users -> Int]
          BY DEF TypeOK
    <3>4. ASSUME NEW v \in Users, v # u
          PROVE  /\ \A k \in 1..Len(ledger'[v]) :
                        ledger'[v][k].balanceAfter
                            = BalanceBefore(v, k)' + SignedAmount(ledger'[v][k])
                 /\ balance'[v] = IF ledger'[v] = <<>> THEN 0
                                  ELSE ledger'[v][Len(ledger'[v])].balanceAfter
      <4>1. ledger'[v] = ledger[v] /\ balance'[v] = balance[v]
            BY <3>1, <3>2, <3>3, <3>4
      <4>2. /\ \A k \in 1..Len(ledger[v]) :
                   ledger[v][k].balanceAfter = BalanceBefore(v, k) + SignedAmount(ledger[v][k])
            /\ balance[v] = IF ledger[v] = <<>> THEN 0
                           ELSE ledger[v][Len(ledger[v])].balanceAfter
            BY DEF LedgerExplainsBalance
      <4>3. \A k : BalanceBefore(v, k)' = BalanceBefore(v, k)
            BY <4>1 DEF BalanceBefore
      <4>4. QED BY <4>1, <4>2, <4>3
    <3>5. PICK n \in Nat : n = Len(ledger[u])
          BY <3>2
    <3>6. /\ \A k \in 1..n : ledger[u][k].balanceAfter
                 = (IF k = 1 THEN 0 ELSE ledger[u][k - 1].balanceAfter) + SignedAmount(ledger[u][k])
          /\ balance[u] = IF n = 0 THEN 0 ELSE ledger[u][n].balanceAfter
          BY <3>2, <3>5 DEF LedgerExplainsBalance, BalanceBefore
    <3>7. ledger'[u] # <<>> /\ balance'[u] = ledger'[u][Len(ledger'[u])].balanceAfter
      <4>1. ledger'[u] # <<>>
            BY <3>2
      <4>2. balance'[u] = entry.balanceAfter
            BY <3>1, <3>3
      <4>3. Len(ledger'[u]) = Len(ledger[u]) + 1
            BY <3>2
      <4>4. ledger'[u][Len(ledger'[u])] = entry
            BY <3>2, <4>3
      <4>5. QED BY <4>1, <4>2, <4>4
    <3>8. ASSUME NEW k \in 1..Len(ledger'[u])
          PROVE  ledger'[u][k].balanceAfter
                     = (IF k = 1 THEN 0 ELSE ledger'[u][k - 1].balanceAfter)
                           + SignedAmount(ledger'[u][k])
      <4>1. CASE k \in 1..n
        <5>1. ledger'[u][k] = ledger[u][k] /\ (k # 1 => ledger'[u][k - 1] = ledger[u][k - 1])
              BY <3>2, <3>5, <4>1
        <5>2. QED BY <3>6, <4>1, <5>1
      <4>2. CASE k = n + 1
        <5>1. ledger'[u][k] = entry /\ (k # 1 => ledger'[u][k - 1] = ledger[u][n])
              BY <3>2, <3>5, <4>2
        <5>2. QED BY <3>1, <3>6, <4>2, <5>1
      <4>3. QED BY <3>2, <3>5, <3>8, <4>1, <4>2
    <3>9. QED BY <3>4, <3>7, <3>8 DEF LedgerExplainsBalance, BalanceBefore
  <2>2. CASE UNCHANGED ledgerVars
        BY <2>2 DEF ledgerVars, LedgerExplainsBalance, BalanceBefore
  <2>3. QED BY <2>1, <2>2 DEF Next
<1>3. Spec => []TypeOK
      BY LedgerTypeCorrect
<1>4. QED BY <1>1, <1>2, <1>3, PTL DEF Spec

\* No business event moves coins twice.
THEOREM NoDoublePosting ==
    ASSUME Amounts \subseteq Nat
    PROVE  Spec => []PostedOnce
<1>1. Init => PostedOnce
      BY DEF Init, PostedOnce
<1>2. TypeOK /\ PostedOnce /\ [Next]_ledgerVars => PostedOnce'
  <2> SUFFICES ASSUME TypeOK, PostedOnce, [Next]_ledgerVars
               PROVE  PostedOnce'
      OBVIOUS
  <2>1. ASSUME NEW u \in Users, NEW type \in EntryTypes, NEW ref \in Refs, NEW amount \in Amounts,
               Post(u, type, ref, amount)
        PROVE  PostedOnce'
    <3>1. PICK entry \in Entry :
              /\ entry.ref = ref
              /\ ledger' = [ledger EXCEPT ![u] = Append(@, entry)]
          BY <2>1, PostEffect
    <3>2. /\ Len(ledger[u]) \in Nat
          /\ Len(ledger'[u]) = Len(ledger[u]) + 1
          /\ ledger'[u][Len(ledger[u]) + 1].ref = ref
          /\ \A k \in 1..Len(ledger[u]) : ledger'[u][k] = ledger[u][k]
          /\ \A v \in Users : v # u => ledger'[v] = ledger[v]
          BY <3>1, AppendEffect
    \* Every row but the new one was there, and none of those is of event ref.
    <3>3. ASSUME NEW v \in Users, NEW k \in 1..Len(ledger'[v])
          PROVE  IF ledger'[v][k].ref = ref
                    THEN v = u /\ k = Len(ledger[u]) + 1
                    ELSE k \in 1..Len(ledger[v]) /\ ledger'[v][k] = ledger[v][k]
      <4>1. CASE k \in 1..Len(ledger[v])
        <5>1. ledger'[v][k] = ledger[v][k]
              BY <3>2, <4>1
        <5>2. ledger[v][k].ref # ref
              BY <2>1, <4>1 DEF Post, Fresh, IsPosted
        <5>3. QED BY <4>1, <5>1, <5>2
      <4>2. CASE k \notin 1..Len(ledger[v])
        <5>1. v = u /\ k = Len(ledger[u]) + 1
              BY <3>2, <4>2
        <5>2. QED BY <3>2, <5>1
      <4>3. QED BY <4>1, <4>2
    <3>4. ASSUME NEW v \in Users, NEW w \in Users,
                 NEW j \in 1..Len(ledger'[v]), NEW k \in 1..Len(ledger'[w]),
                 ledger'[v][j].ref = ledger'[w][k].ref
          PROVE  v = w /\ j = k
      <4>1. CASE ledger'[v][j].ref = ref
        <5>1. v = u /\ j = Len(ledger[u]) + 1
              BY <3>3, <4>1
        <5>2. ledger'[w][k].ref = ref
              BY <3>4, <4>1
        <5>3. w = u /\ k = Len(ledger[u]) + 1
              BY <3>3, <5>2
        <5>4. QED BY <5>1, <5>3
      <4>2. CASE ledger'[v][j].ref # ref
        <5>1. /\ j \in 1..Len(ledger[v]) /\ ledger'[v][j] = ledger[v][j]
              /\ k \in 1..Len(ledger[w]) /\ ledger'[w][k] = ledger[w][k]
              BY <3>3, <3>4, <4>2
        <5>2. ledger[v][j].ref = ledger[w][k].ref
              BY <3>4, <5>1
        <5>3. QED BY <5>1, <5>2 DEF PostedOnce
      <4>3. QED BY <4>1, <4>2
    <3>5. QED BY <3>4 DEF PostedOnce
  <2>2. CASE UNCHANGED ledgerVars
        BY <2>2 DEF ledgerVars, PostedOnce
  <2>3. QED BY <2>1, <2>2 DEF Next
<1>3. Spec => []TypeOK
      BY LedgerTypeCorrect
<1>4. QED BY <1>1, <1>2, <1>3, PTL DEF Spec
===============================================================================
