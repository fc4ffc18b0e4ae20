-------------------------- MODULE CoinLedgerProofs --------------------------
(***************************************************************************)
(* Lemmas about Post, for every component that moves coins: what a         *)
(* transaction that commits does to the two tables of the ledger.          *)
(***************************************************************************)
EXTENDS CoinLedger, TLAPS

\* The writes of one transaction as the code issues them: at most one for each
\* user, each under a key of its own.
IsTransaction(writes) ==
  /\ \A w \in writes : IsWrite(w)
  /\ \A v, w \in writes : v.user = w.user => v = w
  /\ \A v, w \in writes : v.key = w.key => v = w

\* A write moves a row's coins, net of debt, by its delta (apply).
LEMMA AppliedNet ==
  ASSUME NEW row \in Row, NEW w, IsWrite(w)
  PROVE  /\ Applied(row, w) \in Row
         /\ Net(Applied(row, w)) = Net(row) + w.delta
<1>1. w.delta \in Int /\ row.balance \in Int /\ row.debt \in Int
  BY DEF IsWrite, Row
<1>2. CASE Settles(w)
  <2> DEFINE net == Net(row) + w.delta
  <2>1. net \in Int
    BY <1>1 DEF Net
  <2>2. Applied(row, w) = [balance |-> IF net > 0 THEN net ELSE 0,
                           debt    |-> IF net < 0 THEN -net ELSE 0]
    BY <1>2 DEF Applied, Settled
  <2> QED BY <2>1, <2>2 DEF Row, Net
<1>3. CASE ~Settles(w)
  <2>1. Applied(row, w) = [balance |-> row.balance + w.delta, debt |-> row.debt]
    BY <1>1, <1>3 DEF Applied, Debited, Row
  <2> QED BY <1>1, <2>1 DEF Row, Net
<1> QED BY <1>2, <1>3

\* A write that can be applied leaves a legal row legal (apply, the CHECK
\* constraints on coin_wallets).
LEMMA AppliedLegal ==
  ASSUME NEW row \in Row, NEW w, IsWrite(w), CanApply(row, w),
         row.balance \in 0..IntMax, row.debt \in 0..IntMax,
         row.debt = 0 \/ row.balance = 0
  PROVE  LET after == Applied(row, w)
         IN  /\ after.balance \in 0..IntMax
             /\ after.debt \in 0..IntMax
             /\ after.debt = 0 \/ after.balance = 0
<1>1. w.delta \in Int /\ row.balance \in Int /\ row.debt \in Int /\ IntMax \in Nat
  BY LedgerConstants DEF IsWrite, Row
<1>2. CASE Settles(w)
  <2> DEFINE net == Net(row) + w.delta
  <2>1. net \in -IntMax..IntMax
    BY <1>2 DEF CanApply
  <2>2. Applied(row, w) = [balance |-> IF net > 0 THEN net ELSE 0,
                           debt    |-> IF net < 0 THEN -net ELSE 0]
    BY <1>2 DEF Applied, Settled
  <2> QED BY <1>1, <2>1, <2>2
<1>3. CASE ~Settles(w)
  <2>1. Applied(row, w) = [balance |-> row.balance + w.delta, debt |-> row.debt]
    BY <1>1, <1>3 DEF Applied, Debited, Row
  <2>2. row.balance >= -w.delta /\ w.delta <= 0
    BY <1>1, <1>3 DEF CanApply, Settles
  <2> QED BY <1>1, <2>1, <2>2
<1> QED BY <1>2, <1>3

\* What Post does to one wallet: nothing, or the user's one write.
LEMMA PostWallet ==
  ASSUME NEW writes, IsTransaction(writes), Post(writes), NEW u \in Users
  PROVE  /\ (\A w \in writes : w.user # u) => wallet'[u] = wallet[u]
         /\ \A w \in writes : w.user = u => wallet'[u] = Applied(wallet[u], w)
<1>1. wallet'[u] = IF WritesOf(u, writes) = {} THEN wallet[u]
                   ELSE Applied(wallet[u], CHOOSE w \in writes : w.user = u)
  BY DEF Post
<1>2. ASSUME \A w \in writes : w.user # u
      PROVE  wallet'[u] = wallet[u]
  BY <1>1, <1>2 DEF WritesOf
<1>3. ASSUME NEW w \in writes, w.user = u
      PROVE  wallet'[u] = Applied(wallet[u], w)
  <2>1. WritesOf(u, writes) # {}
    BY <1>3 DEF WritesOf
  <2>2. (CHOOSE v \in writes : v.user = u) = w
    BY <1>3 DEF IsTransaction
  <2> QED BY <1>1, <2>1, <2>2
<1> QED BY <1>2, <1>3

\* Post keeps the types of the two tables.
LEMMA PostType ==
  ASSUME LedgerTypeOK, NEW writes, IsTransaction(writes), Post(writes)
  PROVE  LedgerTypeOK'
<1>1. wallet' \in [Users -> Row]
  <2>1. wallet' = [u \in Users |-> wallet'[u]]
    BY DEF Post
  <2>2. ASSUME NEW u \in Users
        PROVE  wallet'[u] \in Row
    <3>1. wallet[u] \in Row
      BY DEF LedgerTypeOK
    <3>2. CASE \A w \in writes : w.user # u
      BY <3>1, <3>2, PostWallet
    <3>3. CASE \E w \in writes : w.user = u
      <4>1. PICK w \in writes : w.user = u
        BY <3>3
      <4>2. IsWrite(w) /\ wallet'[u] = Applied(wallet[u], w)
        BY <4>1, PostWallet DEF IsTransaction
      <4> QED BY <3>1, <4>2, AppliedNet
    <3> QED BY <3>2, <3>3
  <2> QED BY <2>1, <2>2
<1>2. ASSUME NEW e \in ledger'
      PROVE  e.user \in Users /\ e.kind \in Kinds /\ e.delta \in Int \ {0} /\ e.after \in Int
  <2>1. CASE e \in ledger
    BY <2>1 DEF LedgerTypeOK
  <2>2. CASE e \notin ledger
    <3>1. PICK w \in writes : e = Entry(w, Applied(wallet[w.user], w))
      BY <1>2, <2>2 DEF Post
    <3>2. IsWrite(w) /\ wallet[w.user] \in Row
      BY DEF IsTransaction, IsWrite, LedgerTypeOK
    <3>3. Applied(wallet[w.user], w) \in Row
      BY <3>2, AppliedNet
    <3>4. e.user = w.user /\ e.kind = w.kind /\ e.delta = w.delta
          /\ e.after = Net(Applied(wallet[w.user], w))
      BY <3>1 DEF Entry
    <3> QED BY <3>2, <3>3, <3>4 DEF IsWrite, Net, Row
  <2> QED BY <2>1, <2>2
<1> QED BY <1>1, <1>2 DEF LedgerTypeOK

\* What Post adds to the ledger: one entry for each write, under a new key.
LEMMA PostEntries ==
  ASSUME LedgerTypeOK, NEW writes, IsTransaction(writes), Post(writes)
  PROVE  /\ ledger \subseteq ledger'
         /\ \A e \in ledger' \ ledger :
              \E w \in writes : e = Entry(w, Applied(wallet[w.user], w))
         /\ \A w \in writes : /\ Entry(w, Applied(wallet[w.user], w)) \in ledger' \ ledger
                              /\ \A e \in ledger : e.key # w.key
<1>1. ledger' = ledger \cup {Entry(w, Applied(wallet[w.user], w)) : w \in writes}
  BY DEF Post
<1>2. \A w \in writes : \A e \in ledger : e.key # w.key
  BY DEF Post, CanPost, Keys
<1>3. \A w \in writes : Entry(w, Applied(wallet[w.user], w)).key = w.key
  BY DEF Entry
<1> QED BY <1>1, <1>2, <1>3

\* A transaction leaves every wallet row legal.
LEMMA PostLegal ==
  ASSUME LedgerTypeOK, WalletRowsAreLegal,
         NEW writes, IsTransaction(writes), Post(writes)
  PROVE  WalletRowsAreLegal'
<1> SUFFICES ASSUME NEW u \in Users
             PROVE  /\ wallet'[u].balance \in 0..IntMax
                    /\ wallet'[u].debt \in 0..IntMax
                    /\ wallet'[u].debt = 0 \/ wallet'[u].balance = 0
  BY DEF WalletRowsAreLegal
<1>1. wallet[u] \in Row
  BY DEF LedgerTypeOK
<1>2. CASE \A w \in writes : w.user # u
  BY <1>2, PostWallet DEF WalletRowsAreLegal
<1>3. CASE \E w \in writes : w.user = u
  <2>1. PICK w \in writes : w.user = u
    BY <1>3
  <2>2. CanApply(wallet[u], w)
    BY <2>1 DEF Post, CanPost
  <2>3. IsWrite(w)
    BY DEF IsTransaction
  <2>4. wallet'[u] = Applied(wallet[u], w)
    BY <2>1, PostWallet
  <2> QED BY <1>1, <2>2, <2>3, <2>4, AppliedLegal DEF WalletRowsAreLegal
<1> QED BY <1>2, <1>3

\* A transaction writes no second entry under a key.
LEMMA PostKeys ==
  ASSUME LedgerTypeOK, OneEntryPerKey,
         NEW writes, IsTransaction(writes), Post(writes)
  PROVE  OneEntryPerKey'
<1> SUFFICES ASSUME NEW e \in ledger', NEW f \in ledger', e.key = f.key
             PROVE  e = f
  BY DEF OneEntryPerKey
<1>1. \A w \in writes : Entry(w, Applied(wallet[w.user], w)).key = w.key
  BY DEF Entry
<1>2. CASE e \in ledger /\ f \in ledger
  BY <1>2 DEF OneEntryPerKey
<1>3. CASE e \in ledger /\ f \notin ledger
  BY <1>1, <1>3, PostEntries
<1>4. CASE e \notin ledger /\ f \in ledger
  BY <1>1, <1>4, PostEntries
<1>5. CASE e \notin ledger /\ f \notin ledger
  <2>1. PICK v \in writes : e = Entry(v, Applied(wallet[v.user], v))
    BY <1>5, PostEntries
  <2>2. PICK w \in writes : f = Entry(w, Applied(wallet[w.user], w))
    BY <1>5, PostEntries
  <2>3. v = w
    BY <1>1, <2>1, <2>2 DEF IsTransaction
  <2> QED BY <2>1, <2>2, <2>3
<1> QED BY <1>2, <1>3, <1>4, <1>5

\* A transaction journals what it does to each wallet.
LEMMA PostJournals ==
  ASSUME LedgerTypeOK, NEW writes, IsTransaction(writes), Post(writes)
  PROVE  JournalStep
<1> SUFFICES ASSUME NEW u \in Users
             PROVE  LET new == {e \in ledger' \ ledger : e.user = u}
                    IN  \/ new = {} /\ wallet'[u] = wallet[u]
                        \/ \E e \in new : /\ new = {e}
                                          /\ Net(wallet'[u]) = Net(wallet[u]) + e.delta
                                          /\ e.after = Net(wallet'[u])
  BY PostEntries DEF JournalStep
<1> DEFINE new == {e \in ledger' \ ledger : e.user = u}
           entry(w) == Entry(w, Applied(wallet[w.user], w))
<1>1. wallet[u] \in Row
  BY DEF LedgerTypeOK
<1>2. \A w \in writes : /\ entry(w).user = w.user
                        /\ entry(w).delta = w.delta
                        /\ entry(w).after = Net(Applied(wallet[w.user], w))
  BY DEF Entry
<1>3. CASE \A w \in writes : w.user # u
  <2>1. new = {}
    BY <1>2, <1>3, PostEntries
  <2>2. wallet'[u] = wallet[u]
    BY <1>3, PostWallet
  <2> QED BY <2>1, <2>2
<1>4. CASE \E w \in writes : w.user = u
  <2>1. PICK w \in writes : w.user = u
    BY <1>4
  <2>2. entry(w) \in new
    BY <1>2, <2>1, PostEntries
  <2>3. \A e \in new : e = entry(w)
    BY <1>2, <2>1, PostEntries DEF IsTransaction
  <2>4. IsWrite(w) /\ wallet'[u] = Applied(wallet[u], w)
    BY <2>1, PostWallet DEF IsTransaction
  <2>5. Net(wallet'[u]) = Net(wallet[u]) + entry(w).delta
    BY <1>1, <1>2, <2>4, AppliedNet
  <2>6. entry(w).after = Net(wallet'[u])
    BY <1>2, <2>1, <2>4
  <2>7. new = {entry(w)}
    BY <2>2, <2>3
  <2> QED BY <2>2, <2>5, <2>6, <2>7
<1> QED BY <1>3, <1>4

=============================================================================
