----------------------------- MODULE CoinLedger -----------------------------
(***************************************************************************)
(* The ledger primitive of the coin wallet: WalletService.apply.  Every    *)
(* component that moves coins calls it inside its own database             *)
(* transaction, so it is an operator on a row here (Applied) and an action *)
(* on the two tables for a whole transaction (Post).                       *)
(***************************************************************************)
EXTENDS Integers, FiniteSets, FiniteSetsExt

CONSTANTS Users,    \* account ids
          IntMax    \* largest value of a Postgres INTEGER column

ASSUME LedgerConstants == IntMax \in Nat /\ IsFiniteSet(Users)

VARIABLES wallet,   \* coin_wallets: a missing row reads as 0 coins, no debt
          ledger    \* coin_ledger: the set of entries ever written

ledgerVars == <<wallet, ledger>>

Kinds == {"TOPUP", "TRANSFER_IN", "TRANSFER_OUT", "POOL_FUND", "POOL_REFUND",
          "POOL_PAYOUT", "TICKET_PURCHASE", "APPLE_REFUND", "APPLE_REFUND_REVERSAL"}

Row == [balance : Int, debt : Int]

\* A LedgerWrite: one signed movement of one user's coins under a unique key.
Write(u, kind, delta, key) == [user |-> u, kind |-> kind, delta |-> delta, key |-> key]

IsWrite(w) == /\ DOMAIN w = {"user", "kind", "delta", "key"}
              /\ w.user \in Users
              /\ w.kind \in Kinds
              /\ w.delta \in Int \ {0}

\* What the API reports as the balance: spendable coins net of refund debt.
Net(row) == row.balance - row.debt

\* Credits and Apple refunds settle against the debt under a row lock.
Settles(w) == w.delta > 0 \/ w.kind = "APPLE_REFUND"

\* Mutant: a credit forgives the debt.
SettledForgiving(row, delta) ==
  LET net == Net(row) + delta
  IN  [balance |-> IF net > 0 THEN net ELSE 0, debt |-> 0]

Settled(row, delta) ==
  LET net == Net(row) + delta
  IN  [balance |-> IF net > 0 THEN net ELSE 0,
       debt    |-> IF net < 0 THEN -net ELSE 0]

Debited(row, amount) == [row EXCEPT !.balance = @ - amount]

Applied(row, w) ==
  IF Settles(w) THEN Settled(row, w.delta) ELSE Debited(row, -w.delta)

\* Mutant: a debit that is not checked against the balance.
CanApplyUncovered(row, w) ==
  IF Settles(w) THEN Net(row) + w.delta \in -IntMax..IntMax ELSE row.debt = 0

\* An ordinary debit must be covered and is refused to a user in debt; a
\* settlement only fails when the column overflows (the transaction aborts).
CanApply(row, w) ==
  IF Settles(w) THEN Net(row) + w.delta \in -IntMax..IntMax
                ELSE row.balance >= -w.delta /\ row.debt = 0

Keys == {e.key : e \in ledger}

WritesOf(u, writes) == {w \in writes : w.user = u}

Entry(w, row) == [user |-> w.user, kind |-> w.kind, delta |-> w.delta,
                  key |-> w.key, after |-> Net(row)]

\* Every write of the transaction can be applied and none of the keys is
\* taken (coin_ledger.idempotency_key is unique).
CanPost(writes) ==
  \A w \in writes : CanApply(wallet[w.user], w) /\ w.key \notin Keys

\* The writes of one committed transaction, at most one for each user.
Post(writes) ==
  /\ CanPost(writes)
  /\ wallet' = [u \in Users |->
                  IF WritesOf(u, writes) = {} THEN wallet[u]
                  ELSE Applied(wallet[u], CHOOSE w \in writes : w.user = u)]
  /\ ledger' = ledger \cup {Entry(w, Applied(wallet[w.user], w)) : w \in writes}

LedgerInit ==
  /\ wallet = [u \in Users |-> [balance |-> 0, debt |-> 0]]
  /\ ledger = {}

-----------------------------------------------------------------------------

LedgerTypeOK ==
  /\ wallet \in [Users -> Row]
  /\ \A e \in ledger : /\ e.user \in Users
                       /\ e.kind \in Kinds
                       /\ e.delta \in Int \ {0}
                       /\ e.after \in Int

\* The coins that a set of entries moved.
Moved(entries) == SumFunction([e \in entries |-> e.delta])

\* The CHECK constraints on coin_wallets are a backstop the code never leans
\* on: spendable coins and refund debt are never negative, fit their column,
\* and a user in debt has nothing to spend (apply, coin_wallets constraints).
WalletRowsAreLegal ==
  \A u \in Users : /\ wallet[u].balance \in 0..IntMax
                   /\ wallet[u].debt \in 0..IntMax
                   /\ wallet[u].debt = 0 \/ wallet[u].balance = 0

\* An idempotency key names one movement of coins: retries, double taps and
\* redelivered callbacks never write a second entry under it (apply).
OneEntryPerKey ==
  \A e, f \in ledger : e.key = f.key => e = f

\* The entries of a user sum to the wallet net of refund debt, whatever mix of
\* top-ups, transfers, pool movements and refunds produced them (apply).
LedgerExplainsWallet ==
  \A u \in Users :
    Moved({e \in ledger : e.user = u}) = Net(wallet[u])

\* The ledger is append-only, and a wallet moves only together with exactly one
\* new entry of its user, by that entry's delta; the entry records the balance
\* it left behind (apply: balance and entry in one transaction).
JournalStep ==
  /\ ledger \subseteq ledger'
  /\ \A u \in Users :
       LET new == {e \in ledger' \ ledger : e.user = u}
       IN  \/ new = {} /\ wallet'[u] = wallet[u]
           \/ \E e \in new : /\ new = {e}
                             /\ Net(wallet'[u]) = Net(wallet[u]) + e.delta
                             /\ e.after = Net(wallet'[u])

EveryMoveIsJournalled == [][JournalStep]_ledgerVars

=============================================================================
