----------------------------- MODULE WalletLocks ----------------------------
(***************************************************************************)
(* The order in which the coin transactions take their row locks and their *)
(* unique ledger keys.  A lock is held to the end of the transaction, and  *)
(* an insert waits for the uncommitted insert of the same key; the data    *)
(* the transactions move is in CoinWallet, Funding and Commerce.           *)
(***************************************************************************)
EXTENDS Integers, Sequences, SequencesExt, FiniteSets

CONSTANTS Jobs,  \* the transactions that run
          Task   \* what each one does, a record

ASSUME LockConstants ==
  \A j \in Jobs :
    Task[j].kind \in {"transfer", "contribute", "claim", "settle", "ticket", "topup"}

VARIABLES at,      \* locks each transaction holds, as an index into its plan
          over,    \* how it ended: "running", "committed", "aborted"
          written  \* ledger keys of committed transactions

lockVars == <<at, over, written>>

PoolRow(p) == <<"pool", p>>
Wallet(u)  == <<"wallet", u>>
TopupRow(r)   == <<"topup", r>>

\* apply: the wallet row, then the key of the entry.
Apply(u, key) == <<Wallet(u), <<"key", key>>>>

\* Mutant: the sender first, whatever its id.
TransferPlanSenderFirst(j) == Apply(j.user, <<j.key, "out">>) \o Apply(j.to, <<j.key, "in">>)

\* transfer: the two wallets in ascending id order.
TransferPlan(j) ==
  LET out == Apply(j.user, <<j.key, "out">>)
      in  == Apply(j.to, <<j.key, "in">>)
  IN  IF j.user < j.to THEN out \o in ELSE in \o out

\* payout and cancel: the pool row, then every backer in ascending id order.
SettlePlan(j) ==
  <<PoolRow(j.pool)>>
    \o FlattenSeq([i \in 1..Cardinality(j.backers) |->
         LET u == SetToSortSeq(j.backers, LAMBDA a, b : a < b)[i]
         IN  Apply(u, <<"settle", j.pool, u>>)])

Plan(j) ==
  CASE j.kind = "transfer" -> TransferPlan(j)
    [] j.kind = "settle"   -> SettlePlan(j)
    [] j.kind = "topup"    -> <<TopupRow(j.key)>> \o Apply(j.user, <<"topup", j.key>>)
    [] j.kind = "ticket"   -> Apply(j.user, <<"ticket", j.key>>)
    [] OTHER               -> <<PoolRow(j.pool)>> \o Apply(j.user, <<j.kind, j.key>>)

Plans == [j \in Jobs |-> Plan(Task[j])]

LocksInit ==
  /\ at = [j \in Jobs |-> 0]
  /\ over = [j \in Jobs |-> "running"]
  /\ written = {}

Running(j) == over[j] = "running"
Held(j)    == IF Running(j) THEN {Plans[j][i] : i \in 1..at[j]} ELSE {}
Wanted(j)  == Plans[j][at[j] + 1]

IsKey(lock) == lock[1] = "key"

Waits(j) == /\ Running(j) /\ at[j] < Len(Plans[j])
            /\ \E k \in Jobs \ {j} : Wanted(j) \in Held(k)

\* The next statement gets its lock; a key that is already in the ledger aborts.
Lock(j) ==
  /\ Running(j) /\ at[j] < Len(Plans[j])
  /\ ~Waits(j)
  /\ IF IsKey(Wanted(j)) /\ Wanted(j) \in written
     THEN over' = [over EXCEPT ![j] = "aborted"] /\ UNCHANGED at
     ELSE at' = [at EXCEPT ![j] = @ + 1] /\ UNCHANGED over
  /\ UNCHANGED written

Commit(j) ==
  /\ Running(j) /\ at[j] = Len(Plans[j])
  /\ over' = [over EXCEPT ![j] = "committed"]
  /\ written' = written \cup {l \in Held(j) : IsKey(l)}
  /\ UNCHANGED at

LocksNext == \E j \in Jobs : Lock(j) \/ Commit(j)

\* The database goes on as long as some transaction is not waiting for a lock.
LocksFairness == WF_lockVars(LocksNext)

LocksSpec == LocksInit /\ [][LocksNext]_lockVars /\ LocksFairness

-----------------------------------------------------------------------------

\* "Deadlock-free locking. Locks are taken on the pool row first, then on
\* wallets in ascending user id": every transaction ends, committed or aborted,
\* and none waits for ever on the others (transfer, payout, cancel, claimRefund).
EveryTransactionEnds == <>(\A j \in Jobs : ~Running(j))

=============================================================================
