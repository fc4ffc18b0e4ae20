------------------------------- MODULE Funding ------------------------------
(***************************************************************************)
(* FundingService: pools of coins for a film.  A transaction that changes  *)
(* a pool first takes its row with a conditional UPDATE, so what it does   *)
(* afterwards is atomic; reads made before that (the replay check of       *)
(* contribute, the stake read by claimRefund) are steps of their own.      *)
(***************************************************************************)
EXTENDS CoinLedger

CONSTANTS Pools,
          Goals,          \* goals an admin may set; NoGoal is one of them
          NoGoal,
          Contributions,  \* coins a viewer may put in at once
          Payouts,        \* payouts an admin may set
          FundKeys,       \* idempotency keys a viewer may send
          FundCalls,      \* slots for requests in flight
          StakeRank       \* the order of the stakes' ids, for payout ties

ASSUME FundingConstants ==
  /\ Contributions \subseteq Nat \ {0}
  /\ Payouts \subseteq Nat
  /\ Goals \subseteq (Nat \ {0}) \cup {NoGoal}
  /\ NoGoal \notin Nat
  /\ StakeRank \in [Users -> Nat]
  /\ \A u, v \in Users : StakeRank[u] = StakeRank[v] => u = v

VARIABLES pool,      \* funding_pools
          stake,     \* pool_contributions: coins put in and coins refunded
          fundCall   \* requests in flight

fundingVars == <<pool, stake, fundCall>>

NoPool   == [status |-> "NONE"]
NoStake  == [coins |-> 0, refunded |-> 0, paid |-> 0]
FundIdle == [op |-> "idle"]

Pool == [status : {"OPEN", "CLOSED", "PAID_OUT", "CANCELLED"}, total : Int,
         goal : Goals, late : BOOLEAN, payout : Nat]

FundCall == {FundIdle}
  \cup [op : {"contribute"}, user : Users, pool : Pools, coins : Contributions, key : FundKeys]
  \cup [op : {"claim"}, user : Users, pool : Pools, coins : Nat, refunded : Nat]

FundingInit ==
  /\ pool = [p \in Pools |-> NoPool]
  /\ stake = [p \in Pools |-> [u \in Users |-> NoStake]]
  /\ fundCall = [c \in FundCalls |-> FundIdle]

NetStake(p) == [u \in Users |-> stake[p][u].coins - stake[p][u].refunded]

Settleable(p) == pool[p].status \in {"OPEN", "CLOSED"}

FundKey(p, u, k) == <<"fund", p, u, k>>

-----------------------------------------------------------------------------
(* planPayout: a payout of P coins over the live stakes of a pool, settled *)
(* in whole coins with the largest-remainder method.                       *)

\* held is a function from backers to coins; rank orders their ids.
Live(held) == {b \in DOMAIN held : held[b] > 0}

TotalStake(held) == SumFunction([b \in Live(held) |-> held[b]])

Base(held, P, b)      == (held[b] * P) \div TotalStake(held)
Remainder(held, P, b) == (held[b] * P) % TotalStake(held)

Leftover(held, P) == P - SumFunction([b \in Live(held) |-> Base(held, P, b)])

\* The sort of `order`: larger remainder, then larger stake, then smaller id.
Precedes(held, P, rank, a, b) ==
  \/ Remainder(held, P, a) > Remainder(held, P, b)
  \/ /\ Remainder(held, P, a) = Remainder(held, P, b)
     /\ \/ held[a] > held[b]
        \/ held[a] = held[b] /\ rank[a] < rank[b]

\* Mutant: one backer too many gets the coin.
HasBonusOneMore(held, P, rank, b) ==
  Cardinality({a \in Live(held) : Precedes(held, P, rank, a, b)}) <= Leftover(held, P)

\* The first `leftover` backers of that order get one coin more.
HasBonus(held, P, rank, b) ==
  Cardinality({a \in Live(held) : Precedes(held, P, rank, a, b)}) < Leftover(held, P)

\* The shares of the live stakes; a pool with none yields no shares at all.
Shares(held, P, rank) ==
  [b \in Live(held) |->
     Base(held, P, b) + (IF HasBonus(held, P, rank, b) THEN 1 ELSE 0)]

-----------------------------------------------------------------------------
(* Viewers.                                                                *)

\* contribute, up to the replay check.
BeginContribute(c, u, p, n, k) ==
  /\ fundCall[c] = FundIdle
  /\ FundKey(p, u, k) \notin Keys
  /\ fundCall' = [fundCall EXCEPT ![c] =
       [op |-> "contribute", user |-> u, pool |-> p, coins |-> n, key |-> k]]
  /\ UNCHANGED <<ledgerVars, pool, stake>>

\* fundTx: open, before the deadline, within the goal; then the debit and the
\* stake.  A key already posted, or a column that overflows, rolls it all back.
CommitContribute(c) ==
  /\ fundCall[c].op = "contribute"
  /\ LET u == fundCall[c].user
         p == fundCall[c].pool
         n == fundCall[c].coins
     IN  /\ pool[p].status = "OPEN" /\ ~pool[p].late
         /\ pool[p].goal # NoGoal => pool[p].total + n <= pool[p].goal
         /\ pool[p].total + n <= IntMax /\ stake[p][u].coins + n <= IntMax
         /\ Post({Write(u, "POOL_FUND", -n, FundKey(p, u, fundCall[c].key))})
         /\ pool' = [pool EXCEPT ![p].total = @ + n]
         /\ stake' = [stake EXCEPT ![p][u].coins = @ + n]
  /\ fundCall' = [fundCall EXCEPT ![c] = FundIdle]

\* claimRefund, the unlocked read of the stake at the head of the transaction.
BeginClaim(c, u, p) ==
  /\ fundCall[c] = FundIdle
  /\ NetStake(p)[u] > 0
  /\ fundCall' = [fundCall EXCEPT ![c] =
       [op |-> "claim", user |-> u, pool |-> p,
        coins |-> stake[p][u].coins, refunded |-> stake[p][u].refunded]]
  /\ UNCHANGED <<ledgerVars, pool, stake>>

ClaimKey(p, u, refunded) == <<"refund", p, u, refunded>>

\* Mutant: the claim is honoured on a closed pool.
CommitClaimWhenClosed(c) ==
  /\ fundCall[c].op = "claim"
  /\ LET u   == fundCall[c].user
         p   == fundCall[c].pool
         was == fundCall[c].refunded
         net == fundCall[c].coins - was
     IN  /\ Settleable(p)
         /\ stake[p][u].refunded = was
         /\ Post({Write(u, "POOL_REFUND", net, ClaimKey(p, u, was))})
         /\ pool' = [pool EXCEPT ![p].total = @ - net]
         /\ stake' = [stake EXCEPT ![p][u].refunded = fundCall[c].coins]
  /\ fundCall' = [fundCall EXCEPT ![c] = FundIdle]

\* claimRefund, from the pool row on: refused when the pool is not OPEN or the
\* stake was refunded since it was read; coins added since then stay in.
CommitClaim(c) ==
  /\ fundCall[c].op = "claim"
  /\ LET u   == fundCall[c].user
         p   == fundCall[c].pool
         was == fundCall[c].refunded
         net == fundCall[c].coins - was
     IN  /\ pool[p].status = "OPEN"
         /\ stake[p][u].refunded = was
         /\ Post({Write(u, "POOL_REFUND", net, ClaimKey(p, u, was))})
         /\ pool' = [pool EXCEPT ![p].total = @ - net]
         /\ stake' = [stake EXCEPT ![p][u].refunded = fundCall[c].coins]
  /\ fundCall' = [fundCall EXCEPT ![c] = FundIdle]

\* The request is refused or replayed, or its process goes away.
EndFundCall(c) ==
  /\ fundCall[c] # FundIdle
  /\ fundCall' = [fundCall EXCEPT ![c] = FundIdle]
  /\ UNCHANGED <<ledgerVars, pool, stake>>

-----------------------------------------------------------------------------
(* Admins.                                                                 *)

CreatePool(p, goal) ==
  /\ pool[p] = NoPool
  /\ pool' = [pool EXCEPT ![p] = [status |-> "OPEN", total |-> 0, goal |-> goal,
                                  late |-> FALSE, payout |-> 0]]
  /\ UNCHANGED <<ledgerVars, stake, fundCall>>

\* The clock passes closes_at; nothing in the code closes the pool then.
PassDeadline(p) ==
  /\ pool[p].status = "OPEN" /\ ~pool[p].late
  /\ pool' = [pool EXCEPT ![p].late = TRUE]
  /\ UNCHANGED <<ledgerVars, stake, fundCall>>

ClosePool(p) ==
  /\ pool[p].status = "OPEN"
  /\ pool' = [pool EXCEPT ![p].status = "CLOSED"]
  /\ UNCHANGED <<ledgerVars, stake, fundCall>>

\* payout: the flip, the plan over the stakes, a share for every live stake.
\* A plan whose total is not the pool counter rolls everything back.
PayOut(p, P) ==
  LET plan == Shares(NetStake(p), P, StakeRank)
  IN  /\ Settleable(p)
      /\ TotalStake(NetStake(p)) = pool[p].total
      /\ Post({Write(u, "POOL_PAYOUT", plan[u], <<"payout", p, u>>) :
                 u \in {v \in DOMAIN plan : plan[v] > 0}})
      /\ pool' = [pool EXCEPT ![p].status = "PAID_OUT", ![p].payout = P]
      /\ stake' = [stake EXCEPT ![p] =
           [u \in Users |-> IF u \in DOMAIN plan
                            THEN [stake[p][u] EXCEPT !.paid = plan[u]]
                            ELSE stake[p][u]]]
      /\ UNCHANGED fundCall

\* cancel: every live stake goes back to its wallet.
CancelPool(p) ==
  LET net == NetStake(p)
  IN  /\ Settleable(p)
      /\ Post({Write(u, "POOL_REFUND", net[u], <<"cancel", p, u>>) : u \in Live(net)})
      /\ pool' = [pool EXCEPT ![p].status = "CANCELLED", ![p].total = 0]
      /\ stake' = [stake EXCEPT ![p] =
           [u \in Users |-> IF u \in Live(net)
                            THEN [stake[p][u] EXCEPT !.refunded = @ + net[u]]
                            ELSE stake[p][u]]]
      /\ UNCHANGED fundCall

FundingNext ==
  \/ \E p \in Pools :
       \/ \E goal \in Goals : CreatePool(p, goal)
       \/ PassDeadline(p) \/ ClosePool(p) \/ CancelPool(p)
       \/ \E P \in Payouts : PayOut(p, P)
  \/ \E c \in FundCalls :
       \/ \E u \in Users, p \in Pools :
            \/ \E n \in Contributions, k \in FundKeys : BeginContribute(c, u, p, n, k)
            \/ BeginClaim(c, u, p)
       \/ CommitContribute(c) \/ CommitClaim(c) \/ EndFundCall(c)

-----------------------------------------------------------------------------
(* Properties.                                                             *)

FundingTypeOK ==
  /\ pool \in [Pools -> Pool \cup {NoPool}]
  /\ stake \in [Pools -> [Users -> [coins : Nat, refunded : Nat, paid : Nat]]]
  /\ fundCall \in [FundCalls -> FundCall]

\* The pool counter and the stakes agree at every commit, so the check that
\* payout makes "before any money moves" never fails, whatever contributions,
\* claims on stale stakes, payouts and cancellations interleave.
PoolCountsItsStakes ==
  \A p \in Pools :
    /\ \A u \in Users : stake[p][u].refunded <= stake[p][u].coins
    /\ SumFunction(NetStake(p)) = IF pool[p] = NoPool THEN 0 ELSE pool[p].total

PoolEntries(p, u) ==
  {e \in ledger : \/ \E k \in FundKeys : e.key = FundKey(p, u, k)
                  \/ \E n \in 0..IntMax : e.key = ClaimKey(p, u, n)
                  \/ e.key \in {<<"cancel", p, u>>, <<"payout", p, u>>}}

\* What a backer put in, got back and was paid is what the ledger moved between
\* this backer's wallet and the pool, through every claim, cancellation and
\* payout (fundTx, claimRefund, payout, cancel).
StakesAreJournalled ==
  \A p \in Pools, u \in Users :
    Moved(PoolEntries(p, u)) = stake[p][u].refunded + stake[p][u].paid - stake[p][u].coins

\* A settled pool stays as it was settled: no later contribution, claim or
\* second settlement reaches its row or its stakes, also one that read them
\* while the pool was open (the pool row first, the conditional flips).
SettlementIsFinal ==
  [][\A p \in Pools :
       pool[p].status \in {"PAID_OUT", "CANCELLED"} =>
         pool'[p] = pool[p] /\ stake'[p] = stake[p]]_<<pool, stake>>

\* A refund claim is honoured only while the pool is OPEN: once the pool is
\* closed no backer's share of it changes until the settlement itself.
ClosedPoolKeepsItsStakes ==
  [][\A p \in Pools :
       pool[p].status = "CLOSED" /\ pool'[p].status = "CLOSED" =>
         stake'[p] = stake[p]]_<<pool, stake>>

\* A payout over a pool that holds coins credits exactly the payout, and a
\* backer's share is within one coin of stake * payout / total (planPayout).
PayoutIsExact ==
  \A p \in Pools :
    pool[p].status = "PAID_OUT" /\ pool[p].total > 0 =>
      /\ SumFunction([u \in Users |-> stake[p][u].paid]) = pool[p].payout
      /\ \A u \in Users :
           LET exact == NetStake(p)[u] * pool[p].payout
               share == stake[p][u].paid * pool[p].total
           IN  share - exact < pool[p].total /\ exact - share < pool[p].total

\* A pool's total is what its live stakes add up to, each stake is what the ledger says
\* its backer put in and took out, and a payout hands out exactly what was set
\* (contribute, claimRefund, payout, cancel, planPayout).
PoolsAreExact == PoolCountsItsStakes /\ StakesAreJournalled /\ PayoutIsExact

\* A pool that was settled never moves again, and one that is closed to claims gives no
\* stake back (payout, cancel, claimRefund).
SettledPoolRests == SettlementIsFinal /\ ClosedPoolKeepsItsStakes

=============================================================================
