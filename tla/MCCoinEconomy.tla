---------------------------- MODULE MCCoinEconomy ---------------------------
(***************************************************************************)
(* Two scenarios of CoinEconomy, chosen at the start: one buyer at the app *)
(* stores who also sends coins away, and two backers of a pool.            *)
(***************************************************************************)
EXTENDS CoinEconomy, TLC

CONSTANTS u1, u2, t1, t2, g1

VARIABLE part

MCUsers == {u1, u2}
MCRank  == u1 :> 1 @@ u2 :> 2

\* One Apple purchase for each user.
MCOwner == t1 :> u1 @@ t2 :> u2
MCPack  == t1 :> 2 @@ t2 :> 2

\* A refund of t1, its reversal, and a second refund.
MCNotices ==
  {[txn |-> t1, type |-> "REFUND", signedAt |-> 1],
   [txn |-> t1, type |-> "REFUND_REVERSED", signedAt |-> 2],
   [txn |-> t1, type |-> "REFUND", signedAt |-> 3]}

MCTokenOwner == g1 :> u1
MCTokenCoins == g1 :> 2

Start == Init /\ part \in {"stores", "pool"}

Stores ==
  /\ \/ WalletNext /\ UNCHANGED <<appleVars, playVars>>
     \/ AppleNext  /\ UNCHANGED <<coinWalletVars, playVars>>
     \/ PlayNext   /\ UNCHANGED <<coinWalletVars, appleVars>>
  /\ appleTopup'[t2] = "NONE"
  /\ UNCHANGED fundingVars

\* The backers buy their coins at Apple.
Backers ==
  /\ \/ \E t \in AppleTxns : ConfirmApple(t) /\ UNCHANGED fundingVars
     \/ FundingNext /\ UNCHANGED appleVars
  /\ UNCHANGED <<coinWalletVars, playVars>>

Step ==
  /\ UNCHANGED part
  /\ \/ part = "stores" /\ Stores
     \/ part = "pool" /\ Backers

EconomySpec == Start /\ [][Step]_<<vars, part>>

-----------------------------------------------------------------------------

\* Play calls are also the funding calls: no part uses both.
Symmetry == Permutations(PlayCalls)

=============================================================================
