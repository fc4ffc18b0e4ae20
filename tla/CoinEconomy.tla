----------------------------- MODULE CoinEconomy ----------------------------
(***************************************************************************)
(* The components that move coins, over one wallet table and one ledger:   *)
(* gateway top-ups and transfers, the two app stores, funding pools.       *)
(* Tickets bought with coins are outside: Commerce has their debits.       *)
(***************************************************************************)
EXTENDS CoinWallet, AppleCoins, GooglePlayCoins, Funding

vars == <<ledgerVars, coinWalletVars, appleVars, playVars, fundingVars>>

Init == LedgerInit /\ WalletInit /\ AppleInit /\ PlayInit /\ FundingInit

Next ==
  \/ WalletNext  /\ UNCHANGED <<appleVars, playVars, fundingVars>>
  \/ AppleNext   /\ UNCHANGED <<coinWalletVars, playVars, fundingVars>>
  \/ PlayNext    /\ UNCHANGED <<coinWalletVars, appleVars, fundingVars>>
  \/ FundingNext /\ UNCHANGED <<coinWalletVars, appleVars, playVars>>

Spec == Init /\ [][Next]_vars

-----------------------------------------------------------------------------

TypeOK == WalletTypeOK /\ AppleTypeOK /\ PlayTypeOK /\ FundingTypeOK

PaidPurchases == {t \in AppleTxns : appleTopup[t] = "PAID"}

\* Coins bought: PAID top-ups of the gateway and of the two stores.
Bought ==
  SumFunction([r \in PaidTopups |-> topup[r].coins])
  + SumFunction([t \in PaidPurchases |-> PackCoins[t]])
  + SumFunction([t \in playTopup |-> TokenCoins[t]])

\* Coins held in pools that are not settled yet.
Pooled == SumFunction([p \in {q \in Pools : Settleable(q)} |-> pool[p].total])

\* What settled payouts issued over what their pools had taken in.
Issued ==
  SumFunction([p \in {q \in Pools : pool[q].status = "PAID_OUT" /\ pool[q].total > 0} |->
                 pool[p].payout - pool[p].total])

\* None of these components mints or loses a coin: wallets (net of refund debt)
\* and open pools hold what was bought plus what payouts issued.
CoinsAreConserved ==
  SumFunction([u \in Users |-> Net(wallet[u])]) + Pooled = Bought + Issued

\* Top-ups, transfers, the stores and the pools mint and lose no coin: wallets and open
\* pools hold what was bought plus what payouts issued, and each wallet is the sum of its
\* entries, in well-typed tables (apply). Tickets bought with coins are not among them.
CoinsAddUp == CoinsAreConserved /\ LedgerExplainsWallet /\ TypeOK

=============================================================================
