---------------------------- MODULE EconomyProofs ---------------------------
(***************************************************************************)
(* The coin economy, for any users, purchases, notices, tokens, pools and  *)
(* requests: the shares of a payout add up to it, pools hold what their    *)
(* backers put in, purchases net to what the store last said of them, and  *)
(* no coin is minted or lost.                                              *)
(***************************************************************************)
EXTENDS CoinEconomy, CoinWalletProofs, SumLemmas

-----------------------------------------------------------------------------
(* planPayout.                                                             *)

\* Whole-number division.
LEMMA DivMod ==
  ASSUME NEW a \in Nat, NEW d \in Nat, d > 0
  PROVE  /\ a \div d \in Nat
         /\ a % d \in 0..(d - 1)
         /\ a = d * (a \div d) + (a % d)
OBVIOUS

\* The total of the live stakes is the total of all stakes, and counts something
\* as soon as one stake is live.
LEMMA TotalOfStakes ==
  ASSUME NEW held \in [Users -> Nat]
  PROVE  /\ IsFiniteSet(Live(held)) /\ Live(held) \subseteq Users
         /\ TotalStake(held) = SumFunction(held)
         /\ TotalStake(held) \in Nat
         /\ Live(held) # {} => TotalStake(held) > 0
<1> DEFINE L == Live(held)
           f == [b \in L |-> held[b]]
<1>1. L \in SUBSET Users /\ IsFiniteSet(Users)
  BY LedgerConstants DEF Live
<1>2. IsFiniteSet(L)
  BY <1>1, FS_Subset
<1>3. f \in [L -> Nat] /\ held \in [Users -> Int]
  BY <1>1
<1>4. TotalStake(held) = SumFunctionOnSet(f, L)
  BY DEF TotalStake, SumFunction
<1>5. SumFunctionOnSet(f, L) = SumFunctionOnSet(held, L)
  BY <1>2, SumAgree
<1>6. SumFunctionOnSet(held, L) = SumFunctionOnSet(held, Users)
  <2>1. \A u \in Users \ L : held[u] = 0
    BY DEF Live
  <2> QED BY <1>1, <1>3, <2>1, SumSupport
<1>7. TotalStake(held) = SumFunction(held)
  BY <1>4, <1>5, <1>6 DEF SumFunction
<1>8. TotalStake(held) \in Nat
  BY <1>1, <1>7, SumNat
<1>9. ASSUME NEW b \in L
      PROVE  TotalStake(held) > 0
  <2> DEFINE g == [x \in L \ {b} |-> held[x]]
  <2>1. g \in [L \ {b} -> Nat] /\ g \in [L \ {b} -> Int] /\ IsFiniteSet(L \ {b})
    BY <1>1, <1>2, FS_RemoveElement
  <2>2. f \in [L -> Int] /\ \A y \in L \ {b} : g[y] = f[y]
    BY <1>3
  <2>3. f[b] \in Nat /\ f[b] > 0
    BY <1>1 DEF Live
  <2> HIDE DEF f, g
  <2>4. SumFunction(f) = SumFunction(g) + f[b]
    BY SMTT(30), <1>2, <2>1, <2>2, SumRemove
  <2>5. SumFunction(g) \in Nat
    BY <2>1, SumNat
  <2>6. SumFunction(f) > 0
    BY <2>3, <2>4, <2>5
  <2> QED BY <2>6 DEF TotalStake, f
<1> QED BY <1>1, <1>2, <1>7, <1>8, <1>9

\* Cancelling a positive factor.
LEMMA CancelFactor ==
  ASSUME NEW t \in Nat, t > 0, NEW k \in Int, NEW m \in Nat
  PROVE  /\ t * k >= 0 => k >= 0
         /\ t * k <= (t - 1) * m => k <= m
<1>1. ASSUME k < 0 PROVE t * k < 0
  BY <1>1
<1>2. ASSUME k > m PROVE t * k > (t - 1) * m
  <2>1. t * k >= t * (m + 1)
    BY <1>2
  <2>2. t * (m + 1) = (t - 1) * m + m + t
    OBVIOUS
  <2> QED BY <2>1, <2>2
<1>3. t * k \in Int /\ (t - 1) * m \in Int
  OBVIOUS
<1> QED BY <1>1, <1>2, <1>3

\* A share of m or, when something was left of it, m + 1 coins is within one coin.
LEMMA WithinOne ==
  ASSUME NEW t \in Nat, t > 0, NEW m \in Nat, NEW n \in {0, 1}, NEW r \in 0..(t - 1),
         n = 1 => r > 0
  PROVE  /\ (m + n) * t - (t * m + r) < t
         /\ (t * m + r) - (m + n) * t < t
<1>1. CASE n = 0
  <2>1. (m + n) * t = t * m /\ t * m \in Nat
    BY <1>1
  <2> QED BY <1>1, <2>1
<1>2. CASE n = 1
  <2>1. (m + n) * t = t * m + t /\ t * m \in Nat
    BY <1>2
  <2> QED BY <1>2, <2>1
<1> QED BY <1>1, <1>2

\* The order in which planPayout gives the leftover coins away is a line.
LEMMA PrecedesLines ==
  ASSUME NEW held \in [Users -> Nat], NEW P \in Nat, TotalStake(held) > 0
  PROVE  Lines({x \in Users \X Users : Precedes(held, P, StakeRank, x[1], x[2])}, Live(held))
<1> DEFINE L == Live(held)
           rem(b) == Remainder(held, P, b)
<1>1. \A b \in L : b \in Users /\ rem(b) \in Int /\ held[b] \in Int /\ StakeRank[b] \in Int
  <2>1. ASSUME NEW b \in L
        PROVE  b \in Users /\ rem(b) \in Int /\ held[b] \in Int /\ StakeRank[b] \in Int
    <3>1. b \in Users /\ held[b] \in Nat /\ StakeRank[b] \in Nat
      BY FundingConstants DEF Live
    <3>2. held[b] * P \in Nat /\ TotalStake(held) \in Nat
      BY <3>1, TotalOfStakes
    <3>3. rem(b) \in Int
      BY <3>2, DivMod DEF Remainder
    <3> QED BY <3>1, <3>3
  <2> QED BY <2>1
<1>2. \A a, b \in L : StakeRank[a] = StakeRank[b] => a = b
  BY <1>1, FundingConstants
<1>3. \A a, b : Precedes(held, P, StakeRank, a, b) <=>
                  \/ rem(a) > rem(b)
                  \/ /\ rem(a) = rem(b)
                     /\ \/ held[a] > held[b]
                        \/ held[a] = held[b] /\ StakeRank[a] < StakeRank[b]
  BY DEF Precedes
<1> DEFINE R == {x \in Users \X Users : Precedes(held, P, StakeRank, x[1], x[2])}
<1>4. \A a, b \in L : <<a, b>> \in R <=> Precedes(held, P, StakeRank, a, b)
  BY <1>1
<1> HIDE DEF rem, L, R
<1>5. \A a \in L : <<a, a>> \notin R
  BY <1>1, <1>3, <1>4
<1>6. \A a, b \in L : a = b \/ <<a, b>> \in R \/ <<b, a>> \in R
  <2> SUFFICES ASSUME NEW a \in L, NEW b \in L, <<a, b>> \notin R, <<b, a>> \notin R
               PROVE  a = b
    OBVIOUS
  <2>1. rem(a) = rem(b) /\ held[a] = held[b] /\ StakeRank[a] = StakeRank[b]
    BY <1>1, <1>3, <1>4
  <2> QED BY <1>2, <2>1
<1>7. \A a, b, c \in L : <<a, b>> \in R /\ <<b, c>> \in R => <<a, c>> \in R
  BY <1>1, <1>3, <1>4
<1>8. Lines(R, L)
  BY <1>5, <1>6, <1>7 DEF Lines
<1> QED BY <1>8 DEF R, L

\* A payout over stakes that hold something is divided into whole coins that add up
\* to it, each backer's share within one coin of stake * payout / total (planPayout).
LEMMA PlanIsExact ==
  ASSUME NEW held \in [Users -> Nat], NEW P \in Nat, TotalStake(held) > 0
  PROVE  LET plan  == Shares(held, P, StakeRank)
             total == TotalStake(held)
         IN  /\ plan \in [Live(held) -> Nat]
             /\ SumFunction(plan) = P
             /\ \A b \in Live(held) : /\ plan[b] * total - held[b] * P < total
                                      /\ held[b] * P - plan[b] * total < total
<1> DEFINE L == Live(held)
           T == TotalStake(held)
           base == [b \in L |-> Base(held, P, b)]
           rem == [b \in L |-> Remainder(held, P, b)]
           K == Leftover(held, P)
           Pos == {b \in L : rem[b] > 0}
           B == {b \in L : HasBonus(held, P, StakeRank, b)}
           bonus == [b \in L |-> IF b \in B THEN 1 ELSE 0]
           R == {x \in Users \X Users : Precedes(held, P, StakeRank, x[1], x[2])}
<1>1. L \subseteq Users /\ IsFiniteSet(L) /\ T \in Nat /\ T > 0
  BY TotalOfStakes
<1>2. \A b \in L : /\ held[b] \in Nat
                   /\ base[b] \in Nat
                   /\ rem[b] \in 0..(T - 1)
                   /\ held[b] * P = T * base[b] + rem[b]
  <2>1. ASSUME NEW b \in L
        PROVE  /\ held[b] \in Nat
               /\ base[b] \in Nat
               /\ rem[b] \in 0..(T - 1)
               /\ held[b] * P = T * base[b] + rem[b]
    <3>1. held[b] \in Nat /\ held[b] * P \in Nat
      BY <1>1
    <3>2. base[b] = (held[b] * P) \div T /\ rem[b] = (held[b] * P) % T
      BY DEF Base, Remainder
    <3> HIDE DEF base, rem, T
    <3> QED BY <1>1, <3>1, <3>2, DivMod
  <2> QED BY <2>1
<1>3. base \in [L -> Int] /\ rem \in [L -> Int] /\ rem \in [L -> Nat]
  <2>1. \A b \in L : base[b] \in Int /\ rem[b] \in Nat
    BY <1>1, <1>2
  <2> QED BY <2>1
<1>4. P * T = T * SumFunction(base) + SumFunction(rem)
  <2> DEFINE f == [b \in L |-> held[b]]
             g == [b \in L |-> T * base[b]]
  <2>1. f \in [L -> Int] /\ g \in [L -> Int]
    <3>1. \A b \in L : held[b] \in Int /\ T * base[b] \in Int
      BY <1>1, <1>2
    <3> QED BY <3>1
  <2>2. SumFunction(f) = T
    BY DEF TotalStake
  <2>3. [b \in L |-> P * f[b]] = [b \in L |-> g[b] + rem[b]]
    <3>1. \A b \in L : P * held[b] = T * base[b] + rem[b]
      BY <1>2
    <3> HIDE DEF base, rem, T
    <3> QED BY <3>1
  <2> HIDE DEF base, rem, T, f
  <2>4. SumFunction([b \in L |-> P * f[b]]) = P * T
    <3>1. P \in Int
      OBVIOUS
    <3>2. SumFunction([b \in L |-> P * f[b]]) = P * SumFunction(f)
      BY <1>1, <2>1, <3>1, SumTimes
    <3> QED BY <2>2, <3>2
  <2>5. SumFunction(g) = T * SumFunction(base)
    BY <1>1, <1>3, SumTimes
  <2> HIDE DEF g
  <2>6. SumFunction([b \in L |-> g[b] + rem[b]]) = SumFunction(g) + SumFunction(rem)
    BY <1>1, <1>3, <2>1, SumPlus
  <2> QED BY <2>3, <2>4, <2>5, <2>6
<1>5. K = P - SumFunction(base)
  BY DEF Leftover
<1>6. SumFunction(base) \in Int /\ SumFunction(rem) \in Nat
  <2> HIDE DEF base, rem
  <2> QED BY <1>1, <1>3, SumInt, SumNat
<1>7. K \in Int /\ T * K = SumFunction(rem)
  <2> HIDE DEF base, rem, T, K
  <2>1. T * (P - SumFunction(base)) = P * T - T * SumFunction(base)
    BY <1>1, <1>6
  <2> QED BY <1>1, <1>4, <1>5, <1>6, <2>1
<1>8. IsFiniteSet(Pos) /\ Cardinality(Pos) \in Nat /\ Cardinality(Pos) <= Cardinality(L)
  BY <1>1, FS_Subset, FS_CardinalityType
<1>9. SumFunction(rem) <= (T - 1) * Cardinality(Pos)
  <2> DEFINE f == [b \in Pos |-> rem[b]]
  <2>1. f \in [Pos -> Int] /\ \A b \in Pos : f[b] <= T - 1
    <3>1. \A b \in Pos : rem[b] \in Int /\ rem[b] <= T - 1
      BY <1>1, <1>2
    <3> QED BY <3>1
  <2>2. SumFunction(f) <= (T - 1) * Cardinality(Pos)
    <3> HIDE DEF f, Pos, T
    <3> QED BY <1>1, <1>8, <2>1, SumBelow
  <2>3. \A b \in L \ Pos : rem[b] = 0
    <3>1. \A b \in L \ Pos : rem[b] \in 0..(T - 1) /\ ~ (rem[b] > 0)
      BY <1>2
    <3> HIDE DEF rem, Pos, T
    <3> QED BY <1>1, <3>1
  <2>4. Pos \in SUBSET L /\ \A b \in Pos : f[b] = rem[b]
    OBVIOUS
  <2>5. SumFunctionOnSet(rem, Pos) = SumFunctionOnSet(rem, L)
    <3> HIDE DEF rem, Pos, f
    <3> QED BY <1>1, <1>3, <2>3, <2>4, SumSupport
  <2>6. SumFunctionOnSet(f, Pos) = SumFunctionOnSet(rem, Pos)
    <3> HIDE DEF rem, Pos, f
    <3> QED BY <1>8, <2>4, SumAgree
  <2>7. SumFunction(f) = SumFunction(rem)
    BY <2>5, <2>6 DEF SumFunction
  <2> QED BY <2>2, <2>7
<1>10. K >= 0 /\ K <= Cardinality(Pos)
  <2> HIDE DEF K, T, Pos, rem
  <2>1. T * K >= 0 /\ T * K <= (T - 1) * Cardinality(Pos)
    BY <1>6, <1>7, <1>9
  <2> QED BY <1>1, <1>7, <1>8, <2>1, CancelFactor
<1>11. \A b \in L : Before(R, L, b) = {a \in L : Precedes(held, P, StakeRank, a, b)}
  BY <1>1 DEF Before
<1>12. Lines(R, L)
  BY PrecedesLines
<1>13. Cardinality(B) = K
  <2>1. B = {b \in L : Cardinality(Before(R, L, b)) < K}
    <3> HIDE DEF R, K
    <3> QED BY <1>11 DEF HasBonus, K
  <2>2. Cardinality(L) \in Nat
    BY <1>1, FS_CardinalityType
  <2> HIDE DEF B, R, K, L, Pos
  <2>3. K \in 0..Cardinality(L)
    BY <1>7, <1>8, <1>10, <2>2
  <2> QED BY <1>1, <1>12, <2>1, <2>3, FirstOfLine
<1>14. \A b \in B : rem[b] > 0
  <2> SUFFICES ASSUME NEW b \in B, ~ (rem[b] > 0) PROVE FALSE
    OBVIOUS
  <2>1. b \in L /\ rem[b] = 0
    BY <1>1, <1>2
  <2>2. \A a \in Pos : Precedes(held, P, StakeRank, a, b)
    BY <2>1 DEF Precedes
  <2>3. Pos \in SUBSET Before(R, L, b)
    BY <1>11, <2>1, <2>2
  <2>4. IsFiniteSet(Before(R, L, b)) /\ Cardinality(Before(R, L, b)) \in Nat
    BY <1>1, FS_Subset, FS_CardinalityType DEF Before
  <2>5. Cardinality(Pos) <= Cardinality(Before(R, L, b))
    <3> HIDE DEF Pos, R, L
    <3> QED BY <2>3, <2>4, FS_Subset
  <2>6. Cardinality(Before(R, L, b)) < K
    BY <1>11, <2>1 DEF HasBonus
  <2> HIDE DEF Pos, R, L, K
  <2> QED BY <1>7, <1>8, <1>10, <2>4, <2>5, <2>6
<1>15. bonus \in [L -> Int] /\ SumFunction(bonus) = K
  <2>1. B \in SUBSET L
    OBVIOUS
  <2>2. bonus \in [L -> Int]
    OBVIOUS
  <2> HIDE DEF B, L
  <2> QED BY <1>1, <1>13, <2>1, <2>2, SumCount
<1> DEFINE plan == Shares(held, P, StakeRank)
<1>16. plan = [b \in L |-> base[b] + bonus[b]]
  BY DEF Shares
<1>17. SumFunction(plan) = P
  <2> HIDE DEF base, bonus, L, plan, K
  <2>1. SumFunction([b \in L |-> base[b] + bonus[b]]) = SumFunction(base) + SumFunction(bonus)
    BY <1>1, <1>3, <1>15, SumPlus
  <2> QED BY <1>5, <1>6, <1>15, <1>16, <2>1
<1>18. ASSUME NEW b \in L
       PROVE  /\ plan[b] \in Nat
              /\ plan[b] * T - held[b] * P < T
              /\ held[b] * P - plan[b] * T < T
  <2>1. plan[b] = base[b] + bonus[b]
    BY <1>16
  <2>2. bonus[b] \in {0, 1} /\ (bonus[b] = 1 => rem[b] > 0)
    BY <1>14
  <2>3. base[b] \in Nat /\ rem[b] \in 0..(T - 1) /\ held[b] * P = T * base[b] + rem[b]
    BY <1>2
  <2> HIDE DEF base, rem, bonus, plan, T, L
  <2>4. plan[b] \in Nat
    BY <2>1, <2>2, <2>3
  <2> QED BY <1>1, <2>1, <2>2, <2>3, <2>4, WithinOne
<1>19. plan \in [L -> Nat]
  BY <1>16, <1>18
<1> QED BY <1>17, <1>18, <1>19

-----------------------------------------------------------------------------
(* Transactions.                                                           *)

\* The first parts of the keys that each component writes under.
WalletTags == {"topup", "transfer"}
AppleTags  == {"apple_coin", "apple_refund", "apple_refund_reversal"}
PlayTags   == {"google_play"}
PoolTags   == {"fund", "refund", "payout", "cancel"}

\* A component posts a transaction under its own keys.
Posts(writes, tags) ==
  /\ IsTransaction(writes) /\ IsFiniteSet(writes)
  /\ Post(writes)
  /\ \A w \in writes : w.key[1] \in tags

\* One write is a transaction.
LEMMA OneWrite ==
  ASSUME NEW u \in Users, NEW kind \in Kinds, NEW n \in Int \ {0}, NEW key,
         NEW tags, Post({Write(u, kind, n, key)}), key[1] \in tags
  PROVE  Posts({Write(u, kind, n, key)}, tags)
<1>1. IsTransaction({Write(u, kind, n, key)})
  BY DEF IsTransaction, IsWrite, Write
<1>2. IsFiniteSet({Write(u, kind, n, key)})
  BY FS_Singleton
<1> QED BY <1>1, <1>2 DEF Posts, Write

\* No write is a transaction that changes nothing.
LEMMA NoWrite ==
  ASSUME LedgerTypeOK, Post({})
  PROVE  UNCHANGED ledgerVars
BY DEF Post, WritesOf, LedgerTypeOK, ledgerVars

\* One write for each of some users is a transaction.
LEMMA WriteEach ==
  ASSUME NEW S \in SUBSET Users, NEW kind \in Kinds, NEW n, NEW key, NEW writes, NEW tags,
         \A u \in S : n[u] \in Int \ {0},
         \A u \in S : key[u][1] \in tags,
         \A u, v \in S : key[u] = key[v] => u = v,
         \A w \in writes : \E u \in S : w = Write(u, kind, n[u], key[u]),
         \A u \in S : Write(u, kind, n[u], key[u]) \in writes,
         Post(writes)
  PROVE  Posts(writes, tags)
<1> DEFINE f == [u \in S |-> Write(u, kind, n[u], key[u])]
<1>1. \A u \in S : /\ f[u].user = u /\ f[u].key = key[u]
                   /\ IsWrite(f[u])
  BY DEF Write, IsWrite
<1>2. f \in Surjection(S, writes)
  BY DEF Surjection
<1>3. \A w \in writes : \E u \in S : w = f[u]
  OBVIOUS
<1> HIDE DEF f
<1>4. IsTransaction(writes)
  BY <1>1, <1>3 DEF IsTransaction
<1>5. \A w \in writes : w.key[1] \in tags
  BY <1>1, <1>3
<1>6. IsFiniteSet(writes)
  BY <1>2, LedgerConstants, FS_Subset, FS_Surjection
<1> QED BY <1>4, <1>5, <1>6 DEF Posts

\* What is said of the wallet's own requests survives what others post.
LEMMA OthersKeepCalls ==
  ASSUME CallInv, UNCHANGED coinWalletVars, NEW tags, "transfer" \notin tags,
         UNCHANGED ledgerVars \/ \E writes : Posts(writes, tags)
  PROVE  CallInv'
<1>1. LedgerTypeOK
  BY DEF CallInv, TypeInv, WalletTypeOK
<1>2. LedgerTypeOK' /\ OutEntriesAreSenders'
  <2>1. CASE UNCHANGED ledgerVars
    BY <2>1, LedgerUntouched DEF CallInv
  <2>2. ASSUME NEW writes, Posts(writes, tags)
        PROVE  LedgerTypeOK' /\ OutEntriesAreSenders'
    <3>1. IsTransaction(writes) /\ Post(writes) /\ \A w \in writes : w.key[1] \in tags
      BY <2>2 DEF Posts
    <3>2. LedgerTypeOK'
      BY <1>1, <3>1, PostType
    <3>3. ASSUME NEW e \in ledger', NEW s \in Users, NEW k \in TransferKeys, e.key = OutKey(s, k)
          PROVE  e \in ledger
      <4>1. CASE e \in ledger' \ ledger
        <5>1. PICK w \in writes : e = Entry(w, Applied(wallet[w.user], w))
          BY <1>1, <3>1, <4>1, PostEntries
        <5>2. e.key = w.key
          BY <5>1 DEF Entry
        <5>3. OutKey(s, k)[1] = "transfer"
          BY DEF OutKey
        <5> QED BY <3>1, <3>3, <5>2, <5>3
      <4> QED BY <4>1
    <3> QED BY <3>2, <3>3 DEF CallInv, TypeInv, OutEntriesAreSenders
  <2> QED BY <2>1, <2>2
<1>3. PaidAnswersAreTrue'
  BY DEF CallInv, PaidAnswersAreTrue, Answered, coinWalletVars
<1> QED BY <1>2, <1>3 DEF CallInv, TypeInv, WalletTypeOK, TwoEnds, coinWalletVars

-----------------------------------------------------------------------------
(* Types, with what the transactions of the pools rest on: no stake is     *)
(* below zero, and a claim in flight read a stake that was live.           *)

StakesInv ==
  /\ \A p \in Pools, u \in Users : stake[p][u].refunded <= stake[p][u].coins
  /\ \A c \in FundCalls :
       fundCall[c].op = "claim" =>
         /\ fundCall[c].refunded < fundCall[c].coins
         /\ fundCall[c].coins <= stake[fundCall[c].pool][fundCall[c].user].coins

FundingInv == FundingTypeOK /\ StakesInv

\* A request in flight has the fields its operation needs.
LEMMA FundCallFields ==
  ASSUME FundingTypeOK, NEW c \in FundCalls
  PROVE  LET f == fundCall[c]
         IN  /\ f.op = "contribute" => /\ f.user \in Users /\ f.pool \in Pools
                                       /\ f.coins \in Contributions /\ f.key \in FundKeys
             /\ f.op = "claim" => /\ f.user \in Users /\ f.pool \in Pools
                                  /\ f.coins \in Nat /\ f.refunded \in Nat
BY DEF FundingTypeOK, FundCall, FundIdle

\* A claim that commits knows whose stake of which pool it takes back, and how much.
LEMMA ClaimFields ==
  ASSUME FundingInv, NEW c \in FundCalls, CommitClaim(c)
  PROVE  LET f == fundCall[c]
         IN  /\ f.user \in Users /\ f.pool \in Pools
             /\ f.coins \in Nat /\ f.refunded \in Nat /\ f.refunded < f.coins
             /\ f.coins <= stake[f.pool][f.user].coins
<1>1. fundCall[c].op = "claim" /\ FundingTypeOK
  BY Zenon DEF CommitClaim, FundingInv
<1>2. /\ fundCall[c].refunded < fundCall[c].coins
      /\ fundCall[c].coins <= stake[fundCall[c].pool][fundCall[c].user].coins
  BY <1>1, Zenon DEF FundingInv, StakesInv
<1> QED BY <1>1, <1>2, FundCallFields

\* A pool with a status has its fields.
LEMMA PoolFields ==
  ASSUME FundingTypeOK, NEW p \in Pools, pool[p].status # "NONE"
  PROVE  pool[p] \in Pool
BY DEF FundingTypeOK, NoPool

\* Stakes net of refunds are numbers of coins.
LEMMA NetStakes ==
  ASSUME FundingInv, NEW p \in Pools
  PROVE  /\ NetStake(p) \in [Users -> Nat]
         /\ \A u \in Users : NetStake(p)[u] = stake[p][u].coins - stake[p][u].refunded
<1>1. \A u \in Users : stake[p][u].coins - stake[p][u].refunded \in Nat
  BY DEF FundingInv, FundingTypeOK, StakesInv
<1> QED BY <1>1 DEF NetStake

\* A contribution takes its coins out of the viewer's wallet, once.
LEMMA ContributePosts ==
  ASSUME FundingInv, NEW c \in FundCalls, CommitContribute(c)
  PROVE  LET f == fundCall[c]
         IN  Posts({Write(f.user, "POOL_FUND", -f.coins, FundKey(f.pool, f.user, f.key))}, PoolTags)
<1> DEFINE f == fundCall[c]
<1>1. f.user \in Users /\ f.coins \in Nat \ {0}
  BY FundCallFields, FundingConstants DEF CommitContribute, FundingInv
<1>2. -f.coins \in Int \ {0} /\ "POOL_FUND" \in Kinds
  BY <1>1 DEF Kinds
<1>3. Post({Write(f.user, "POOL_FUND", -f.coins, FundKey(f.pool, f.user, f.key))})
  BY DEF CommitContribute
<1>4. FundKey(f.pool, f.user, f.key)[1] \in PoolTags
  BY DEF FundKey, PoolTags
<1> QED BY <1>1, <1>2, <1>3, <1>4, OneWrite

\* A claim puts what it read of the stake into the viewer's wallet, once.
LEMMA ClaimPosts ==
  ASSUME FundingInv, NEW c \in FundCalls, CommitClaim(c)
  PROVE  LET f == fundCall[c]
         IN  Posts({Write(f.user, "POOL_REFUND", f.coins - f.refunded,
                          ClaimKey(f.pool, f.user, f.refunded))}, PoolTags)
<1> DEFINE f == fundCall[c]
<1>1. f.user \in Users /\ f.coins - f.refunded \in Int \ {0}
  BY ClaimFields
<1>2. "POOL_REFUND" \in Kinds
  BY DEF Kinds
<1>3. Post({Write(f.user, "POOL_REFUND", f.coins - f.refunded,
                  ClaimKey(f.pool, f.user, f.refunded))})
  BY DEF CommitClaim
<1>4. ClaimKey(f.pool, f.user, f.refunded)[1] \in PoolTags
  BY DEF ClaimKey, PoolTags
<1> QED BY <1>1, <1>2, <1>3, <1>4, OneWrite

\* The plan of a payout has a share for every live stake, none below zero.
LEMMA PlanType ==
  ASSUME FundingInv, NEW p \in Pools, NEW P \in Payouts
  PROVE  /\ Live(NetStake(p)) \subseteq Users
         /\ Shares(NetStake(p), P, StakeRank) \in [Live(NetStake(p)) -> Nat]
<1>1. NetStake(p) \in [Users -> Nat] /\ P \in Nat
  BY NetStakes, FundingConstants
<1>2. CASE Live(NetStake(p)) = {}
  BY <1>2 DEF Shares
<1>3. CASE Live(NetStake(p)) # {}
  BY <1>1, <1>3, TotalOfStakes, PlanIsExact
<1>4. Live(NetStake(p)) \subseteq Users
  BY <1>1, TotalOfStakes
<1> QED BY <1>2, <1>3, <1>4

\* A payout credits each backer with a share the share, once.
LEMMA PayOutPosts ==
  ASSUME FundingInv, NEW p \in Pools, NEW P \in Payouts, PayOut(p, P)
  PROVE  LET plan == Shares(NetStake(p), P, StakeRank)
         IN  Posts({Write(u, "POOL_PAYOUT", plan[u], <<"payout", p, u>>) :
                      u \in {v \in DOMAIN plan : plan[v] > 0}}, PoolTags)
<1> DEFINE plan == Shares(NetStake(p), P, StakeRank)
           S == {v \in DOMAIN plan : plan[v] > 0}
           key == [u \in S |-> <<"payout", p, u>>]
<1>1. S \in SUBSET Users /\ \A u \in S : plan[u] \in Int \ {0}
  BY PlanType
<1>2. "POOL_PAYOUT" \in Kinds
  BY DEF Kinds
<1>3. Post({Write(u, "POOL_PAYOUT", plan[u], <<"payout", p, u>>) : u \in S})
  BY DEF PayOut
<1> HIDE DEF plan, S
<1>4. /\ \A u \in S : key[u][1] \in PoolTags
      /\ \A u, v \in S : key[u] = key[v] => u = v
  BY DEF PoolTags
<1> DEFINE W == {Write(u, "POOL_PAYOUT", plan[u], <<"payout", p, u>>) : u \in S}
<1>5. /\ \A w \in W : \E u \in S : w = Write(u, "POOL_PAYOUT", plan[u], key[u])
      /\ \A u \in S : Write(u, "POOL_PAYOUT", plan[u], key[u]) \in W
  OBVIOUS
<1> HIDE DEF key, W
<1>6. Posts(W, PoolTags)
  BY <1>1, <1>2, <1>3, <1>4, <1>5, WriteEach DEF W
<1> QED BY <1>6 DEF W, plan, S

\* A cancellation gives each live stake back, once.
LEMMA CancelPosts ==
  ASSUME FundingInv, NEW p \in Pools, CancelPool(p)
  PROVE  LET net == NetStake(p)
         IN  Posts({Write(u, "POOL_REFUND", net[u], <<"cancel", p, u>>) : u \in Live(net)}, PoolTags)
<1> DEFINE net == NetStake(p)
           S == Live(net)
           key == [u \in S |-> <<"cancel", p, u>>]
<1>1. S \in SUBSET Users /\ \A u \in S : net[u] \in Int \ {0}
  BY NetStakes, TotalOfStakes DEF Live
<1>2. "POOL_REFUND" \in Kinds
  BY DEF Kinds
<1>3. Post({Write(u, "POOL_REFUND", net[u], <<"cancel", p, u>>) : u \in S})
  BY DEF CancelPool
<1> HIDE DEF net, S
<1>4. /\ \A u \in S : key[u][1] \in PoolTags
      /\ \A u, v \in S : key[u] = key[v] => u = v
  BY DEF PoolTags
<1> DEFINE W == {Write(u, "POOL_REFUND", net[u], <<"cancel", p, u>>) : u \in S}
<1>5. /\ \A w \in W : \E u \in S : w = Write(u, "POOL_REFUND", net[u], key[u])
      /\ \A u \in S : Write(u, "POOL_REFUND", net[u], key[u]) \in W
  OBVIOUS
<1> HIDE DEF key, W
<1>6. Posts(W, PoolTags)
  BY <1>1, <1>2, <1>3, <1>4, <1>5, WriteEach DEF W
<1> QED BY <1>6 DEF W, net, S

\* Nothing is funded at first.
LEMMA FundingInvInit == FundingInit => FundingInv
BY DEF FundingInit, FundingInv, FundingTypeOK, StakesInv, FundCall, FundIdle, NoStake

\* Every step of the pools keeps their types and covers every stake.
LEMMA FundingInvStep ==
  ASSUME FundingInv, FundingNext \/ UNCHANGED fundingVars
  PROVE  FundingInv'
<1> USE DEF FundingInv
<1>1. ASSUME NEW p \in Pools, NEW goal \in Goals, CreatePool(p, goal)
      PROVE  FundingInv'
  BY <1>1 DEF CreatePool, FundingTypeOK, StakesInv, Pool
<1>2. ASSUME NEW p \in Pools, PassDeadline(p)
      PROVE  FundingInv'
  <2>1. pool[p] \in Pool
    BY <1>2, PoolFields DEF PassDeadline
  <2>2. [pool[p] EXCEPT !.late = TRUE] \in Pool
    BY <2>1 DEF Pool
  <2> QED BY <1>2, <2>2 DEF PassDeadline, FundingTypeOK, StakesInv
<1>3. ASSUME NEW p \in Pools, ClosePool(p)
      PROVE  FundingInv'
  <2>1. pool[p] \in Pool
    BY <1>3, PoolFields DEF ClosePool
  <2>2. [pool[p] EXCEPT !.status = "CLOSED"] \in Pool
    BY <2>1 DEF Pool
  <2> QED BY <1>3, <2>2 DEF ClosePool, FundingTypeOK, StakesInv
<1>4. ASSUME NEW c \in FundCalls, NEW u \in Users, NEW p \in Pools,
             NEW n \in Contributions, NEW k \in FundKeys, BeginContribute(c, u, p, n, k)
      PROVE  FundingInv'
  <2> DEFINE f == [op |-> "contribute", user |-> u, pool |-> p, coins |-> n, key |-> k]
  <2>1. f \in FundCall /\ f.op = "contribute"
    BY DEF FundCall
  <2> HIDE DEF f
  <2>2. fundCall' = [fundCall EXCEPT ![c] = f] /\ UNCHANGED <<pool, stake>>
    BY <1>4 DEF BeginContribute, f
  <2> QED BY <2>1, <2>2 DEF FundingTypeOK, StakesInv
<1>5. ASSUME NEW c \in FundCalls, NEW u \in Users, NEW p \in Pools, BeginClaim(c, u, p)
      PROVE  FundingInv'
  <2> DEFINE f == [op |-> "claim", user |-> u, pool |-> p,
                   coins |-> stake[p][u].coins, refunded |-> stake[p][u].refunded]
  <2>1. stake[p][u].coins \in Nat /\ stake[p][u].refunded \in Nat
    BY DEF FundingTypeOK
  <2>2. stake[p][u].refunded < stake[p][u].coins
    BY <1>5, <2>1, NetStakes DEF BeginClaim
  <2>3. /\ f \in FundCall /\ f.op = "claim" /\ f.user = u /\ f.pool = p
        /\ f.coins = stake[p][u].coins /\ f.refunded = stake[p][u].refunded
    BY <2>1 DEF FundCall
  <2> HIDE DEF f
  <2>4. fundCall' = [fundCall EXCEPT ![c] = f] /\ UNCHANGED <<pool, stake>>
    BY <1>5 DEF BeginClaim, f
  <2>5. FundingTypeOK'
    BY <2>3, <2>4 DEF FundingTypeOK
  <2>6. StakesInv'
    BY <2>1, <2>2, <2>3, <2>4 DEF FundingTypeOK, StakesInv
  <2> QED BY <2>5, <2>6
<1>6. ASSUME NEW c \in FundCalls, CommitContribute(c)
      PROVE  FundingInv'
  <2> DEFINE u == fundCall[c].user
             p == fundCall[c].pool
             n == fundCall[c].coins
  <2>1. u \in Users /\ p \in Pools /\ n \in Nat
    BY <1>6, FundCallFields, FundingConstants DEF CommitContribute
  <2>2. pool[p] \in Pool
    BY <1>6, <2>1, PoolFields DEF CommitContribute
  <2>3. [pool[p] EXCEPT !.total = @ + n] \in Pool
    BY <2>1, <2>2 DEF Pool
  <2>4. /\ pool' = [pool EXCEPT ![p].total = @ + n]
        /\ stake' = [stake EXCEPT ![p][u].coins = @ + n]
        /\ fundCall' = [fundCall EXCEPT ![c] = FundIdle]
    BY <1>6 DEF CommitContribute
  <2> HIDE DEF u, p, n
  <2>5. FundingTypeOK'
    <3>1. [stake[p][u] EXCEPT !.coins = @ + n] \in [coins : Nat, refunded : Nat, paid : Nat]
      BY <2>1 DEF FundingTypeOK
    <3>2. pool' \in [Pools -> Pool \cup {NoPool}]
      BY <2>1, <2>3, <2>4 DEF FundingTypeOK
    <3>3. stake' \in [Pools -> [Users -> [coins : Nat, refunded : Nat, paid : Nat]]]
      BY <2>1, <2>4, <3>1 DEF FundingTypeOK
    <3>4. fundCall' \in [FundCalls -> FundCall]
      BY <2>4 DEF FundingTypeOK, FundCall
    <3> QED BY <3>2, <3>3, <3>4 DEF FundingTypeOK
  <2>6. \A q \in Pools, v \in Users :
          /\ stake'[q][v].refunded = stake[q][v].refunded
          /\ stake'[q][v].coins >= stake[q][v].coins
    BY <2>1, <2>4 DEF FundingTypeOK
  <2>7. StakesInv'
    <3>1. \A d \in FundCalls : fundCall'[d].op = "claim" => fundCall'[d] = fundCall[d]
      BY <2>4 DEF FundingTypeOK, FundIdle
    <3>2. \A q \in Pools, v \in Users : /\ stake[q][v].coins \in Nat /\ stake'[q][v].coins \in Nat
                                        /\ stake[q][v].refunded \in Nat
      BY <2>5 DEF FundingTypeOK
    <3> QED BY SMTT(30), <2>6, <3>1, <3>2, FundCallFields DEF StakesInv
  <2> QED BY <2>5, <2>7
<1>7. ASSUME NEW c \in FundCalls, CommitClaim(c)
      PROVE  FundingInv'
  <2> DEFINE u == fundCall[c].user
             p == fundCall[c].pool
             n == fundCall[c].coins
             net == n - fundCall[c].refunded
  <2>1. u \in Users /\ p \in Pools /\ n \in Nat /\ net \in Int /\ n <= stake[p][u].coins
    BY <1>7, ClaimFields
  <2>2. pool[p] \in Pool
    BY <1>7, <2>1, PoolFields DEF CommitClaim
  <2>3. [pool[p] EXCEPT !.total = @ - net] \in Pool
    BY <2>1, <2>2 DEF Pool
  <2>4. /\ pool' = [pool EXCEPT ![p].total = @ - net]
        /\ stake' = [stake EXCEPT ![p][u].refunded = n]
        /\ fundCall' = [fundCall EXCEPT ![c] = FundIdle]
    BY <1>7 DEF CommitClaim
  <2> HIDE DEF u, p, n, net
  <2>5. FundingTypeOK'
    <3>1. [stake[p][u] EXCEPT !.refunded = n] \in [coins : Nat, refunded : Nat, paid : Nat]
      BY <2>1 DEF FundingTypeOK
    <3>2. pool' \in [Pools -> Pool \cup {NoPool}]
      BY <2>1, <2>3, <2>4 DEF FundingTypeOK
    <3>3. stake' \in [Pools -> [Users -> [coins : Nat, refunded : Nat, paid : Nat]]]
      BY <2>1, <2>4, <3>1 DEF FundingTypeOK
    <3>4. fundCall' \in [FundCalls -> FundCall]
      BY <2>4 DEF FundingTypeOK, FundCall
    <3> QED BY <3>2, <3>3, <3>4 DEF FundingTypeOK
  <2>6. \A q \in Pools, v \in Users :
          /\ stake'[q][v].refunded <= stake'[q][v].coins
          /\ stake'[q][v].coins = stake[q][v].coins
    BY <2>1, <2>4 DEF FundingTypeOK, StakesInv
  <2>7. StakesInv'
    <3>1. \A d \in FundCalls : fundCall'[d].op = "claim" => fundCall'[d] = fundCall[d]
      BY <2>4 DEF FundingTypeOK, FundIdle
    <3> QED BY SMTT(30), <2>6, <3>1, FundCallFields DEF StakesInv
  <2> QED BY <2>5, <2>7
<1>8. ASSUME NEW c \in FundCalls, EndFundCall(c)
      PROVE  FundingInv'
  BY <1>8 DEF EndFundCall, FundingTypeOK, StakesInv, FundCall, FundIdle
<1>9. ASSUME NEW p \in Pools, NEW P \in Payouts, PayOut(p, P)
      PROVE  FundingInv'
  <2> DEFINE plan == Shares(NetStake(p), P, StakeRank)
             paid == [u \in Users |-> IF u \in DOMAIN plan
                                      THEN [stake[p][u] EXCEPT !.paid = plan[u]]
                                      ELSE stake[p][u]]
  <2>1. pool[p] \in Pool /\ P \in Nat
    BY <1>9, PoolFields, FundingConstants DEF PayOut, Settleable
  <2>2. [pool[p] EXCEPT !.status = "PAID_OUT", !.payout = P] \in Pool
    BY <2>1 DEF Pool
  <2>3. \A u \in DOMAIN plan : plan[u] \in Nat
    BY PlanType
  <2>4. /\ pool' = [pool EXCEPT ![p] = [pool[p] EXCEPT !.status = "PAID_OUT", !.payout = P]]
        /\ stake' = [stake EXCEPT ![p] = paid]
        /\ UNCHANGED fundCall
    BY <1>9 DEF PayOut, FundingTypeOK
  <2> HIDE DEF plan
  <2>5. \A u \in Users : /\ paid[u] \in [coins : Nat, refunded : Nat, paid : Nat]
                         /\ paid[u].coins = stake[p][u].coins
                         /\ paid[u].refunded = stake[p][u].refunded
    BY SMTT(30), <2>3 DEF FundingTypeOK
  <2>6. paid \in [Users -> [coins : Nat, refunded : Nat, paid : Nat]]
    BY <2>5
  <2> HIDE DEF paid
  <2>7. FundingTypeOK'
    BY <2>2, <2>4, <2>6 DEF FundingTypeOK
  <2>8. \A q \in Pools, v \in Users : /\ stake'[q][v].coins = stake[q][v].coins
                                      /\ stake'[q][v].refunded = stake[q][v].refunded
    BY <2>4, <2>5 DEF FundingTypeOK
  <2>9. StakesInv'
    BY <2>4, <2>8, FundCallFields DEF StakesInv
  <2> QED BY <2>7, <2>9
<1>10. ASSUME NEW p \in Pools, CancelPool(p)
       PROVE  FundingInv'
  <2> DEFINE net == NetStake(p)
             back == [u \in Users |-> IF u \in Live(net)
                                      THEN [stake[p][u] EXCEPT !.refunded = @ + net[u]]
                                      ELSE stake[p][u]]
  <2>1. pool[p] \in Pool
    BY <1>10, PoolFields DEF CancelPool, Settleable
  <2>2. [pool[p] EXCEPT !.status = "CANCELLED", !.total = 0] \in Pool
    <3>1. [pool[p] EXCEPT !.status = "CANCELLED"] \in Pool
      BY <2>1 DEF Pool
    <3>2. \A row \in Pool : [row EXCEPT !.total = 0] \in Pool
      BY DEF Pool
    <3>3. [pool[p] EXCEPT !.status = "CANCELLED", !.total = 0]
            = [[pool[p] EXCEPT !.status = "CANCELLED"] EXCEPT !.total = 0]
      OBVIOUS
    <3> QED BY <3>1, <3>2, <3>3
  <2>3. \A u \in Users : net[u] \in Nat /\ net[u] = stake[p][u].coins - stake[p][u].refunded
    BY NetStakes
  <2>4. /\ pool' = [pool EXCEPT ![p] = [pool[p] EXCEPT !.status = "CANCELLED", !.total = 0]]
        /\ stake' = [stake EXCEPT ![p] = back]
        /\ UNCHANGED fundCall
    BY <1>10 DEF CancelPool, FundingTypeOK
  <2> HIDE DEF net
  <2>5. \A u \in Users : /\ back[u] \in [coins : Nat, refunded : Nat, paid : Nat]
                         /\ back[u].coins = stake[p][u].coins
                         /\ back[u].refunded <= stake[p][u].coins
    BY SMTT(30), <2>3 DEF FundingTypeOK, StakesInv
  <2>6. back \in [Users -> [coins : Nat, refunded : Nat, paid : Nat]]
    BY <2>5
  <2> HIDE DEF back
  <2>7. FundingTypeOK'
    BY <2>2, <2>4, <2>6 DEF FundingTypeOK
  <2>8. \A q \in Pools, v \in Users : /\ stake'[q][v].coins = stake[q][v].coins
                                      /\ stake'[q][v].refunded <= stake[q][v].coins
    BY <2>4, <2>5 DEF FundingTypeOK, StakesInv
  <2>9. StakesInv'
    BY <2>4, <2>8, FundCallFields DEF StakesInv
  <2> QED BY <2>7, <2>9
<1>11. ASSUME UNCHANGED fundingVars
       PROVE  FundingInv'
  BY <1>11 DEF fundingVars, FundingTypeOK, StakesInv, NetStake
<1> QED BY <1>1, <1>2, <1>3, <1>4, <1>5, <1>6, <1>7, <1>8, <1>9, <1>10, <1>11 DEF FundingNext

-----------------------------------------------------------------------------
(* The stores.                                                             *)

\* The tables and requests of the two stores keep their types.
LEMMA AppleTypeStep ==
  ASSUME AppleTypeOK, AppleNext \/ UNCHANGED appleVars
  PROVE  AppleTypeOK'
<1>1. ASSUME NEW t \in AppleTxns, ConfirmApple(t)
      PROVE  AppleTypeOK'
  BY <1>1 DEF ConfirmApple, AppleTypeOK
<1>2. ASSUME NEW n \in Notices, ReceiveStale(n)
      PROVE  AppleTypeOK'
  BY <1>2 DEF ReceiveStale, AppleTypeOK
<1>3. ASSUME NEW n \in Notices, ReceiveNewer(n)
      PROVE  AppleTypeOK'
  <2>1. n.txn \in AppleTxns /\ n.signedAt \in Int /\ Refunds(n) \in BOOLEAN
    BY AppleConstants DEF Refunds
  <2>2. appleTopup' \in [AppleTxns -> {"NONE", "PAID", "REFUNDED"}]
    BY <1>3, <2>1 DEF ReceiveNewer, AppleTypeOK
  <2>3. refundState' \in [AppleTxns -> [refunded : BOOLEAN, signedAt : Int]]
    BY <1>3, <2>1 DEF ReceiveNewer, AppleTypeOK
  <2> QED BY <1>3, <2>2, <2>3 DEF ReceiveNewer, AppleTypeOK
<1>4. CASE UNCHANGED appleVars
  BY <1>4 DEF appleVars, AppleTypeOK
<1> QED BY <1>1, <1>2, <1>3, <1>4 DEF AppleNext

\* The table of Play purchases and the requests that confirm them keep their types.
LEMMA PlayTypeStep ==
  ASSUME PlayTypeOK, PlayNext \/ UNCHANGED playVars
  PROVE  PlayTypeOK'
<1> DEFINE Verified == [step : {"verified", "looked", "credited"}, token : Tokens,
                        wasConsumed : BOOLEAN]
<1>0. \A c \in PlayCalls :
        /\ playCall[c].step \in {"verified", "looked", "credited"} => playCall[c] \in Verified
        /\ PlayIdle.step = "idle"
  BY DEF PlayTypeOK, PlayIdle
<1>1. ASSUME NEW c \in PlayCalls, NEW t \in Tokens, VerifyPurchase(c, t)
      PROVE  PlayTypeOK'
  <2>1. [step |-> "verified", token |-> t, wasConsumed |-> t \in consumed] \in Verified
    OBVIOUS
  <2> QED BY <1>1, <2>1 DEF VerifyPurchase, PlayTypeOK
<1>2. ASSUME NEW c \in PlayCalls, LookUp(c)
      PROVE  PlayTypeOK'
  <2>1. playCall[c] \in Verified
    BY <1>0, <1>2 DEF LookUp
  <2>2. [playCall[c] EXCEPT !.step = "looked"] \in Verified
    BY <2>1
  <2> QED BY <1>2, <2>2 DEF LookUp, PlayTypeOK
<1>3. ASSUME NEW c \in PlayCalls, CreditPurchase(c)
      PROVE  PlayTypeOK'
  <2>1. playCall[c] \in Verified
    BY <1>0, <1>3 DEF CreditPurchase
  <2>2. [playCall[c] EXCEPT !.step = "credited"] \in Verified
    BY <2>1
  <2>3. playTopup' \subseteq Tokens
    BY <1>3, <2>1 DEF CreditPurchase, PlayTypeOK
  <2> QED BY <1>3, <2>2, <2>3 DEF CreditPurchase, PlayTypeOK
<1>4. ASSUME NEW c \in PlayCalls, ConsumePurchase(c)
      PROVE  PlayTypeOK'
  <2>1. playCall[c] \in Verified
    BY <1>0, <1>4 DEF ConsumePurchase
  <2> QED BY <1>4, <2>1 DEF ConsumePurchase, PlayTypeOK
<1>5. ASSUME NEW c \in PlayCalls, EndPlayCall(c)
      PROVE  PlayTypeOK'
  BY <1>5 DEF EndPlayCall, PlayTypeOK
<1>6. CASE UNCHANGED playVars
  BY <1>6 DEF playVars, PlayTypeOK
<1> QED BY <1>1, <1>2, <1>3, <1>4, <1>5, <1>6 DEF PlayNext, Confirming

\* A confirmed Apple purchase is one credit.
LEMMA ConfirmPosts ==
  ASSUME NEW t \in AppleTxns, ConfirmApple(t)
  PROVE  Posts({Write(Owner[t], "TOPUP", PackCoins[t], <<"apple_coin", t>>)}, AppleTags)
<1>1. /\ Owner[t] \in Users /\ PackCoins[t] \in Int \ {0} /\ "TOPUP" \in Kinds
      /\ <<"apple_coin", t>>[1] \in AppleTags
  BY AppleConstants DEF Kinds, AppleTags
<1>2. Post({Write(Owner[t], "TOPUP", PackCoins[t], <<"apple_coin", t>>)})
  BY DEF ConfirmApple
<1> QED BY <1>1, <1>2, OneWrite

Takes(n) == Refunds(n) /\ appleTopup[n.txn] = "PAID"
Returns(n) == ~Refunds(n) /\ appleTopup[n.txn] = "REFUNDED"

\* A newer notice takes the pack out of its owner's wallet, or puts it back, or
\* moves nothing.
LEMMA ReceivePosts ==
  ASSUME LedgerTypeOK, NEW n \in Notices, ReceiveNewer(n)
  PROVE  LET u == Owner[n.txn]
             k == PackCoins[n.txn]
         IN  /\ Takes(n) => Posts({Write(u, "APPLE_REFUND", -k, <<"apple_refund", n>>)}, AppleTags)
             /\ Returns(n) => Posts({Write(u, "APPLE_REFUND_REVERSAL", k,
                                           <<"apple_refund_reversal", n>>)}, AppleTags)
             /\ ~Takes(n) /\ ~Returns(n) => UNCHANGED ledgerVars
<1> DEFINE u == Owner[n.txn]
           k == PackCoins[n.txn]
<1>1. /\ u \in Users /\ k \in Int \ {0} /\ -k \in Int \ {0}
      /\ "APPLE_REFUND" \in Kinds /\ "APPLE_REFUND_REVERSAL" \in Kinds
      /\ <<"apple_refund", n>>[1] \in AppleTags
      /\ <<"apple_refund_reversal", n>>[1] \in AppleTags
  BY AppleConstants DEF Kinds, AppleTags
<1>2. Post(RefundWrites(n))
  BY DEF ReceiveNewer
<1>3. CASE Takes(n)
  <2>1. RefundWrites(n) = {Write(u, "APPLE_REFUND", -k, <<"apple_refund", n>>)}
    BY <1>3 DEF Takes, RefundWrites
  <2> QED BY <1>1, <1>2, <1>3, <2>1, OneWrite DEF Takes, Returns
<1>4. CASE Returns(n)
  <2>1. RefundWrites(n) = {Write(u, "APPLE_REFUND_REVERSAL", k, <<"apple_refund_reversal", n>>)}
    BY <1>4 DEF Returns, RefundWrites
  <2> QED BY <1>1, <1>2, <1>4, <2>1, OneWrite DEF Takes, Returns
<1>5. CASE ~Takes(n) /\ ~Returns(n)
  <2>1. RefundWrites(n) = {}
    BY <1>5 DEF Takes, Returns, RefundWrites
  <2> QED BY <1>2, <1>5, <2>1, NoWrite
<1> QED BY <1>3, <1>4, <1>5

\* A Play purchase is credited by one write, or was credited before.
LEMMA CreditPosts ==
  ASSUME PlayTypeOK, NEW c \in PlayCalls, CreditPurchase(c)
  PROVE  LET t == playCall[c].token
         IN  /\ t \in Tokens
             /\ t \notin playTopup =>
                  Posts({Write(TokenOwner[t], "TOPUP", TokenCoins[t], <<"google_play", t>>)}, PlayTags)
             /\ t \in playTopup => UNCHANGED <<ledgerVars, playTopup>>
<1> DEFINE t == playCall[c].token
<1>1. t \in Tokens
  BY DEF CreditPurchase, PlayTypeOK, PlayIdle
<1>2. /\ TokenOwner[t] \in Users /\ TokenCoins[t] \in Int \ {0} /\ "TOPUP" \in Kinds
      /\ <<"google_play", t>>[1] \in PlayTags
  BY <1>1, PlayConstants DEF Kinds, PlayTags
<1>3. t \notin playTopup =>
        Post({Write(TokenOwner[t], "TOPUP", TokenCoins[t], <<"google_play", t>>)})
  BY DEF CreditPurchase
<1>4. t \in playTopup => UNCHANGED <<ledgerVars, playTopup>>
  BY DEF CreditPurchase
<1> QED BY <1>1, <1>2, <1>3, <1>4, OneWrite

-----------------------------------------------------------------------------
(* The ledger of the whole economy.                                        *)

BaseInv ==
  CallInv /\ AppleTypeOK /\ PlayTypeOK /\ FundingInv /\ IsFiniteSet(ledger)

\* What the components other than the wallet post.
LEMMA OthersPost ==
  ASSUME BaseInv
  PROVE  /\ AppleNext => UNCHANGED ledgerVars \/ \E writes : Posts(writes, AppleTags)
         /\ PlayNext => UNCHANGED ledgerVars \/ \E writes : Posts(writes, PlayTags)
         /\ FundingNext => UNCHANGED ledgerVars \/ \E writes : Posts(writes, PoolTags)
<1> DEFINE Goal(tags) == UNCHANGED ledgerVars \/ \E writes : Posts(writes, tags)
<1>0. LedgerTypeOK
  BY DEF BaseInv, CallInv, TypeInv, WalletTypeOK
<1> USE DEF BaseInv
<1>1. ASSUME AppleNext PROVE Goal(AppleTags)
  <2>1. ASSUME NEW t \in AppleTxns, ConfirmApple(t) PROVE Goal(AppleTags)
    BY <2>1, ConfirmPosts
  <2>2. ASSUME NEW n \in Notices, ReceiveStale(n) PROVE Goal(AppleTags)
    BY <2>2 DEF ReceiveStale
  <2>3. ASSUME NEW n \in Notices, ReceiveNewer(n) PROVE Goal(AppleTags)
    BY <1>0, <2>3, ReceivePosts
  <2> HIDE DEF Goal
  <2> QED BY <1>1, <2>1, <2>2, <2>3 DEF AppleNext
<1>2. ASSUME PlayNext PROVE Goal(PlayTags)
  <2>1. ASSUME NEW c \in PlayCalls, CreditPurchase(c) PROVE Goal(PlayTags)
    BY <2>1, CreditPosts
  <2>2. ASSUME NEW c \in PlayCalls,
               (\E t \in Tokens : VerifyPurchase(c, t)) \/ LookUp(c) \/ ConsumePurchase(c)
               \/ EndPlayCall(c)
        PROVE  Goal(PlayTags)
    BY <2>2 DEF VerifyPurchase, LookUp, ConsumePurchase, EndPlayCall
  <2> HIDE DEF Goal
  <2> QED BY <1>2, <2>1, <2>2 DEF PlayNext, Confirming
<1>3. ASSUME FundingNext PROVE Goal(PoolTags)
  <2>1. ASSUME NEW c \in FundCalls, CommitContribute(c) PROVE Goal(PoolTags)
    BY <2>1, ContributePosts
  <2>2. ASSUME NEW c \in FundCalls, CommitClaim(c) PROVE Goal(PoolTags)
    BY <2>2, ClaimPosts
  <2>3. ASSUME NEW p \in Pools, NEW P \in Payouts, PayOut(p, P) PROVE Goal(PoolTags)
    BY <2>3, PayOutPosts
  <2>4. ASSUME NEW p \in Pools, CancelPool(p) PROVE Goal(PoolTags)
    BY <2>4, CancelPosts
  <2>5. ASSUME NEW p \in Pools,
               (\E goal \in Goals : CreatePool(p, goal)) \/ PassDeadline(p) \/ ClosePool(p)
        PROVE  Goal(PoolTags)
    BY <2>5 DEF CreatePool, PassDeadline, ClosePool
  <2>6. ASSUME NEW c \in FundCalls,
               \/ \E u \in Users, p \in Pools :
                    \/ \E n \in Contributions, k \in FundKeys : BeginContribute(c, u, p, n, k)
                    \/ BeginClaim(c, u, p)
               \/ EndFundCall(c)
        PROVE  Goal(PoolTags)
    BY <2>6 DEF BeginContribute, BeginClaim, EndFundCall
  <2> HIDE DEF Goal
  <2> QED BY <1>3, <2>1, <2>2, <2>3, <2>4, <2>5, <2>6 DEF FundingNext
<1> QED BY <1>1, <1>2, <1>3

\* What the wallet posts.
LEMMA WalletPosts ==
  ASSUME BaseInv, WalletNext
  PROVE  UNCHANGED ledgerVars \/ \E writes : Posts(writes, WalletTags)
<1> DEFINE Goal == UNCHANGED ledgerVars \/ \E writes : Posts(writes, WalletTags)
<1>1. CallInv /\ TypeInv
  BY DEF BaseInv, CallInv
<1>2. ASSUME NEW r \in TopupRefs, Credits(r) PROVE Goal
  <2> DEFINE w == Write(topup[r].user, "TOPUP", topup[r].coins, <<"topup", r>>)
  <2>1. w.key[1] \in WalletTags
    BY DEF Write, WalletTags
  <2>2. IsTransaction({w}) /\ Post({w})
    BY <1>1, <1>2, TopupEntries
  <2> HIDE DEF w
  <2>3. IsFiniteSet({w})
    BY FS_Singleton
  <2>4. Posts({w}, WalletTags)
    BY <2>1, <2>2, <2>3 DEF Posts
  <2> QED BY <2>4
<1>3. ASSUME NEW c \in Calls, CommitTransfer(c) PROVE Goal
  <2> DEFINE t   == call[c]
             out == Write(t.sender, "TRANSFER_OUT", -t.coins, OutKey(t.sender, t.key))
             in  == Write(t.recipient, "TRANSFER_IN", t.coins, InKey(t.sender, t.key))
  <2>1. out.key[1] \in WalletTags /\ in.key[1] \in WalletTags
    BY DEF Write, WalletTags, OutKey, InKey
  <2>2. IsTransaction({out, in}) /\ Post({out, in})
    BY <1>1, <1>3, TransferEntries
  <2> HIDE DEF out, in
  <2>3. {out, in} = {out} \cup {in}
    OBVIOUS
  <2>4. IsFiniteSet({out} \cup {in})
    BY FS_Singleton, FS_AddElement
  <2>5. Posts({out, in}, WalletTags)
    BY <2>1, <2>2, <2>3, <2>4 DEF Posts
  <2> QED BY <2>5
<1> HIDE DEF Goal
<1>4. ASSUME Quiet PROVE Goal
  BY <1>4 DEF Quiet, Goal
<1>5. Goal
  BY <1>1, <1>2, <1>3, <1>4, StepKinds
<1> QED BY <1>5 DEF Goal

\* Every step of the economy is one transaction on the ledger, or none.
LEMMA EconomyPosts ==
  ASSUME BaseInv, [Next]_vars
  PROVE  \/ UNCHANGED ledgerVars
         \/ \E writes : IsTransaction(writes) /\ IsFiniteSet(writes) /\ Post(writes)
<1>1. UNCHANGED vars => UNCHANGED ledgerVars
  BY DEF vars
<1> QED BY <1>1, WalletPosts, OthersPost DEF Next, Posts

\* A transaction adds finitely many entries.
LEMMA PostFinite ==
  ASSUME IsFiniteSet(ledger), NEW writes, IsFiniteSet(writes), Post(writes)
  PROVE  IsFiniteSet(ledger')
<1> DEFINE entry(w) == Entry(w, Applied(wallet[w.user], w))
           new == {entry(w) : w \in writes}
           f == [w \in writes |-> entry(w)]
<1>1. f \in Surjection(writes, new)
  BY DEF Surjection
<1> HIDE DEF f, new
<1>2. IsFiniteSet(new)
  BY <1>1, FS_Surjection
<1>3. ledger' = ledger \cup new
  BY DEF Post, new
<1> QED BY <1>2, <1>3, FS_Union

\* Every step of the economy keeps the types of its components.
LEMMA BaseInvStep ==
  ASSUME BaseInv, [Next]_vars
  PROVE  BaseInv'
<1>1. IsFiniteSet(ledger')
  BY EconomyPosts, PostFinite DEF BaseInv, ledgerVars
<1>2. CallInv'
  <2>1. CASE WalletNext
    BY <2>1, CallInvStep DEF BaseInv
  <2>2. CASE (AppleNext \/ PlayNext \/ FundingNext) /\ UNCHANGED coinWalletVars
    <3>1. PICK tags : /\ "transfer" \notin tags
                      /\ UNCHANGED ledgerVars \/ \E writes : Posts(writes, tags)
      BY <2>2, OthersPost DEF AppleTags, PlayTags, PoolTags
    <3> QED BY <2>2, <3>1, OthersKeepCalls DEF BaseInv
  <2>3. CASE UNCHANGED vars
    <3>1. "transfer" \notin {}
      OBVIOUS
    <3> QED BY <2>3, <3>1, OthersKeepCalls DEF BaseInv, vars
  <2> QED BY <2>1, <2>2, <2>3 DEF Next
<1>3. AppleTypeOK'
  BY AppleTypeStep DEF BaseInv, Next, vars
<1>4. PlayTypeOK'
  BY PlayTypeStep DEF BaseInv, Next, vars
<1>5. FundingInv'
  BY FundingInvStep DEF BaseInv, Next, vars
<1> QED BY <1>1, <1>2, <1>3, <1>4, <1>5 DEF BaseInv

\* Nothing is bought, funded or written at first.
LEMMA BaseInvInit == Init => BaseInv
<1> SUFFICES ASSUME Init PROVE BaseInv
  OBVIOUS
<1>1. CallInv
  BY LedgerInvInit DEF Init, LedgerInv
<1>2. AppleTypeOK
  BY DEF Init, AppleInit, AppleTypeOK, NoRefund
<1>3. PlayTypeOK
  BY DEF Init, PlayInit, PlayTypeOK
<1>4. FundingInv
  BY FundingInvInit DEF Init
<1>5. IsFiniteSet(ledger)
  BY FS_EmptySet DEF Init, LedgerInit
<1> QED BY <1>1, <1>2, <1>3, <1>4, <1>5 DEF BaseInv

\* In every run of the whole economy the tables of every component stay well formed.
THEOREM EconomyTypes == Spec => []TypeOK
<1>1. BaseInv /\ [Next]_vars => BaseInv'
  BY BaseInvStep
<1>2. BaseInv => TypeOK
  BY DEF BaseInv, CallInv, TypeInv, FundingInv, TypeOK
<1> QED BY <1>1, <1>2, BaseInvInit, PTL DEF Spec

\* No entries move no coins.
LEMMA MovedNone == Moved({}) = 0
BY SumNone DEF Moved

\* One entry more moves its delta more.
LEMMA MovedGrows ==
  ASSUME NEW S, IsFiniteSet(S), NEW e, e \notin S, \A x \in S \cup {e} : x.delta \in Int
  PROVE  Moved(S) \in Int /\ Moved(S \cup {e}) = Moved(S) + e.delta
<1> DEFINE f == [x \in S |-> x.delta]
           g == [x \in S \cup {e} |-> x.delta]
<1>1. f \in [S -> Int] /\ g \in [S \cup {e} -> Int] /\ \A x \in S : g[x] = f[x]
  OBVIOUS
<1>2. g[e] = e.delta
  OBVIOUS
<1> HIDE DEF f, g
<1>3. SumFunction(g) = SumFunction(f) + g[e]
  BY <1>1, SumAdd
<1>4. SumFunction(f) \in Int
  BY <1>1, SumInt
<1> QED BY <1>2, <1>3, <1>4 DEF Moved, f, g

Under(K) == {e \in ledger : e.key \in K}

\* Under keys that a transaction does not use the ledger holds what it held, and
\* under keys that one of its writes uses, that write more.
LEMMA PostUnder ==
  ASSUME LedgerTypeOK, IsFiniteSet(ledger), NEW K,
         NEW writes, IsTransaction(writes), Post(writes)
  PROVE  /\ (\A w \in writes : w.key \notin K) => Under(K)' = Under(K)
         /\ \A w \in writes :
              w.key \in K /\ (\A v \in writes : v.key \in K => v = w) =>
                /\ Moved(Under(K))' = Moved(Under(K)) + w.delta
                /\ (\A e \in Under(K) : e.user = w.user) => \A e \in Under(K)' : e.user = w.user
<1> DEFINE entry(w) == Entry(w, Applied(wallet[w.user], w))
<1>1. ledger' = ledger \cup {entry(w) : w \in writes}
  BY DEF Post
<1>2. \A w \in writes : /\ entry(w).key = w.key /\ entry(w).delta = w.delta
                        /\ entry(w).user = w.user
                        /\ w.delta \in Int
  BY DEF Entry, IsTransaction, IsWrite
<1>3. \A w \in writes : entry(w) \notin ledger
  BY PostEntries
<1> HIDE DEF entry
<1>4. ASSUME \A w \in writes : w.key \notin K
      PROVE  Under(K)' = Under(K)
  BY <1>1, <1>2, <1>4 DEF Under
<1>5. ASSUME NEW w \in writes, w.key \in K, \A v \in writes : v.key \in K => v = w
      PROVE  /\ Moved(Under(K))' = Moved(Under(K)) + w.delta
             /\ Under(K)' = Under(K) \cup {entry(w)}
  <2>1. Under(K)' = Under(K) \cup {entry(w)}
    BY <1>1, <1>2, <1>5 DEF Under
  <2>2. entry(w) \notin Under(K)
    BY <1>3 DEF Under
  <2>3. IsFiniteSet(Under(K))
    BY FS_Subset DEF Under
  <2>4. \A x \in Under(K) \cup {entry(w)} : x.delta \in Int
    BY <1>2 DEF Under, LedgerTypeOK
  <2>5. Moved(Under(K) \cup {entry(w)}) = Moved(Under(K)) + w.delta
    BY <1>2, <2>2, <2>3, <2>4, MovedGrows
  <2>6. Moved(Under(K))' = Moved(Under(K)')
    BY DEF Moved
  <2> QED BY <2>1, <2>5, <2>6
<1>6. ASSUME NEW w \in writes, w.key \in K, \A v \in writes : v.key \in K => v = w,
             \A e \in Under(K) : e.user = w.user
      PROVE  \A e \in Under(K)' : e.user = w.user
  BY <1>2, <1>5, <1>6
<1> QED BY <1>4, <1>5, <1>6

LedgersInv == BaseInv /\ OneEntryPerKey /\ WalletRowsAreLegal /\ LedgerExplainsWallet

\* A journalled move keeps each wallet the sum of its entries.
LEMMA ExplainsStep ==
  ASSUME LedgerTypeOK, LedgerTypeOK', IsFiniteSet(ledger), LedgerExplainsWallet,
         JournalStep, NEW u \in Users
  PROVE  Moved({e \in ledger' : e.user = u}) = Net(wallet'[u])
<1> DEFINE old == {e \in ledger : e.user = u}
           now == {e \in ledger' : e.user = u}
           new == {e \in ledger' \ ledger : e.user = u}
<1>1. Moved(old) = Net(wallet[u])
  BY DEF LedgerExplainsWallet
<1>2. now = old \cup new
  BY DEF JournalStep
<1>3. \/ new = {} /\ wallet'[u] = wallet[u]
      \/ \E e \in new : /\ new = {e}
                        /\ Net(wallet'[u]) = Net(wallet[u]) + e.delta
  BY DEF JournalStep
<1>4. CASE new = {} /\ wallet'[u] = wallet[u]
  BY <1>1, <1>2, <1>4
<1>5. ASSUME NEW e \in new, new = {e}, Net(wallet'[u]) = Net(wallet[u]) + e.delta
      PROVE  Moved(now) = Net(wallet'[u])
  <2>1. IsFiniteSet(old)
    BY FS_Subset
  <2>2. e \notin old
    OBVIOUS
  <2>3. \A x \in old \cup {e} : x.delta \in Int
    BY DEF LedgerTypeOK
  <2> HIDE DEF old, now, new
  <2>4. Moved(old \cup {e}) = Moved(old) + e.delta
    BY <2>1, <2>2, <2>3, MovedGrows
  <2> QED BY <1>1, <1>2, <1>5, <2>4
<1> QED BY <1>3, <1>4, <1>5

\* Every step of the economy keeps the keys unique, the rows legal and each wallet
\* the sum of its entries.
LEMMA LedgersInvStep ==
  ASSUME LedgersInv, [Next]_vars
  PROVE  LedgersInv'
<1>1. BaseInv'
  BY BaseInvStep DEF LedgersInv
<1>2. LedgerTypeOK /\ IsFiniteSet(ledger) /\ LedgerTypeOK'
  BY <1>1 DEF LedgersInv, BaseInv, CallInv, TypeInv, WalletTypeOK
<1>3. CASE UNCHANGED ledgerVars
  BY <1>1, <1>3 DEF LedgersInv, ledgerVars, OneEntryPerKey, WalletRowsAreLegal,
                    LedgerExplainsWallet, Moved
<1>4. ASSUME NEW writes, IsTransaction(writes), Post(writes)
      PROVE  LedgersInv'
  <2>1. OneEntryPerKey' /\ WalletRowsAreLegal'
    BY <1>2, <1>4, PostKeys, PostLegal DEF LedgersInv
  <2>2. JournalStep
    BY <1>2, <1>4, PostJournals
  <2>3. \A u \in Users : Moved({e \in ledger' : e.user = u}) = Net(wallet'[u])
    BY <1>2, <2>2, ExplainsStep DEF LedgersInv
  <2>4. LedgerExplainsWallet'
    BY <2>3 DEF LedgerExplainsWallet, Moved
  <2> QED BY <1>1, <2>1, <2>4 DEF LedgersInv
<1> QED BY <1>3, <1>4, EconomyPosts DEF LedgersInv

\* Nothing is written at first.
LEMMA LedgersInvInit == Init => LedgersInv
<1> SUFFICES ASSUME Init PROVE LedgersInv
  OBVIOUS
<1>1. OneEntryPerKey /\ WalletRowsAreLegal
  BY LedgerInvInit DEF Init, LedgerInv
<1>2. \A u \in Users : {e \in ledger : e.user = u} = {} /\ Net(wallet[u]) = 0
  BY DEF Init, LedgerInit, Net
<1>3. LedgerExplainsWallet
  BY <1>2, MovedNone DEF LedgerExplainsWallet
<1> QED BY <1>1, <1>3, BaseInvInit DEF LedgersInv

\* Whatever top-ups, store purchases, refund notices, transfers and pools do at the
\* same time: no key is written twice, no row is one its CHECK constraints refuse,
\* and each wallet is the sum of its entries (apply).
THEOREM LedgerHolds ==
  Spec => [](OneEntryPerKey /\ WalletRowsAreLegal /\ LedgerExplainsWallet)
<1>1. LedgersInv /\ [Next]_vars => LedgersInv'
  BY LedgersInvStep
<1>2. LedgersInv => OneEntryPerKey /\ WalletRowsAreLegal /\ LedgerExplainsWallet
  BY DEF LedgersInv
<1> QED BY <1>1, <1>2, LedgersInvInit, PTL DEF Spec

-----------------------------------------------------------------------------
(* Google Play: credit first, then consume.                                *)

CreditedToken(t) ==
  \E e \in ledger : /\ e.key = <<"google_play", t>>
                    /\ e.user = TokenOwner[t]
                    /\ e.delta = TokenCoins[t]

\* A token recorded as paid is credited, and one that is consumed or about to be
\* is recorded as paid.
PlayInv ==
  /\ BaseInv
  /\ \A t \in playTopup : CreditedToken(t)
  /\ consumed \subseteq playTopup
  /\ \A c \in PlayCalls : playCall[c].step = "credited" => playCall[c].token \in playTopup

\* Entries are never taken back.
LEMMA EntriesStay ==
  ASSUME BaseInv, [Next]_vars
  PROVE  ledger \subseteq ledger'
<1>1. LedgerTypeOK
  BY DEF BaseInv, CallInv, TypeInv, WalletTypeOK
<1> QED BY <1>1, EconomyPosts, PostEntries DEF ledgerVars

\* No step of the economy consumes a token that was not credited.
LEMMA PlayInvStep ==
  ASSUME PlayInv, [Next]_vars
  PROVE  PlayInv'
<1>1. BaseInv' /\ ledger \subseteq ledger'
  BY BaseInvStep, EntriesStay DEF PlayInv
<1>2. \A t : CreditedToken(t) => CreditedToken(t)'
  BY <1>1 DEF CreditedToken
<1> DEFINE Kept == /\ \A t \in playTopup' : CreditedToken(t)'
                   /\ consumed' \subseteq playTopup'
                   /\ \A c \in PlayCalls : playCall'[c].step = "credited" =>
                                             playCall'[c].token \in playTopup'
<1>3. ASSUME UNCHANGED playVars PROVE Kept
  BY <1>2, <1>3 DEF playVars, PlayInv
<1>4. ASSUME NEW c \in PlayCalls, NEW t \in Tokens, VerifyPurchase(c, t) PROVE Kept
  BY <1>2, <1>4 DEF VerifyPurchase, PlayInv, BaseInv, PlayTypeOK
<1>5. ASSUME NEW c \in PlayCalls, LookUp(c) PROVE Kept
  <2>1. playCall'[c].step = "looked"
    BY <1>5 DEF LookUp, PlayInv, BaseInv, PlayTypeOK, PlayIdle
  <2> QED BY <1>2, <1>5, <2>1 DEF LookUp, PlayInv, BaseInv, PlayTypeOK
<1>6. ASSUME NEW c \in PlayCalls, CreditPurchase(c) PROVE Kept
  <2>t. PICK t : t = playCall[c].token
    OBVIOUS
  <2> DEFINE w == Write(TokenOwner[t], "TOPUP", TokenCoins[t], <<"google_play", t>>)
  <2>0. LedgerTypeOK /\ PlayTypeOK
    BY DEF PlayInv, BaseInv, CallInv, TypeInv, WalletTypeOK
  <2>1. playTopup' = playTopup \cup {t} /\ consumed' = consumed
    BY <1>6, <2>t DEF CreditPurchase
  <2>2. t \in playTopup => CreditedToken(t)'
    BY <1>2 DEF PlayInv
  <2>3. t \notin playTopup => CreditedToken(t)'
    <3>1. SUFFICES ASSUME t \notin playTopup PROVE CreditedToken(t)'
      OBVIOUS
    <3>2. IsTransaction({w}) /\ Post({w})
      BY <1>6, <2>0, <2>t, <3>1, CreditPosts DEF Posts
    <3>3. Entry(w, Applied(wallet[w.user], w)) \in ledger'
      BY <2>0, <3>2, PostEntries
    <3> QED BY <3>3 DEF Entry, Write, CreditedToken
  <2>4. \A d \in PlayCalls : playCall'[d].step = "credited" =>
                               playCall'[d].token \in playTopup \cup {t}
    <3>1. \A d \in PlayCalls : d # c => playCall'[d] = playCall[d]
      BY <1>6, <2>0 DEF CreditPurchase, PlayTypeOK
    <3>2. playCall'[c].token = t
      BY <1>6, <2>0, <2>t DEF CreditPurchase, PlayTypeOK, PlayIdle
    <3> QED BY <3>1, <3>2 DEF PlayInv
  <2> QED BY <1>2, <2>1, <2>2, <2>3, <2>4 DEF PlayInv
<1>7. ASSUME NEW c \in PlayCalls, ConsumePurchase(c) PROVE Kept
  <2>1. playCall[c].token \in playTopup
    BY <1>7 DEF ConsumePurchase, PlayInv
  <2>2. consumed' \subseteq playTopup /\ playTopup' = playTopup
    BY <1>7, <2>1 DEF ConsumePurchase, PlayInv
  <2>3. \A d \in PlayCalls : playCall'[d].step = "credited" => playCall'[d] = playCall[d]
    BY <1>7 DEF ConsumePurchase, PlayInv, BaseInv, PlayTypeOK, PlayIdle
  <2> QED BY <1>2, <2>2, <2>3 DEF PlayInv
<1>8. ASSUME NEW c \in PlayCalls, EndPlayCall(c) PROVE Kept
  <2>1. \A d \in PlayCalls : playCall'[d].step = "credited" => playCall'[d] = playCall[d]
    BY <1>8 DEF EndPlayCall, PlayInv, BaseInv, PlayTypeOK, PlayIdle
  <2> QED BY <1>2, <1>8, <2>1 DEF EndPlayCall, PlayInv
<1>9. Kept
  <2> HIDE DEF Kept
  <2> QED BY <1>3, <1>4, <1>5, <1>6, <1>7, <1>8 DEF Next, PlayNext, Confirming, vars
<1> QED BY <1>1, <1>9 DEF PlayInv, CreditedToken

\* The store is told "consumed" only of purchases whose coins are in the ledger,
\* whichever step of confirm a request dies after (confirm).
THEOREM ConsumedAlwaysCredited == Spec => []ConsumedIsCredited
<1>1. Init => PlayInv
  BY BaseInvInit DEF Init, PlayInit, PlayInv, PlayIdle
<1>2. PlayInv /\ [Next]_vars => PlayInv'
  BY PlayInvStep
<1>3. PlayInv => ConsumedIsCredited
  BY DEF PlayInv, ConsumedIsCredited, CreditedToken
<1> QED BY <1>1, <1>2, <1>3, PTL DEF Spec

-----------------------------------------------------------------------------
(* Settled and closed pools.                                               *)

\* One step of the pools leaves a settled pool and its stakes as they are, and the
\* stakes of a closed pool until it is settled.
RestStep ==
  \A p \in Pools :
    /\ pool[p].status \in {"PAID_OUT", "CANCELLED"} =>
         pool'[p] = pool[p] /\ stake'[p] = stake[p]
    /\ pool[p].status = "CLOSED" /\ pool'[p].status = "CLOSED" => stake'[p] = stake[p]

\* Every step of the economy leaves settled pools at rest.
LEMMA PoolsRest ==
  ASSUME BaseInv, [Next]_vars
  PROVE  RestStep
<1>0. FundingTypeOK
  BY DEF BaseInv, FundingInv
<1>1. ASSUME NEW p \in Pools, NEW goal \in Goals, CreatePool(p, goal) PROVE RestStep
  BY <1>0, <1>1 DEF CreatePool, RestStep, FundingTypeOK, NoPool
<1>2. ASSUME NEW p \in Pools, PassDeadline(p) \/ ClosePool(p) PROVE RestStep
  BY <1>0, <1>2 DEF PassDeadline, ClosePool, RestStep, FundingTypeOK
<1>3. ASSUME NEW c \in FundCalls, CommitContribute(c) PROVE RestStep
  BY <1>0, <1>3 DEF CommitContribute, RestStep, FundingTypeOK
<1>4. ASSUME NEW c \in FundCalls, CommitClaim(c) PROVE RestStep
  BY <1>0, <1>4 DEF CommitClaim, RestStep, FundingTypeOK
<1>5. ASSUME NEW p \in Pools, NEW P \in Payouts, PayOut(p, P) PROVE RestStep
  <2>1. pool[p] \in Pool /\ Settleable(p)
    BY <1>0, <1>5, PoolFields DEF PayOut, Settleable
  <2>2. pool'[p].status = "PAID_OUT"
    BY <1>0, <1>5, <2>1 DEF PayOut, FundingTypeOK, Pool
  <2>3. \A q \in Pools : q # p => pool'[q] = pool[q] /\ stake'[q] = stake[q]
    BY <1>0, <1>5 DEF PayOut, FundingTypeOK
  <2> QED BY <2>1, <2>2, <2>3 DEF RestStep, Settleable
<1>6. ASSUME NEW p \in Pools, CancelPool(p) PROVE RestStep
  <2>1. pool[p] \in Pool /\ Settleable(p)
    BY <1>0, <1>6, PoolFields DEF CancelPool, Settleable
  <2>2. pool'[p].status = "CANCELLED"
    BY <1>0, <1>6, <2>1 DEF CancelPool, FundingTypeOK, Pool
  <2>3. \A q \in Pools : q # p => pool'[q] = pool[q] /\ stake'[q] = stake[q]
    BY <1>0, <1>6 DEF CancelPool, FundingTypeOK
  <2> QED BY <2>1, <2>2, <2>3 DEF RestStep, Settleable
<1>7. ASSUME NEW c \in FundCalls,
             \/ \E u \in Users, p \in Pools :
                  \/ \E n \in Contributions, k \in FundKeys : BeginContribute(c, u, p, n, k)
                  \/ BeginClaim(c, u, p)
             \/ EndFundCall(c)
      PROVE  RestStep
  BY <1>7 DEF BeginContribute, BeginClaim, EndFundCall, RestStep
<1>8. ASSUME UNCHANGED fundingVars PROVE RestStep
  BY <1>8 DEF fundingVars, RestStep
<1> QED BY <1>1, <1>2, <1>3, <1>4, <1>5, <1>6, <1>7, <1>8 DEF Next, FundingNext, vars

\* A settled pool never moves again and a closed one gives no stake back, whatever
\* read the pool while it was open (payout, cancel, claimRefund).
THEOREM PoolsRestOnceSettled == Spec => SettledPoolRests
<1>1. BaseInv /\ [Next]_vars => BaseInv'
  BY BaseInvStep
<1>2. BaseInv /\ [Next]_vars =>
        [\A p \in Pools : pool[p].status \in {"PAID_OUT", "CANCELLED"} =>
                            pool'[p] = pool[p] /\ stake'[p] = stake[p]]_<<pool, stake>>
  BY PoolsRest DEF RestStep
<1>3. BaseInv /\ [Next]_vars =>
        [\A p \in Pools : pool[p].status = "CLOSED" /\ pool'[p].status = "CLOSED" =>
                            stake'[p] = stake[p]]_<<pool, stake>>
  BY PoolsRest DEF RestStep
<1> QED BY <1>1, <1>2, <1>3, BaseInvInit, PTL
        DEF Spec, SettledPoolRests, SettlementIsFinal, ClosedPoolKeepsItsStakes

-----------------------------------------------------------------------------
(* Apple: the latest signed notice decides.                                *)

\* One write moves its coins under the sets of keys that hold its own, only.
LEMMA OneUnder ==
  ASSUME LedgerTypeOK, IsFiniteSet(ledger), NEW K, NEW w, NEW tags, Posts({w}, tags)
  PROVE  /\ w.key \notin K => Under(K)' = Under(K)
         /\ w.key \in K =>
              /\ Moved(Under(K))' = Moved(Under(K)) + w.delta
              /\ (\A e \in Under(K) : e.user = w.user) => \A e \in Under(K)' : e.user = w.user
<1>1. IsTransaction({w}) /\ Post({w})
  BY DEF Posts
<1>2. w \in {w} /\ \A v \in {w} : v = w
  OBVIOUS
<1>3. CASE w.key \notin K
  BY <1>1, <1>2, <1>3, PostUnder
<1>4. CASE w.key \in K
  BY <1>1, <1>2, <1>4, PostUnder
<1> QED BY <1>3, <1>4

\* Keys of one component's tags are not written by another's transactions.
LEMMA TagsApart ==
  ASSUME LedgerTypeOK, IsFiniteSet(ledger), NEW K, NEW tags,
         \A k \in K : k[1] \notin tags,
         UNCHANGED ledgerVars \/ \E writes : Posts(writes, tags)
  PROVE  Under(K)' = Under(K)
<1>1. CASE UNCHANGED ledgerVars
  BY <1>1 DEF ledgerVars, Under
<1>2. ASSUME NEW writes, Posts(writes, tags)
      PROVE  Under(K)' = Under(K)
  BY <1>2, PostUnder DEF Posts
<1> QED BY <1>1, <1>2

\* The keys of the entries of a purchase.
AppleKeys(t) ==
  {<<"apple_coin", t>>}
  \cup {<<"apple_refund", n>> : n \in {m \in Notices : m.txn = t}}
  \cup {<<"apple_refund_reversal", n>> : n \in {m \in Notices : m.txn = t}}

\* Each key of a purchase belongs to that purchase and to no other component.
LEMMA AppleKeysApart ==
  ASSUME NEW t
  PROVE  /\ \A k \in AppleKeys(t) : k[1] \in AppleTags
         /\ \A s : <<"apple_coin", s>> \in AppleKeys(t) <=> s = t
         /\ \A n \in Notices : <<"apple_refund", n>> \in AppleKeys(t) <=> n.txn = t
         /\ \A n \in Notices : <<"apple_refund_reversal", n>> \in AppleKeys(t) <=> n.txn = t
<1> DEFINE N == {m \in Notices : m.txn = t}
<1>1. \A k : k \in AppleKeys(t) <=> \/ k = <<"apple_coin", t>>
                                    \/ \E n \in N : k = <<"apple_refund", n>>
                                    \/ \E n \in N : k = <<"apple_refund_reversal", n>>
  BY DEF AppleKeys
<1>2. \A a, b, x, y : <<a, x>> = <<b, y>> <=> a = b /\ x = y
  OBVIOUS
<1>3. \A k \in AppleKeys(t) : k[1] \in AppleTags
  BY <1>1 DEF AppleTags
<1>4. \A s : <<"apple_coin", s>> \in AppleKeys(t) <=> s = t
  BY <1>1, <1>2
<1>5. \A n \in Notices : <<"apple_refund", n>> \in AppleKeys(t) <=> n.txn = t
  BY <1>1, <1>2
<1>6. \A n \in Notices : <<"apple_refund_reversal", n>> \in AppleKeys(t) <=> n.txn = t
  BY <1>1, <1>2
<1> QED BY <1>3, <1>4, <1>5, <1>6

\* The entries of a purchase are those under its keys.
LEMMA EntriesUnder ==
  ASSUME NEW t
  PROVE  EntriesOf(t) = Under(AppleKeys(t))
BY DEF EntriesOf, Under, AppleKeys

\* The kept refund state is what the latest received notice says, or that there was
\* none; a settled purchase stands as it says; its entries net to how it stands.
LatestKept ==
  /\ \A n \in received :
       /\ n.signedAt <= refundState[n.txn].signedAt
       /\ n.signedAt = refundState[n.txn].signedAt => refundState[n.txn].refunded = Refunds(n)
  /\ \A t \in AppleTxns :
       \/ refundState[t] = NoRefund
       \/ \E n \in received : n.txn = t /\ n.signedAt = refundState[t].signedAt
  /\ \A t \in AppleTxns :
       appleTopup[t] \in {"NONE", IF refundState[t].refunded THEN "REFUNDED" ELSE "PAID"}

NetsTo(t, status) ==
  /\ \A e \in Under(AppleKeys(t)) : e.user = Owner[t]
  /\ Moved(Under(AppleKeys(t))) = IF status = "PAID" THEN PackCoins[t] ELSE 0

AppleInv == BaseInv /\ LatestKept /\ \A t \in AppleTxns : NetsTo(t, appleTopup[t])

\* Every step of the store keeps the latest notice in force.
LEMMA LatestKeptStep ==
  ASSUME AppleTypeOK, LatestKept, AppleNext \/ UNCHANGED appleVars
  PROVE  LatestKept'
<1>1. ASSUME NEW t \in AppleTxns, ConfirmApple(t) PROVE LatestKept'
  BY <1>1 DEF ConfirmApple, LatestKept, AppleTypeOK
<1>2. ASSUME NEW n \in Notices, ReceiveStale(n) PROVE LatestKept'
  <2>1. n.txn \in AppleTxns /\ n.signedAt \in Nat
    BY AppleConstants
  <2>2. n.signedAt # refundState[n.txn].signedAt
    <3>1. refundState[n.txn] = NoRefund => n.signedAt # refundState[n.txn].signedAt
      BY <2>1 DEF NoRefund
    <3>2. ASSUME NEW m \in received, m.txn = n.txn, m.signedAt = refundState[n.txn].signedAt
          PROVE  n.signedAt # refundState[n.txn].signedAt
      BY <1>2, <3>2, AppleConstants DEF ReceiveStale, AppleTypeOK
    <3> QED BY <2>1, <3>1, <3>2 DEF LatestKept
  <2>3. received' = received \cup {n} /\ n.signedAt <= refundState[n.txn].signedAt
    BY <1>2 DEF ReceiveStale, Stale
  <2> QED BY <1>2, <2>2, <2>3 DEF ReceiveStale, LatestKept
<1>3. ASSUME NEW n \in Notices, ReceiveNewer(n) PROVE LatestKept'
  <2>1. n.txn \in AppleTxns /\ n.signedAt \in Nat
    BY AppleConstants
  <2>2. /\ received' = received \cup {n}
        /\ refundState'[n.txn] = [refunded |-> Refunds(n), signedAt |-> n.signedAt]
        /\ \A t \in AppleTxns : t # n.txn => /\ refundState'[t] = refundState[t]
                                             /\ appleTopup'[t] = appleTopup[t]
        /\ appleTopup'[n.txn] \in {"NONE", IF Refunds(n) THEN "REFUNDED" ELSE "PAID"}
    BY <1>3, <2>1 DEF ReceiveNewer, AppleTypeOK
  <2>3. ASSUME NEW m \in received
        PROVE  /\ m.txn \in AppleTxns /\ m.signedAt \in Int
               /\ m.txn = n.txn => m.signedAt < n.signedAt
    BY <1>3, <2>1, <2>3, AppleConstants DEF ReceiveNewer, Stale, LatestKept, AppleTypeOK
  <2>4. \A m \in received' :
          /\ m.signedAt <= refundState'[m.txn].signedAt
          /\ m.signedAt = refundState'[m.txn].signedAt => refundState'[m.txn].refunded = Refunds(m)
    BY <2>1, <2>2, <2>3 DEF LatestKept
  <2>5. \A t \in AppleTxns :
          \/ refundState'[t] = NoRefund
          \/ \E m \in received' : m.txn = t /\ m.signedAt = refundState'[t].signedAt
    BY <2>2 DEF LatestKept
  <2>6. \A t \in AppleTxns :
          appleTopup'[t] \in {"NONE", IF refundState'[t].refunded THEN "REFUNDED" ELSE "PAID"}
    BY <2>2 DEF LatestKept
  <2> QED BY <2>4, <2>5, <2>6 DEF LatestKept, Refunds
<1>4. CASE UNCHANGED appleVars
  BY <1>4 DEF appleVars, LatestKept, Refunds
<1> QED BY <1>1, <1>2, <1>3, <1>4 DEF AppleNext

\* Every step of the store moves the coins that the new status says.
LEMMA NetsToStep ==
  ASSUME AppleInv, AppleNext, NEW t \in AppleTxns
  PROVE  NetsTo(t, appleTopup[t])'
<1>0. LedgerTypeOK /\ IsFiniteSet(ledger) /\ AppleTypeOK
  BY DEF AppleInv, BaseInv, CallInv, TypeInv, WalletTypeOK
<1> DEFINE K == AppleKeys(t)
           Goal == NetsTo(t, appleTopup[t])'
<1>1. NetsTo(t, appleTopup[t]) /\ PackCoins[t] \in Int
  BY AppleConstants DEF AppleInv
<1>2. ASSUME Under(K)' = Under(K), appleTopup'[t] = appleTopup[t] PROVE Goal
  <2>1. Moved(Under(K))' = Moved(Under(K)')
    BY DEF Moved
  <2> QED BY <1>1, <1>2, <2>1 DEF NetsTo
<1>3. ASSUME NEW w, Posts({w}, AppleTags), w.key \in K, w.user = Owner[t],
             w.delta = (IF appleTopup'[t] = "PAID" THEN PackCoins[t] ELSE 0)
                       - (IF appleTopup[t] = "PAID" THEN PackCoins[t] ELSE 0)
      PROVE  Goal
  <2>1. /\ Moved(Under(K))' = Moved(Under(K)) + w.delta
        /\ \A e \in Under(K)' : e.user = Owner[t]
    BY <1>0, <1>1, <1>3, OneUnder DEF NetsTo
  <2>2. Moved(Under(K))' = IF appleTopup'[t] = "PAID" THEN PackCoins[t] ELSE 0
    BY <1>1, <1>3, <2>1 DEF NetsTo
  <2> QED BY <2>1, <2>2 DEF NetsTo
<1> HIDE DEF Goal
<1>4. ASSUME NEW s \in AppleTxns, ConfirmApple(s) PROVE Goal
  <2> DEFINE w == Write(Owner[s], "TOPUP", PackCoins[s], <<"apple_coin", s>>)
  <2>1. Posts({w}, AppleTags) /\ (w.key \in K <=> s = t)
    BY <1>4, ConfirmPosts, AppleKeysApart DEF Write
  <2>2. w.user = Owner[s] /\ w.delta = PackCoins[s]
    BY DEF Write
  <2>3. /\ appleTopup[s] = "NONE" /\ appleTopup'[s] = "PAID"
        /\ s # t => appleTopup'[t] = appleTopup[t]
    BY <1>0, <1>4 DEF ConfirmApple, AppleTypeOK
  <2> HIDE DEF w, K
  <2>4. CASE s = t
    <3>1. w.delta = (IF appleTopup'[t] = "PAID" THEN PackCoins[t] ELSE 0)
                    - (IF appleTopup[t] = "PAID" THEN PackCoins[t] ELSE 0)
      BY <1>1, <2>2, <2>3, <2>4
    <3> QED BY <1>3, <2>1, <2>2, <2>4, <3>1
  <2>5. CASE s # t
    BY <1>0, <1>2, <2>1, <2>3, <2>5, OneUnder
  <2> QED BY <2>4, <2>5
<1>5. ASSUME NEW n \in Notices, ReceiveStale(n) PROVE Goal
  <2>1. Under(K)' = Under(K) /\ appleTopup'[t] = appleTopup[t]
    BY <1>5 DEF ReceiveStale, ledgerVars, Under
  <2> QED BY <1>2, <2>1
<1>6. ASSUME NEW n \in Notices, ReceiveNewer(n) PROVE Goal
  <2>0. n.txn \in AppleTxns
    BY AppleConstants
  <2>1. /\ n.txn # t => appleTopup'[t] = appleTopup[t]
        /\ appleTopup'[n.txn] = IF appleTopup[n.txn] = "NONE" THEN "NONE"
                                ELSE IF Refunds(n) THEN "REFUNDED" ELSE "PAID"
        /\ appleTopup[n.txn] \in {"NONE", "PAID", "REFUNDED"}
    BY <1>0, <1>6, <2>0 DEF ReceiveNewer, AppleTypeOK
  <2>2. CASE ~Takes(n) /\ ~Returns(n)
    <3>1. UNCHANGED ledgerVars
      BY <1>0, <1>6, <2>2, ReceivePosts
    <3>2. appleTopup'[t] = appleTopup[t]
      BY <2>1, <2>2 DEF Takes, Returns
    <3> QED BY <1>2, <3>1, <3>2 DEF ledgerVars, Under
  <2>3. CASE Takes(n)
    <3> DEFINE w == Write(Owner[n.txn], "APPLE_REFUND", -PackCoins[n.txn], <<"apple_refund", n>>)
    <3>1. Posts({w}, AppleTags) /\ (w.key \in K <=> n.txn = t)
      BY <1>0, <1>6, <2>3, ReceivePosts, AppleKeysApart DEF Write
    <3>2. w.user = Owner[n.txn] /\ w.delta = -PackCoins[n.txn]
      BY DEF Write
    <3> HIDE DEF w, K
    <3>3. CASE n.txn = t
      <4>1. w.delta = (IF appleTopup'[t] = "PAID" THEN PackCoins[t] ELSE 0)
                      - (IF appleTopup[t] = "PAID" THEN PackCoins[t] ELSE 0)
        BY <1>1, <2>1, <2>3, <3>2, <3>3 DEF Takes
      <4> QED BY <1>3, <3>1, <3>2, <3>3, <4>1
    <3>4. CASE n.txn # t
      BY <1>0, <1>2, <2>1, <3>1, <3>4, OneUnder
    <3> QED BY <3>3, <3>4
  <2>4. CASE Returns(n)
    <3> DEFINE w == Write(Owner[n.txn], "APPLE_REFUND_REVERSAL", PackCoins[n.txn],
                          <<"apple_refund_reversal", n>>)
    <3>1. Posts({w}, AppleTags) /\ (w.key \in K <=> n.txn = t)
      BY <1>0, <1>6, <2>4, ReceivePosts, AppleKeysApart DEF Write
    <3>2. w.user = Owner[n.txn] /\ w.delta = PackCoins[n.txn]
      BY DEF Write
    <3> HIDE DEF w, K
    <3>3. CASE n.txn = t
      <4>1. w.delta = (IF appleTopup'[t] = "PAID" THEN PackCoins[t] ELSE 0)
                      - (IF appleTopup[t] = "PAID" THEN PackCoins[t] ELSE 0)
        BY <1>1, <2>1, <2>4, <3>2, <3>3 DEF Returns
      <4> QED BY <1>3, <3>1, <3>2, <3>3, <4>1
    <3>4. CASE n.txn # t
      BY <1>0, <1>2, <2>1, <3>1, <3>4, OneUnder
    <3> QED BY <3>3, <3>4
  <2> QED BY <2>2, <2>3, <2>4
<1>7. Goal
  BY <1>4, <1>5, <1>6 DEF AppleNext
<1> QED BY <1>7 DEF Goal

\* Every step of the economy keeps purchases as their latest notices say.
LEMMA AppleInvStep ==
  ASSUME AppleInv, [Next]_vars
  PROVE  AppleInv'
<1>0. BaseInv /\ LedgerTypeOK /\ IsFiniteSet(ledger) /\ AppleTypeOK
  BY DEF AppleInv, BaseInv, CallInv, TypeInv, WalletTypeOK
<1>1. BaseInv' /\ LatestKept'
  BY <1>0, BaseInvStep, LatestKeptStep DEF AppleInv, Next, vars
<1>2. ASSUME NEW t \in AppleTxns
      PROVE  NetsTo(t, appleTopup[t])'
  <2>1. CASE AppleNext
    BY <2>1, NetsToStep
  <2>2. CASE (WalletNext \/ PlayNext \/ FundingNext \/ UNCHANGED vars) /\ UNCHANGED appleVars
    <3>1. PICK tags : /\ \A k \in AppleKeys(t) : k[1] \notin tags
                      /\ UNCHANGED ledgerVars \/ \E writes : Posts(writes, tags)
      <4>1. AppleTags \cap WalletTags = {} /\ AppleTags \cap PlayTags = {}
            /\ AppleTags \cap PoolTags = {}
        BY DEF AppleTags, WalletTags, PlayTags, PoolTags
      <4>2. \A k \in AppleKeys(t) : k[1] \in AppleTags
        BY AppleKeysApart
      <4> QED BY <1>0, <2>2, <4>1, <4>2, WalletPosts, OthersPost DEF vars
    <3>2. Under(AppleKeys(t))' = Under(AppleKeys(t))
      BY <1>0, <3>1, TagsApart
    <3>3. NetsTo(t, appleTopup[t]) /\ appleTopup'[t] = appleTopup[t]
      BY <2>2 DEF AppleInv, appleVars
    <3>4. Moved(Under(AppleKeys(t)))' = Moved(Under(AppleKeys(t))')
      BY DEF Moved
    <3> QED BY <3>2, <3>3, <3>4 DEF NetsTo
  <2> QED BY <2>1, <2>2 DEF Next, vars
<1> QED BY <1>1, <1>2 DEF AppleInv

\* Whatever order Apple's notices of a purchase arrive in, and whenever the app settles
\* it, the purchase stands as the latest signed one says and its ledger entries net to
\* how it stands (confirm, receive).
THEOREM RefundsAlwaysSettle == Spec => []RefundsSettle
<1>1. Init => AppleInv
  <2> SUFFICES ASSUME Init PROVE AppleInv
    OBVIOUS
  <2>1. LatestKept
    BY DEF Init, AppleInit, LatestKept, NoRefund
  <2>2. ASSUME NEW t \in AppleTxns PROVE NetsTo(t, appleTopup[t])
    <3>1. Under(AppleKeys(t)) = {} /\ appleTopup[t] = "NONE"
      BY DEF Init, AppleInit, LedgerInit, Under
    <3> QED BY <3>1, MovedNone DEF NetsTo
  <2> QED BY <2>1, <2>2, BaseInvInit DEF AppleInv
<1>2. AppleInv /\ [Next]_vars => AppleInv'
  BY AppleInvStep
<1>3. AppleInv => RefundsSettle
  <2> SUFFICES ASSUME AppleInv PROVE RefundsSettle
    OBVIOUS
  <2>0. AppleTypeOK
    BY DEF AppleInv, BaseInv
  <2>1. LatestNoticeDecides
    <3> SUFFICES ASSUME NEW n \in received, \A m \in NoticesOf(n.txn) : m.signedAt <= n.signedAt
                 PROVE  appleTopup[n.txn] \in {"NONE", IF Refunds(n) THEN "REFUNDED" ELSE "PAID"}
      BY DEF LatestNoticeDecides
    <3>1. n.txn \in AppleTxns /\ n.signedAt \in Nat /\ n.signedAt <= refundState[n.txn].signedAt
      BY <2>0, AppleConstants DEF AppleInv, LatestKept, AppleTypeOK
    <3>2. refundState[n.txn] # NoRefund
      BY <3>1 DEF NoRefund
    <3>3. PICK m \in received : m.txn = n.txn /\ m.signedAt = refundState[n.txn].signedAt
      BY <3>1, <3>2 DEF AppleInv, LatestKept
    <3>4. n.signedAt = refundState[n.txn].signedAt
      <4>1. m.signedAt <= n.signedAt /\ m.signedAt \in Nat
        BY <2>0, <3>3, AppleConstants DEF NoticesOf, AppleTypeOK
      <4> QED BY <3>1, <3>3, <4>1
    <3> QED BY <3>1, <3>4 DEF AppleInv, LatestKept
  <2>2. PurchaseNetsToStatus
    BY EntriesUnder DEF AppleInv, NetsTo, PurchaseNetsToStatus
  <2> QED BY <2>1, <2>2 DEF RefundsSettle
<1> QED BY <1>1, <1>2, <1>3, PTL DEF Spec

-----------------------------------------------------------------------------
(* What each step of the pools does to the pools and the stakes.           *)

SameStake(q, v) == stake'[q][v] = stake[q][v]

\* A contribution adds its coins to the open pool and to the viewer's stake.
LEMMA Contributed ==
  ASSUME FundingInv, NEW c \in FundCalls, CommitContribute(c)
  PROVE  LET u == fundCall[c].user
             p == fundCall[c].pool
             n == fundCall[c].coins
         IN  /\ u \in Users /\ p \in Pools /\ n \in Nat \ {0} /\ fundCall[c].key \in FundKeys
             /\ pool[p].status = "OPEN" /\ pool'[p].status = "OPEN"
             /\ pool[p].total \in Int /\ pool'[p].total = pool[p].total + n
             /\ \A q \in Pools : q # p => pool'[q] = pool[q]
             /\ \A q \in Pools, v \in Users : (q = p /\ v = u) \/ SameStake(q, v)
             /\ stake'[p][u].coins = stake[p][u].coins + n /\ stake'[p][u].coins <= IntMax
             /\ stake'[p][u].refunded = stake[p][u].refunded
             /\ stake'[p][u].paid = stake[p][u].paid
<1> DEFINE u == fundCall[c].user
           p == fundCall[c].pool
           n == fundCall[c].coins
<1>1. /\ u \in Users /\ p \in Pools /\ n \in Nat \ {0} /\ fundCall[c].key \in FundKeys
      /\ pool[p].status = "OPEN"
  BY FundCallFields, FundingConstants DEF CommitContribute, FundingInv
<1>2. pool[p] \in Pool
  BY <1>1, PoolFields DEF FundingInv
<1>3. /\ pool' = [pool EXCEPT ![p].total = @ + n]
      /\ stake' = [stake EXCEPT ![p][u].coins = @ + n]
      /\ stake[p][u].coins + n <= IntMax
  BY DEF CommitContribute
<1> HIDE DEF u, p, n
<1>4. /\ pool'[p].status = "OPEN" /\ pool[p].total \in Int /\ pool'[p].total = pool[p].total + n
      /\ \A q \in Pools : q # p => pool'[q] = pool[q]
  BY <1>1, <1>2, <1>3 DEF FundingInv, FundingTypeOK, Pool
<1>5. /\ \A q \in Pools, v \in Users : (q = p /\ v = u) \/ SameStake(q, v)
      /\ stake'[p][u].coins = stake[p][u].coins + n
      /\ stake'[p][u].refunded = stake[p][u].refunded
      /\ stake'[p][u].paid = stake[p][u].paid
  BY <1>1, <1>3 DEF FundingInv, FundingTypeOK, SameStake
<1> QED BY <1>1, <1>3, <1>4, <1>5 DEF u, p, n

\* A claim takes what it read of the stake out of the open pool and out of the stake.
LEMMA Claimed ==
  ASSUME FundingInv, NEW c \in FundCalls, CommitClaim(c)
  PROVE  LET u == fundCall[c].user
             p == fundCall[c].pool
             n == fundCall[c].coins
             was == fundCall[c].refunded
         IN  /\ u \in Users /\ p \in Pools /\ n \in Nat /\ was \in Nat /\ was < n
             /\ n <= stake[p][u].coins
             /\ pool[p].status = "OPEN" /\ pool'[p].status = "OPEN"
             /\ pool[p].total \in Int /\ pool'[p].total = pool[p].total - (n - was)
             /\ \A q \in Pools : q # p => pool'[q] = pool[q]
             /\ \A q \in Pools, v \in Users : (q = p /\ v = u) \/ SameStake(q, v)
             /\ stake'[p][u].coins = stake[p][u].coins
             /\ stake[p][u].refunded = was /\ stake'[p][u].refunded = n
             /\ stake'[p][u].paid = stake[p][u].paid
<1> DEFINE u == fundCall[c].user
           p == fundCall[c].pool
           n == fundCall[c].coins
           was == fundCall[c].refunded
<1>0. pool[p].status = "OPEN" /\ stake[p][u].refunded = was
  BY Zenon DEF CommitClaim
<1>1. /\ u \in Users /\ p \in Pools /\ n \in Nat /\ was \in Nat /\ was < n
      /\ n <= stake[p][u].coins
  BY ClaimFields
<1>2. pool[p] \in Pool
  BY <1>0, <1>1, PoolFields DEF FundingInv
<1>3. /\ pool' = [pool EXCEPT ![p].total = @ - (n - was)]
      /\ stake' = [stake EXCEPT ![p][u].refunded = n]
  BY DEF CommitClaim
<1> HIDE DEF u, p, n, was
<1>4. /\ pool'[p].status = "OPEN" /\ pool[p].total \in Int
      /\ pool'[p].total = pool[p].total - (n - was)
      /\ \A q \in Pools : q # p => pool'[q] = pool[q]
  BY <1>0, <1>1, <1>2, <1>3 DEF FundingInv, FundingTypeOK, Pool
<1>5. /\ \A q \in Pools, v \in Users : (q = p /\ v = u) \/ SameStake(q, v)
      /\ stake'[p][u].coins = stake[p][u].coins
      /\ stake'[p][u].refunded = n
      /\ stake'[p][u].paid = stake[p][u].paid
  BY <1>1, <1>3 DEF FundingInv, FundingTypeOK, SameStake
<1> QED BY <1>0, <1>1, <1>4, <1>5 DEF u, p, n, was

\* A payout writes its share on each live stake and leaves the pool's total.
LEMMA PaidOut ==
  ASSUME FundingInv, NEW p \in Pools, NEW P \in Payouts, PayOut(p, P)
  PROVE  LET plan == Shares(NetStake(p), P, StakeRank)
         IN  /\ pool[p].status \in {"OPEN", "CLOSED"} /\ pool'[p].status = "PAID_OUT"
             /\ pool[p].total \in Int /\ pool'[p].total = pool[p].total /\ pool'[p].payout = P
             /\ \A q \in Pools : q # p => pool'[q] = pool[q] /\ \A v \in Users : SameStake(q, v)
             /\ \A v \in Users :
                  /\ stake'[p][v].coins = stake[p][v].coins
                  /\ stake'[p][v].refunded = stake[p][v].refunded
                  /\ stake'[p][v].paid = IF v \in Live(NetStake(p)) THEN plan[v]
                                         ELSE stake[p][v].paid
<1> DEFINE plan == Shares(NetStake(p), P, StakeRank)
           D == Live(NetStake(p))
           paid == [u \in Users |-> IF u \in D THEN [stake[p][u] EXCEPT !.paid = plan[u]]
                                    ELSE stake[p][u]]
<1>1. pool[p] \in Pool /\ pool[p].status \in {"OPEN", "CLOSED"}
  BY PoolFields DEF PayOut, Settleable, FundingInv
<1>2. DOMAIN plan = D
  BY PlanType
<1>3. /\ pool' = [pool EXCEPT ![p] = [pool[p] EXCEPT !.status = "PAID_OUT", !.payout = P]]
      /\ stake' = [stake EXCEPT ![p] = paid]
  BY <1>2 DEF PayOut, FundingInv, FundingTypeOK
<1> HIDE DEF plan, D
<1>4. /\ pool'[p].status = "PAID_OUT" /\ pool[p].total \in Int
      /\ pool'[p].total = pool[p].total /\ pool'[p].payout = P
      /\ \A q \in Pools : q # p => pool'[q] = pool[q]
  BY <1>1, <1>3 DEF FundingInv, FundingTypeOK, Pool
<1>5. \A v \in Users : /\ paid[v].coins = stake[p][v].coins
                       /\ paid[v].refunded = stake[p][v].refunded
                       /\ paid[v].paid = IF v \in D THEN plan[v] ELSE stake[p][v].paid
  BY DEF FundingInv, FundingTypeOK
<1> HIDE DEF paid
<1>6. /\ stake'[p] = paid
      /\ \A q \in Pools : q # p => \A v \in Users : SameStake(q, v)
  BY <1>3 DEF FundingInv, FundingTypeOK, SameStake
<1> QED BY <1>1, <1>4, <1>5, <1>6 DEF plan, D

\* A cancellation refunds each stake in full and empties the pool.
LEMMA Cancelled ==
  ASSUME FundingInv, NEW p \in Pools, CancelPool(p)
  PROVE  /\ pool[p].status \in {"OPEN", "CLOSED"} /\ pool'[p].status = "CANCELLED"
         /\ pool[p].total \in Int /\ pool'[p].total = 0
         /\ \A q \in Pools : q # p => pool'[q] = pool[q] /\ \A v \in Users : SameStake(q, v)
         /\ \A v \in Users : /\ stake'[p][v].coins = stake[p][v].coins
                             /\ stake'[p][v].refunded = stake[p][v].coins
                             /\ stake'[p][v].paid = stake[p][v].paid
<1> DEFINE net == NetStake(p)
           D == Live(net)
           back == [u \in Users |-> IF u \in D THEN [stake[p][u] EXCEPT !.refunded = @ + net[u]]
                                    ELSE stake[p][u]]
<1>1. pool[p] \in Pool /\ pool[p].status \in {"OPEN", "CLOSED"}
  BY PoolFields DEF CancelPool, Settleable, FundingInv
<1>2. \A u \in Users : /\ net[u] \in Nat /\ net[u] = stake[p][u].coins - stake[p][u].refunded
                       /\ u \in D <=> net[u] > 0
  BY NetStakes DEF Live
<1>3. /\ pool' = [pool EXCEPT ![p] = [pool[p] EXCEPT !.status = "CANCELLED", !.total = 0]]
      /\ stake' = [stake EXCEPT ![p] = back]
  BY DEF CancelPool, FundingInv, FundingTypeOK
<1> HIDE DEF net, D
<1>4. /\ pool'[p].status = "CANCELLED" /\ pool[p].total \in Int /\ pool'[p].total = 0
      /\ \A q \in Pools : q # p => pool'[q] = pool[q]
  BY <1>1, <1>3 DEF FundingInv, FundingTypeOK, Pool
<1>5. \A v \in Users : /\ back[v].coins = stake[p][v].coins
                       /\ back[v].refunded = stake[p][v].coins
                       /\ back[v].paid = stake[p][v].paid
  BY <1>2 DEF FundingInv, FundingTypeOK
<1> HIDE DEF back
<1>6. /\ stake'[p] = back
      /\ \A q \in Pools : q # p => \A v \in Users : SameStake(q, v)
  BY <1>3 DEF FundingInv, FundingTypeOK, SameStake
<1> QED BY <1>1, <1>4, <1>5, <1>6

\* A new pool is open and empty.
Opened(p) ==
  /\ UNCHANGED <<ledgerVars, stake>>
  /\ pool[p] = NoPool /\ pool'[p].status = "OPEN" /\ pool'[p].total = 0
  /\ \A q \in Pools : q # p => pool'[q] = pool[q]

\* Every other step leaves the stakes and the coins in the pools as they are.
PoolsIdle ==
  /\ UNCHANGED <<ledgerVars, stake>>
  /\ \A q \in Pools :
       \/ pool'[q] = pool[q]
       \/ /\ pool[q].status \in {"OPEN", "CLOSED"} /\ pool'[q].status \in {"OPEN", "CLOSED"}
          /\ pool'[q].total = pool[q].total

\* The steps of the pools are of six kinds.
LEMMA FundingKinds ==
  ASSUME FundingInv, FundingNext
  PROVE  \/ PoolsIdle \/ \E p \in Pools : Opened(p)
         \/ \E c \in FundCalls : CommitContribute(c) \/ CommitClaim(c)
         \/ \E p \in Pools : CancelPool(p) \/ \E P \in Payouts : PayOut(p, P)
<1>1. ASSUME NEW p \in Pools, NEW goal \in Goals, CreatePool(p, goal) PROVE Opened(p)
  BY <1>1 DEF CreatePool, Opened, FundingInv, FundingTypeOK
<1>2. ASSUME NEW p \in Pools, PassDeadline(p) \/ ClosePool(p) PROVE PoolsIdle
  <2>1. pool[p] \in Pool /\ pool[p].status = "OPEN"
    BY <1>2, PoolFields DEF PassDeadline, ClosePool, FundingInv
  <2> QED BY <1>2, <2>1 DEF PassDeadline, ClosePool, PoolsIdle, FundingInv, FundingTypeOK, Pool
<1>3. ASSUME NEW c \in FundCalls,
             \/ \E u \in Users, p \in Pools :
                  \/ \E n \in Contributions, k \in FundKeys : BeginContribute(c, u, p, n, k)
                  \/ BeginClaim(c, u, p)
             \/ EndFundCall(c)
      PROVE  PoolsIdle
  BY <1>3 DEF BeginContribute, BeginClaim, EndFundCall, PoolsIdle
<1> QED BY <1>1, <1>2, <1>3 DEF FundingNext

-----------------------------------------------------------------------------
(* A pool holds what its stakes add up to and pays exactly what was set.   *)

Paid(p) == [u \in Users |-> stake[p][u].paid]

ExactShares(p) ==
  /\ SumFunction(Paid(p)) = pool[p].payout
  /\ \A u \in Users :
       LET exact == NetStake(p)[u] * pool[p].payout
           share == stake[p][u].paid * pool[p].total
       IN  share - exact < pool[p].total /\ exact - share < pool[p].total

PoolSums(p) ==
  /\ \A u \in Users : stake[p][u].coins <= IntMax
  /\ pool[p].status # "PAID_OUT" => \A u \in Users : stake[p][u].paid = 0
  /\ SumFunction(NetStake(p)) = IF pool[p] = NoPool THEN 0 ELSE pool[p].total
  /\ pool[p].status = "PAID_OUT" /\ pool[p].total > 0 => ExactShares(p)

\* A pool none of whose stakes moved keeps its sums when it keeps its coins.
LEMMA SumsKept ==
  ASSUME FundingInv, FundingInv', NEW p \in Pools, PoolSums(p), stake'[p] = stake[p],
         \/ pool'[p] = pool[p]
         \/ pool[p] = NoPool /\ pool'[p].status = "OPEN" /\ pool'[p].total = 0
         \/ /\ pool[p].status \in {"OPEN", "CLOSED"} /\ pool'[p].status \in {"OPEN", "CLOSED"}
            /\ pool'[p].total = pool[p].total
  PROVE  PoolSums(p)'
<1>1. NetStake(p)' = NetStake(p) /\ Paid(p)' = Paid(p)
  BY DEF NetStake, Paid
<1>2. CASE pool'[p] = pool[p]
  BY <1>1, <1>2 DEF PoolSums, ExactShares, NoPool
<1>3. CASE pool[p] = NoPool /\ pool'[p].status = "OPEN" /\ pool'[p].total = 0
  <2>1. pool'[p] # NoPool /\ pool[p].status # "PAID_OUT"
    BY <1>3 DEF NoPool
  <2> QED BY <1>1, <1>3, <2>1 DEF PoolSums, NoPool
<1>4. CASE /\ pool[p].status \in {"OPEN", "CLOSED"} /\ pool'[p].status \in {"OPEN", "CLOSED"}
           /\ pool'[p].total = pool[p].total
  <2>1. pool[p] # NoPool /\ pool'[p] # NoPool
    BY <1>4 DEF NoPool
  <2> QED BY <1>1, <1>4, <2>1 DEF PoolSums, NoPool
<1> QED BY <1>2, <1>3, <1>4

\* One stake and the pool move by the same number of coins.
LEMMA SumsMove ==
  ASSUME FundingInv, FundingInv', NEW p \in Pools, NEW u \in Users, NEW n \in Int, PoolSums(p),
         pool[p].status = "OPEN", pool'[p].status = "OPEN",
         pool[p].total \in Int, pool'[p].total = pool[p].total + n,
         \A v \in Users : v = u \/ SameStake(p, v),
         stake'[p][u].coins - stake'[p][u].refunded
           = stake[p][u].coins - stake[p][u].refunded + n,
         stake'[p][u].coins <= IntMax,
         stake'[p][u].paid = stake[p][u].paid
  PROVE  PoolSums(p)'
<1> DEFINE f == NetStake(p)
           g == NetStake(p)'
<1>1. /\ f \in [Users -> Nat] /\ g \in [Users -> Nat]
      /\ \A v \in Users : /\ f[v] = stake[p][v].coins - stake[p][v].refunded
                          /\ g[v] = stake'[p][v].coins - stake'[p][v].refunded
  <2>1. f \in [Users -> Nat] /\ \A v \in Users : f[v] = stake[p][v].coins - stake[p][v].refunded
    BY NetStakes
  <2>2. \A v \in Users : g[v] = stake'[p][v].coins - stake'[p][v].refunded
    BY DEF NetStake
  <2>3. g = [v \in Users |-> stake'[p][v].coins - stake'[p][v].refunded]
    BY DEF NetStake
  <2>4. \A v \in Users : stake'[p][v].coins - stake'[p][v].refunded \in Nat
    BY DEF FundingInv, FundingTypeOK, StakesInv
  <2> QED BY <2>1, <2>2, <2>3, <2>4
<1>2. \A v \in Users : v # u => g[v] = f[v]
  BY <1>1 DEF SameStake
<1>3. g[u] = f[u] + n
  BY <1>1
<1>4. pool[p] # NoPool /\ pool'[p] # NoPool
  BY DEF NoPool
<1>5. f \in [Users -> Int] /\ g \in [Users -> Int] /\ IsFiniteSet(Users)
  BY <1>1, LedgerConstants
<1> HIDE DEF f, g
<1>6. SumFunction(g) = SumFunction(f) - f[u] + g[u]
  BY <1>2, <1>5, SumChange
<1>7. SumFunction(f) \in Int /\ f[u] \in Int
  BY <1>5, SumInt
<1>8. SumFunction(g) = SumFunction(f) + n
  BY <1>3, <1>6, <1>7
<1>9. SumFunction(f) = pool[p].total
  BY <1>4 DEF PoolSums, f
<1>10. SumFunction(NetStake(p))' = pool'[p].total
  BY <1>8, <1>9 DEF g
<1>11. \A v \in Users : stake'[p][v].coins <= IntMax /\ stake'[p][v].paid = 0
  BY DEF PoolSums, SameStake
<1> QED BY <1>4, <1>10, <1>11 DEF PoolSums

\* A payout pays exactly what was set.
LEMMA SumsPaid ==
  ASSUME FundingInv, FundingInv', NEW p \in Pools, NEW P \in Payouts, PayOut(p, P), PoolSums(p)
  PROVE  PoolSums(p)'
<1> DEFINE held == NetStake(p)
           plan == Shares(held, P, StakeRank)
           D == Live(held)
           T == pool[p].total
<1>1. /\ pool[p].status \in {"OPEN", "CLOSED"} /\ pool'[p].status = "PAID_OUT"
      /\ T \in Int /\ pool'[p].total = T /\ pool'[p].payout = P
      /\ \A v \in Users : /\ stake'[p][v].coins = stake[p][v].coins
                          /\ stake'[p][v].refunded = stake[p][v].refunded
                          /\ stake'[p][v].paid = IF v \in D THEN plan[v] ELSE stake[p][v].paid
  BY PaidOut
<1>2. /\ held \in [Users -> Nat] /\ P \in Nat /\ IsFiniteSet(Users)
      /\ NetStake(p)' = held /\ TotalStake(held) = T
  <2>1. NetStake(p)' = held
    BY <1>1 DEF NetStake
  <2>2. TotalStake(held) = T
    BY DEF PayOut
  <2> QED BY <2>1, <2>2, NetStakes, FundingConstants, LedgerConstants
<1>3. pool[p] # NoPool /\ pool'[p] # NoPool
  BY <1>1 DEF NoPool
<1>4. ASSUME T > 0 PROVE ExactShares(p)'
  <2>1. /\ plan \in [D -> Nat]
        /\ SumFunction(plan) = P
        /\ \A b \in D : plan[b] * T - held[b] * P < T /\ held[b] * P - plan[b] * T < T
    BY <1>2, <1>4, PlanIsExact
  <2>2. D \in SUBSET Users /\ IsFiniteSet(D) /\ \A v \in Users \ D : held[v] = 0
    BY <1>2, TotalOfStakes DEF Live
  <2> DEFINE paid == Paid(p)'
  <2> HIDE DEF plan, D, held, T
  <2>3. /\ paid = [v \in Users |-> stake'[p][v].paid]
        /\ \A v \in D : paid[v] = plan[v]
        /\ \A v \in Users \ D : paid[v] = 0
    BY <1>1, <2>2 DEF Paid, PoolSums
  <2> HIDE DEF paid
  <2>4. paid \in [Users -> Int]
    <3>1. ASSUME NEW v \in Users PROVE paid[v] \in Int
      <4>1. CASE v \in D
        <5>1. plan \in [D -> Nat]
          BY <2>1
        <5>2. plan[v] \in Nat
          BY <4>1, <5>1
        <5> QED BY <2>3, <4>1, <5>2
      <4>2. CASE v \notin D
        BY <2>3, <4>2
      <4> QED BY <4>1, <4>2
    <3> QED BY <2>3, <3>1
  <2>5. SumFunctionOnSet(paid, D) = SumFunctionOnSet(paid, Users)
    BY <1>2, <2>2, <2>3, <2>4, SumSupport
  <2>6. SumFunctionOnSet(paid, D) = SumFunctionOnSet(plan, D)
    BY <2>2, <2>3, SumAgree
  <2>7. SumFunction(paid) = P
    BY <2>1, <2>4, <2>5, <2>6 DEF SumFunction
  <2>8. ASSUME NEW v \in Users
        PROVE  /\ stake'[p][v].paid * T - held[v] * P < T
               /\ held[v] * P - stake'[p][v].paid * T < T
    <3>1. CASE v \in D
      BY <2>1, <2>3, <3>1
    <3>2. CASE v \notin D
      <4>1. stake'[p][v].paid = 0 /\ held[v] = 0
        BY <2>2, <2>3, <3>2
      <4> QED BY <1>1, <1>2, <1>4, <4>1
    <3> QED BY <3>1, <3>2
  <2> QED BY <1>1, <1>2, <2>7, <2>8 DEF ExactShares, paid
<1>5. SumFunction(NetStake(p))' = pool'[p].total
  BY <1>1, <1>2, <1>3 DEF PoolSums
<1>6. \A v \in Users : stake'[p][v].coins <= IntMax
  BY <1>1 DEF PoolSums
<1> QED BY <1>1, <1>3, <1>4, <1>5, <1>6 DEF PoolSums

\* A cancelled pool holds nothing.
LEMMA SumsCancelled ==
  ASSUME FundingInv, NEW p \in Pools, CancelPool(p), PoolSums(p)
  PROVE  PoolSums(p)'
<1>1. /\ pool[p].status \in {"OPEN", "CLOSED"} /\ pool'[p].status = "CANCELLED"
      /\ pool'[p].total = 0
      /\ \A v \in Users : /\ stake'[p][v].coins = stake[p][v].coins
                          /\ stake'[p][v].refunded = stake[p][v].coins
                          /\ stake'[p][v].paid = stake[p][v].paid
                          /\ stake[p][v].coins \in Nat
  BY Cancelled DEF FundingInv, FundingTypeOK
<1> DEFINE g == NetStake(p)'
<1>2. \A v \in Users : g[v] = 0
  BY <1>1 DEF NetStake
<1>3. DOMAIN g = Users /\ IsFiniteSet(Users)
  BY LedgerConstants DEF NetStake
<1> HIDE DEF g
<1>4. SumFunctionOnSet(g, Users) = 0
  BY <1>2, <1>3, SumZero
<1>5. SumFunction(NetStake(p))' = 0
  BY <1>3, <1>4 DEF g, SumFunction
<1> QED BY <1>1, <1>5 DEF PoolSums

\* Every step of the pools keeps the sums of every pool.
LEMMA PoolSumsStep ==
  ASSUME FundingInv, FundingInv', FundingNext, NEW p \in Pools, PoolSums(p)
  PROVE  PoolSums(p)'
<1>0. \A q \in Pools : (\A v \in Users : SameStake(q, v)) => stake'[q] = stake[q]
  BY DEF FundingInv, FundingTypeOK, SameStake
<1>1. CASE PoolsIdle \/ \E q \in Pools : Opened(q)
  BY <1>1, SumsKept DEF PoolsIdle, Opened
<1>2. ASSUME NEW c \in FundCalls, CommitContribute(c) PROVE PoolSums(p)'
  <2> DEFINE u == fundCall[c].user
             q == fundCall[c].pool
             n == fundCall[c].coins
  <2>1. /\ u \in Users /\ q \in Pools /\ n \in Nat \ {0}
        /\ pool[q].status = "OPEN" /\ pool'[q].status = "OPEN"
        /\ pool[q].total \in Int /\ pool'[q].total = pool[q].total + n
        /\ \A r \in Pools : r # q => pool'[r] = pool[r]
        /\ \A r \in Pools, v \in Users : (r = q /\ v = u) \/ SameStake(r, v)
        /\ stake'[q][u].coins = stake[q][u].coins + n /\ stake'[q][u].coins <= IntMax
        /\ stake'[q][u].refunded = stake[q][u].refunded
        /\ stake'[q][u].paid = stake[q][u].paid
    BY <1>2, Contributed
  <2> HIDE DEF u, q, n
  <2>2. CASE p # q
    BY <1>0, <2>1, <2>2, SumsKept
  <2>3. CASE p = q
    <3>1. stake[q][u].coins \in Nat /\ stake[q][u].refunded \in Nat
      BY <2>1 DEF FundingInv, FundingTypeOK
    <3>2. stake'[q][u].coins - stake'[q][u].refunded = stake[q][u].coins - stake[q][u].refunded + n
      BY <2>1, <3>1
    <3> QED BY <2>1, <2>3, <3>2, SumsMove
  <2> QED BY <2>2, <2>3
<1>3. ASSUME NEW c \in FundCalls, CommitClaim(c) PROVE PoolSums(p)'
  <2> DEFINE u == fundCall[c].user
             q == fundCall[c].pool
             n == fundCall[c].coins
             was == fundCall[c].refunded
  <2>1. /\ u \in Users /\ q \in Pools /\ n \in Nat /\ was \in Nat
        /\ pool[q].status = "OPEN" /\ pool'[q].status = "OPEN"
        /\ pool[q].total \in Int /\ pool'[q].total = pool[q].total - (n - was)
        /\ \A r \in Pools : r # q => pool'[r] = pool[r]
        /\ \A r \in Pools, v \in Users : (r = q /\ v = u) \/ SameStake(r, v)
        /\ stake'[q][u].coins = stake[q][u].coins
        /\ stake[q][u].refunded = was /\ stake'[q][u].refunded = n
        /\ stake'[q][u].paid = stake[q][u].paid
    BY <1>3, Claimed
  <2> HIDE DEF u, q, n, was
  <2>2. CASE p # q
    BY <1>0, <2>1, <2>2, SumsKept
  <2>3. CASE p = q
    <3>1. stake[q][u].coins \in Nat /\ stake[q][u].coins <= IntMax
      BY <2>1, <2>3 DEF FundingInv, FundingTypeOK, PoolSums
    <3>2. /\ stake'[q][u].coins - stake'[q][u].refunded
               = stake[q][u].coins - stake[q][u].refunded + (was - n)
          /\ pool'[q].total = pool[q].total + (was - n)
          /\ was - n \in Int
      BY <2>1, <3>1
    <3> QED BY <2>1, <2>3, <3>1, <3>2, SumsMove
  <2> QED BY <2>2, <2>3
<1>4. ASSUME NEW q \in Pools, NEW P \in Payouts, PayOut(q, P) PROVE PoolSums(p)'
  <2>1. CASE p # q
    BY <1>0, <1>4, <2>1, PaidOut, SumsKept
  <2>2. CASE p = q
    BY <1>4, <2>2, SumsPaid
  <2> QED BY <2>1, <2>2
<1>5. ASSUME NEW q \in Pools, CancelPool(q) PROVE PoolSums(p)'
  <2>1. CASE p # q
    BY <1>0, <1>5, <2>1, Cancelled, SumsKept
  <2>2. CASE p = q
    BY <1>5, <2>2, SumsCancelled
  <2> QED BY <2>1, <2>2
<1> QED BY <1>1, <1>2, <1>3, <1>4, <1>5, FundingKinds

-----------------------------------------------------------------------------
(* Stakes are what the ledger moved.                                       *)

\* The keys of the entries between a backer and a pool.
PoolKeys(p, u) ==
  {FundKey(p, u, k) : k \in FundKeys} \cup {ClaimKey(p, u, n) : n \in 0..IntMax}
  \cup {<<"cancel", p, u>>, <<"payout", p, u>>}

\* They name the pool and the backer and belong to no other component.
LEMMA PoolKeysApart ==
  ASSUME NEW p, NEW u
  PROVE  \A k \in PoolKeys(p, u) : k[1] \in PoolTags /\ k[2] = p /\ k[3] = u
BY DEF PoolKeys, PoolTags, FundKey, ClaimKey

\* Contributions, claims, cancellations and payouts are written under them.
LEMMA PoolKeysHold ==
  ASSUME NEW p, NEW u
  PROVE  /\ \A k \in FundKeys : FundKey(p, u, k) \in PoolKeys(p, u)
         /\ \A n \in 0..IntMax : ClaimKey(p, u, n) \in PoolKeys(p, u)
         /\ <<"cancel", p, u>> \in PoolKeys(p, u)
         /\ <<"payout", p, u>> \in PoolKeys(p, u)
BY DEF PoolKeys

\* The entries of a backer and a pool are those under their keys.
LEMMA PoolEntriesUnder ==
  ASSUME NEW p, NEW u
  PROVE  PoolEntries(p, u) = Under(PoolKeys(p, u))
BY DEF PoolEntries, Under, PoolKeys

Journalled(p, u) ==
  Moved(Under(PoolKeys(p, u))) = stake[p][u].refunded + stake[p][u].paid - stake[p][u].coins

\* A stake that did not move, and whose keys were not written, is still journalled.
LEMMA JournalKept ==
  ASSUME NEW p, NEW u, Journalled(p, u), SameStake(p, u),
         Under(PoolKeys(p, u))' = Under(PoolKeys(p, u))
  PROVE  Journalled(p, u)'
<1>1. Moved(Under(PoolKeys(p, u)))' = Moved(Under(PoolKeys(p, u))')
  BY DEF Moved
<1> QED BY <1>1 DEF Journalled, SameStake

\* A stake that moved by what one write of the transaction moved, the only one under
\* its keys, is still journalled.
LEMMA JournalMoves ==
  ASSUME BaseInv, NEW p \in Pools, NEW u \in Users, Journalled(p, u),
         NEW writes, IsTransaction(writes), Post(writes), NEW w \in writes,
         w.key \in PoolKeys(p, u), \A v \in writes : v.key \in PoolKeys(p, u) => v = w,
         stake'[p][u] \in [coins : Nat, refunded : Nat, paid : Nat],
         stake'[p][u].refunded + stake'[p][u].paid - stake'[p][u].coins
           = stake[p][u].refunded + stake[p][u].paid - stake[p][u].coins + w.delta
  PROVE  Journalled(p, u)'
<1>1. LedgerTypeOK /\ IsFiniteSet(ledger)
  BY DEF BaseInv, CallInv, TypeInv, WalletTypeOK
<1>2. Moved(Under(PoolKeys(p, u)))' = Moved(Under(PoolKeys(p, u))) + w.delta
  BY <1>1, PostUnder
<1> QED BY <1>2 DEF Journalled

\* Every step of the pools journals every stake.
LEMMA JournalledStep ==
  ASSUME BaseInv, FundingInv', FundingNext,
         NEW p \in Pools, NEW u \in Users, PoolSums(p), Journalled(p, u)
  PROVE  Journalled(p, u)'
<1>0. /\ FundingInv /\ LedgerTypeOK /\ IsFiniteSet(ledger)
      /\ stake[p][u] \in [coins : Nat, refunded : Nat, paid : Nat]
      /\ stake'[p][u] \in [coins : Nat, refunded : Nat, paid : Nat]
  BY DEF BaseInv, CallInv, TypeInv, WalletTypeOK, FundingInv, FundingTypeOK
<1>1. CASE PoolsIdle \/ \E q \in Pools : Opened(q)
  <2>1. SameStake(p, u) /\ Under(PoolKeys(p, u))' = Under(PoolKeys(p, u))
    BY <1>1 DEF PoolsIdle, Opened, SameStake, ledgerVars, Under
  <2> QED BY <2>1, JournalKept
<1>2. ASSUME NEW c \in FundCalls, CommitContribute(c) PROVE Journalled(p, u)'
  <2> DEFINE f == fundCall[c]
             w == Write(f.user, "POOL_FUND", -f.coins, FundKey(f.pool, f.user, f.key))
  <2>1. Posts({w}, PoolTags) /\ w.delta = -f.coins
    BY <1>0, <1>2, ContributePosts DEF Write
  <2>2. w.key = FundKey(f.pool, f.user, f.key) /\ w.key[2] = f.pool /\ w.key[3] = f.user
    BY DEF Write, FundKey
  <2>3. /\ f.coins \in Nat /\ f.key \in FundKeys
        /\ (f.pool = p /\ f.user = u) \/ SameStake(p, u)
        /\ stake'[f.pool][f.user].coins = stake[f.pool][f.user].coins + f.coins
        /\ stake'[f.pool][f.user].refunded = stake[f.pool][f.user].refunded
        /\ stake'[f.pool][f.user].paid = stake[f.pool][f.user].paid
    BY <1>0, <1>2, Contributed
  <2> HIDE DEF f, w
  <2>4. CASE f.pool = p /\ f.user = u
    <3>1. /\ w.key \in PoolKeys(p, u) /\ w \in {w} /\ \A v \in {w} : v = w
          /\ IsTransaction({w}) /\ Post({w})
      BY <2>1, <2>2, <2>3, <2>4, PoolKeysHold DEF Posts
    <3>2. stake'[p][u].refunded + stake'[p][u].paid - stake'[p][u].coins
            = stake[p][u].refunded + stake[p][u].paid - stake[p][u].coins + w.delta
      BY <1>0, <2>1, <2>3, <2>4
    <3> QED BY <1>0, <3>1, <3>2, JournalMoves
  <2>5. CASE ~(f.pool = p /\ f.user = u)
    <3>1. w.key \notin PoolKeys(p, u)
      BY <2>2, <2>5, PoolKeysApart
    <3> QED BY <1>0, <2>1, <2>3, <2>5, <3>1, OneUnder, JournalKept
  <2> QED BY <2>4, <2>5
<1>3. ASSUME NEW c \in FundCalls, CommitClaim(c) PROVE Journalled(p, u)'
  <2> DEFINE f == fundCall[c]
             w == Write(f.user, "POOL_REFUND", f.coins - f.refunded,
                        ClaimKey(f.pool, f.user, f.refunded))
  <2>1. Posts({w}, PoolTags) /\ w.delta = f.coins - f.refunded
    BY <1>0, <1>3, ClaimPosts DEF Write
  <2>2. w.key = ClaimKey(f.pool, f.user, f.refunded) /\ w.key[2] = f.pool /\ w.key[3] = f.user
    BY DEF Write, ClaimKey
  <2>3. /\ f.coins \in Nat /\ f.refunded \in Nat /\ f.refunded < f.coins
        /\ f.coins <= stake[f.pool][f.user].coins
        /\ (f.pool = p /\ f.user = u) \/ SameStake(p, u)
        /\ stake'[f.pool][f.user].coins = stake[f.pool][f.user].coins
        /\ stake[f.pool][f.user].refunded = f.refunded
        /\ stake'[f.pool][f.user].refunded = f.coins
        /\ stake'[f.pool][f.user].paid = stake[f.pool][f.user].paid
    BY <1>0, <1>3, Claimed
  <2> HIDE DEF f, w
  <2>4. CASE f.pool = p /\ f.user = u
    <3>1. f.refunded \in 0..IntMax
      BY <1>0, <2>3, <2>4, LedgerConstants DEF PoolSums
    <3>2. /\ w.key \in PoolKeys(p, u) /\ w \in {w} /\ \A v \in {w} : v = w
          /\ IsTransaction({w}) /\ Post({w})
      BY <2>1, <2>2, <2>4, <3>1, PoolKeysHold DEF Posts
    <3>3. stake'[p][u].refunded + stake'[p][u].paid - stake'[p][u].coins
            = stake[p][u].refunded + stake[p][u].paid - stake[p][u].coins + w.delta
      BY <1>0, <2>1, <2>3, <2>4
    <3> QED BY <1>0, <3>2, <3>3, JournalMoves
  <2>5. CASE ~(f.pool = p /\ f.user = u)
    <3>1. w.key \notin PoolKeys(p, u)
      BY <2>2, <2>5, PoolKeysApart
    <3> QED BY <1>0, <2>1, <2>3, <2>5, <3>1, OneUnder, JournalKept
  <2> QED BY <2>4, <2>5
<1>4. ASSUME NEW q \in Pools, NEW P \in Payouts, PayOut(q, P) PROVE Journalled(p, u)'
  <2> DEFINE plan == Shares(NetStake(q), P, StakeRank)
             D == Live(NetStake(q))
             S == {v \in DOMAIN plan : plan[v] > 0}
             w(v) == Write(v, "POOL_PAYOUT", plan[v], <<"payout", q, v>>)
             W == {w(v) : v \in S}
  <2>1. IsTransaction(W) /\ Post(W)
    BY <1>0, <1>4, PayOutPosts DEF Posts
  <2>2. DOMAIN plan = D /\ plan \in [D -> Nat] /\ D \subseteq Users
    BY <1>0, PlanType
  <2>3. /\ pool[q].status \in {"OPEN", "CLOSED"}
        /\ q # p => SameStake(p, u)
        /\ \A v \in Users :
             /\ stake'[q][v].coins = stake[q][v].coins
             /\ stake'[q][v].refunded = stake[q][v].refunded
             /\ stake'[q][v].paid = IF v \in D THEN plan[v] ELSE stake[q][v].paid
    BY <1>0, <1>4, PaidOut
  <2>4. \A x \in W : \E v \in S : x = w(v)
    OBVIOUS
  <2>5. \A v \in S : /\ w(v) \in W /\ w(v).key = <<"payout", q, v>> /\ w(v).delta = plan[v]
                     /\ w(v).key[2] = q /\ w(v).key[3] = v
    BY DEF Write
  <2>s. \A v : v \in S <=> v \in D /\ plan[v] > 0
    BY <2>2
  <2> HIDE DEF plan, D, S, w, W
  <2>6. CASE q = p /\ u \in S
    <3>1. w(u) \in W /\ w(u).key \in PoolKeys(p, u)
      BY <2>5, <2>6, PoolKeysHold
    <3>2. \A x \in W : x.key \in PoolKeys(p, u) => x = w(u)
      BY <2>4, <2>5, PoolKeysApart
    <3>3. stake'[p][u].refunded + stake'[p][u].paid - stake'[p][u].coins
            = stake[p][u].refunded + stake[p][u].paid - stake[p][u].coins + w(u).delta
      <4>1. stake[p][u].paid = 0
        BY <2>3, <2>6 DEF PoolSums
      <4>2. u \in D /\ w(u).delta = plan[u] /\ plan[u] \in Nat
        BY <2>2, <2>5, <2>6, <2>s
      <4> QED BY <1>0, <2>3, <2>6, <4>1, <4>2
    <3> QED BY <1>0, <2>1, <3>1, <3>2, <3>3, JournalMoves
  <2>7. CASE ~(q = p /\ u \in S)
    <3>1. \A x \in W : x.key \notin PoolKeys(p, u)
      BY <2>4, <2>5, <2>7, PoolKeysApart
    <3>2. SameStake(p, u)
      <4>1. CASE q # p
        BY <2>3, <4>1
      <4>2. CASE q = p
        <5>1. stake'[p][u].paid = stake[p][u].paid
          <6>1. stake[p][u].paid = 0
            BY <2>3, <4>2 DEF PoolSums
          <6>2. u \in D => plan[u] = 0
            BY <2>2, <2>7, <2>s, <4>2
          <6> QED BY <2>3, <4>2, <6>1, <6>2
        <5> QED BY <1>0, <2>3, <4>2, <5>1 DEF SameStake
      <4> QED BY <4>1, <4>2
    <3>3. Under(PoolKeys(p, u))' = Under(PoolKeys(p, u))
      BY <1>0, <2>1, <3>1, PostUnder
    <3> QED BY <3>2, <3>3, JournalKept
  <2> QED BY <2>6, <2>7
<1>5. ASSUME NEW q \in Pools, CancelPool(q) PROVE Journalled(p, u)'
  <2> DEFINE net == NetStake(q)
             S == Live(net)
             w(v) == Write(v, "POOL_REFUND", net[v], <<"cancel", q, v>>)
             W == {w(v) : v \in S}
  <2>1. IsTransaction(W) /\ Post(W)
    BY <1>0, <1>5, CancelPosts DEF Posts
  <2>2. \A v \in Users : /\ net[v] \in Nat /\ net[v] = stake[q][v].coins - stake[q][v].refunded
                         /\ v \in S <=> net[v] > 0
    BY <1>0, NetStakes DEF Live
  <2>3. /\ q # p => SameStake(p, u)
        /\ \A v \in Users : /\ stake'[q][v].coins = stake[q][v].coins
                            /\ stake'[q][v].refunded = stake[q][v].coins
                            /\ stake'[q][v].paid = stake[q][v].paid
    BY <1>0, <1>5, Cancelled
  <2>4. \A x \in W : \E v \in S : x = w(v)
    OBVIOUS
  <2>5. \A v \in S : /\ w(v) \in W /\ w(v).key = <<"cancel", q, v>> /\ w(v).delta = net[v]
                     /\ w(v).key[2] = q /\ w(v).key[3] = v
    BY DEF Write
  <2> HIDE DEF net, S, w, W
  <2>6. CASE q = p /\ u \in S
    <3>1. w(u) \in W /\ w(u).key \in PoolKeys(p, u)
      BY <2>5, <2>6, PoolKeysHold
    <3>2. \A x \in W : x.key \in PoolKeys(p, u) => x = w(u)
      BY <2>4, <2>5, PoolKeysApart
    <3>3. stake'[p][u].refunded + stake'[p][u].paid - stake'[p][u].coins
            = stake[p][u].refunded + stake[p][u].paid - stake[p][u].coins + w(u).delta
      <4>1. w(u).delta = stake[p][u].coins - stake[p][u].refunded
        BY <2>2, <2>5, <2>6
      <4> QED BY <1>0, <2>3, <2>6, <4>1
    <3> QED BY <1>0, <2>1, <3>1, <3>2, <3>3, JournalMoves
  <2>7. CASE ~(q = p /\ u \in S)
    <3>1. \A x \in W : x.key \notin PoolKeys(p, u)
      BY <2>4, <2>5, <2>7, PoolKeysApart
    <3>2. SameStake(p, u)
      <4>1. CASE q # p
        BY <2>3, <4>1
      <4>2. CASE q = p
        <5>1. stake'[p][u].refunded = stake[p][u].refunded
          BY <1>0, <2>2, <2>3, <2>7, <4>2
        <5> QED BY <1>0, <2>3, <4>2, <5>1 DEF SameStake
      <4> QED BY <4>1, <4>2
    <3>3. Under(PoolKeys(p, u))' = Under(PoolKeys(p, u))
      BY <1>0, <2>1, <3>1, PostUnder
    <3> QED BY <3>2, <3>3, JournalKept
  <2> QED BY <2>6, <2>7
<1> QED BY <1>0, <1>1, <1>2, <1>3, <1>4, <1>5, FundingKinds

PoolsInv ==
  /\ BaseInv
  /\ \A p \in Pools : PoolSums(p) /\ \A u \in Users : Journalled(p, u)

\* Every step of the economy keeps pools and stakes in step with the ledger.
LEMMA PoolsInvStep ==
  ASSUME PoolsInv, [Next]_vars
  PROVE  PoolsInv'
<1>0. BaseInv /\ BaseInv' /\ FundingInv /\ FundingInv' /\ LedgerTypeOK /\ IsFiniteSet(ledger)
  BY BaseInvStep DEF PoolsInv, BaseInv, CallInv, TypeInv, WalletTypeOK
<1>1. CASE FundingNext
  <2>1. \A p \in Pools : PoolSums(p)'
    BY <1>0, <1>1, PoolSumsStep DEF PoolsInv
  <2>2. \A p \in Pools, u \in Users : Journalled(p, u)'
    BY <1>0, <1>1, JournalledStep DEF PoolsInv
  <2> QED BY <1>0, <2>1, <2>2 DEF PoolsInv
<1>2. CASE (WalletNext \/ AppleNext \/ PlayNext \/ UNCHANGED vars) /\ UNCHANGED fundingVars
  <2>1. \A p \in Pools : PoolSums(p)'
    BY <1>0, <1>2, SumsKept DEF fundingVars, PoolsInv
  <2>2. ASSUME NEW p \in Pools, NEW u \in Users PROVE Journalled(p, u)'
    <3>1. PICK tags : /\ \A k \in PoolKeys(p, u) : k[1] \notin tags
                      /\ UNCHANGED ledgerVars \/ \E writes : Posts(writes, tags)
      <4>1. PoolTags \cap WalletTags = {} /\ PoolTags \cap PlayTags = {}
            /\ PoolTags \cap AppleTags = {}
        BY DEF AppleTags, WalletTags, PlayTags, PoolTags
      <4>2. \A k \in PoolKeys(p, u) : k[1] \in PoolTags
        BY PoolKeysApart
      <4> QED BY <1>0, <1>2, <4>1, <4>2, WalletPosts, OthersPost DEF vars
    <3>2. Under(PoolKeys(p, u))' = Under(PoolKeys(p, u))
      BY <1>0, <3>1, TagsApart
    <3>3. Journalled(p, u) /\ SameStake(p, u)
      BY <1>2 DEF PoolsInv, fundingVars, SameStake
    <3> QED BY <3>2, <3>3, JournalKept
  <2> QED BY <1>0, <2>1, <2>2 DEF PoolsInv
<1> QED BY <1>1, <1>2 DEF Next, vars

\* Nothing is staked at first.
LEMMA PoolsInvInit == Init => PoolsInv
<1> SUFFICES ASSUME Init PROVE PoolsInv
  OBVIOUS
<1>1. BaseInv
  BY BaseInvInit
<1>2. ASSUME NEW p \in Pools PROVE PoolSums(p)
  <2>1. /\ pool[p] = NoPool
        /\ \A u \in Users : stake[p][u].coins = 0 /\ stake[p][u].refunded = 0
                            /\ stake[p][u].paid = 0
    BY DEF Init, FundingInit, NoStake
  <2> DEFINE f == NetStake(p)
  <2>2. \A u \in Users : f[u] = 0
    BY <2>1 DEF NetStake
  <2>3. DOMAIN f = Users /\ IsFiniteSet(Users)
    BY LedgerConstants DEF NetStake
  <2> HIDE DEF f
  <2>4. SumFunction(f) = 0
    BY <2>2, <2>3, SumZero DEF SumFunction
  <2> QED BY <2>1, <2>4, LedgerConstants DEF f, PoolSums, NoPool
<1>3. ASSUME NEW p \in Pools, NEW u \in Users PROVE Journalled(p, u)
  <2>1. Under(PoolKeys(p, u)) = {}
    BY DEF Init, LedgerInit, Under
  <2>2. stake[p][u].coins = 0 /\ stake[p][u].refunded = 0 /\ stake[p][u].paid = 0
    BY DEF Init, FundingInit, NoStake
  <2> QED BY <2>1, <2>2, MovedNone DEF Journalled
<1> QED BY <1>1, <1>2, <1>3 DEF PoolsInv

\* Whatever contributions, claims on stale stakes, payouts and cancellations interleave:
\* a pool holds what its stakes add up to, each stake is what the ledger moved between its
\* backer and the pool, and a payout over a pool that holds coins credits exactly what was
\* set, each share within one coin (contribute, claimRefund, payout, cancel, planPayout).
THEOREM PoolsStayExact == Spec => []PoolsAreExact
<1>1. PoolsInv /\ [Next]_vars => PoolsInv'
  BY PoolsInvStep
<1>2. PoolsInv => PoolsAreExact
  <2> SUFFICES ASSUME PoolsInv PROVE PoolsAreExact
    OBVIOUS
  <2>1. PoolCountsItsStakes
    BY DEF PoolsInv, PoolSums, BaseInv, FundingInv, StakesInv, PoolCountsItsStakes
  <2>2. StakesAreJournalled
    BY PoolEntriesUnder DEF PoolsInv, Journalled, StakesAreJournalled
  <2>3. PayoutIsExact
    BY DEF PoolsInv, PoolSums, ExactShares, Paid, PayoutIsExact
  <2> QED BY <2>1, <2>2, <2>3 DEF PoolsAreExact
<1> QED BY <1>1, <1>2, PoolsInvInit, PTL DEF Spec

-----------------------------------------------------------------------------
(* No coin is minted or lost.                                              *)

Wealth == SumFunction(Worth)

\* A wallet moves by the delta of its own write.
LEMMA NetMoves ==
  ASSUME LedgerTypeOK, NEW writes, IsTransaction(writes), Post(writes), NEW u \in Users
  PROVE  /\ Net(wallet[u]) \in Int
         /\ (\A w \in writes : w.user # u) => Net(wallet'[u]) = Net(wallet[u])
         /\ \A w \in writes : w.user = u => Net(wallet'[u]) = Net(wallet[u]) + w.delta
<1>1. wallet[u] \in Row
  BY DEF LedgerTypeOK
<1>2. ASSUME NEW w \in writes, w.user = u PROVE Net(wallet'[u]) = Net(wallet[u]) + w.delta
  <2>1. IsWrite(w) /\ wallet'[u] = Applied(wallet[u], w)
    BY <1>2, PostWallet DEF IsTransaction
  <2> QED BY <1>1, <2>1, AppliedNet
<1>3. (\A w \in writes : w.user # u) => Net(wallet'[u]) = Net(wallet[u])
  BY PostWallet
<1>4. Net(wallet[u]) \in Int
  BY <1>1 DEF Row, Net
<1> QED BY <1>2, <1>3, <1>4

\* A transaction moves the coins in all wallets by what it moves in each.
LEMMA WealthMoves ==
  ASSUME LedgerTypeOK, NEW writes, IsTransaction(writes), Post(writes),
         NEW d \in [Users -> Int],
         \A u \in Users : (\A w \in writes : w.user # u) => d[u] = 0,
         \A w \in writes : d[w.user] = w.delta
  PROVE  Wealth \in Int /\ Wealth' = Wealth + SumFunction(d)
<1> DEFINE f == Worth
           g == Worth'
<1>1. \A u \in Users : /\ f[u] = Net(wallet[u]) /\ g[u] = Net(wallet'[u])
                       /\ Net(wallet[u]) \in Int
  BY NetMoves DEF Worth
<1>2. \A u \in Users : g[u] = f[u] + d[u]
  <2> SUFFICES ASSUME NEW u \in Users PROVE g[u] = f[u] + d[u]
    OBVIOUS
  <2>1. CASE \A w \in writes : w.user # u
    BY <1>1, <2>1, NetMoves
  <2>2. ASSUME NEW w \in writes, w.user = u PROVE g[u] = f[u] + d[u]
    BY <1>1, <2>2, NetMoves
  <2> QED BY <2>1, <2>2
<1>3. f \in [Users -> Int] /\ IsFiniteSet(Users)
  BY <1>1, LedgerConstants DEF Worth
<1>4. g = [u \in Users |-> f[u] + d[u]]
  BY <1>2 DEF Worth
<1> HIDE DEF f, g
<1>5. SumFunction(g) = SumFunction(f) + SumFunction(d) /\ SumFunction(f) \in Int
  BY <1>3, <1>4, SumPlus, SumInt
<1> QED BY <1>5 DEF Wealth, f, g

\* One write moves its delta.
LEMMA WealthOne ==
  ASSUME LedgerTypeOK, NEW w, NEW tags, Posts({w}, tags)
  PROVE  Wealth \in Int /\ Wealth' = Wealth + w.delta
<1> DEFINE d == [u \in Users |-> IF u = w.user THEN w.delta ELSE 0]
<1>1. IsTransaction({w}) /\ Post({w})
  BY DEF Posts
<1>2. w.user \in Users /\ w.delta \in Int
  BY <1>1 DEF IsTransaction, IsWrite
<1>3. SumFunction(d) = w.delta
  BY <1>2, LedgerConstants, SumAtOne
<1>4. /\ d \in [Users -> Int]
      /\ \A u \in Users : (\A x \in {w} : x.user # u) => d[u] = 0
      /\ \A x \in {w} : d[x.user] = x.delta
  BY <1>2
<1> HIDE DEF d
<1> QED BY <1>1, <1>3, <1>4, WealthMoves

\* Transfers move coins from one wallet to another.
LEMMA WealthSent ==
  ASSUME TypeInv, NEW c \in Calls, CommitTransfer(c)
  PROVE  Wealth' = Wealth
<1> DEFINE t   == call[c]
           out == Write(t.sender, "TRANSFER_OUT", -t.coins, OutKey(t.sender, t.key))
           in  == Write(t.recipient, "TRANSFER_IN", t.coins, InKey(t.sender, t.key))
           a == [u \in Users |-> IF u = t.sender THEN -t.coins ELSE 0]
           b == [u \in Users |-> IF u = t.recipient THEN t.coins ELSE 0]
           d == [u \in Users |-> a[u] + b[u]]
<1>1. /\ t \in TransferCall /\ t.sender # t.recipient
      /\ IsTransaction({out, in}) /\ Post({out, in})
  BY TransferEntries
<1>2. t.sender \in Users /\ t.recipient \in Users /\ t.coins \in Nat \ {0}
  BY <1>1, WalletConstants DEF TransferCall
<1>3. /\ out.user = t.sender /\ out.delta = -t.coins
      /\ in.user = t.recipient /\ in.delta = t.coins
  BY DEF Write
<1> HIDE DEF t, out, in
<1>4. SumFunction(a) = -t.coins /\ SumFunction(b) = t.coins
  BY <1>2, LedgerConstants, SumAtOne
<1>5. a \in [Users -> Int] /\ b \in [Users -> Int] /\ d \in [Users -> Int]
  BY <1>2
<1>6. SumFunction(d) = SumFunction(a) + SumFunction(b)
  BY <1>5, LedgerConstants, SumPlus
<1>7. SumFunction(d) = 0
  BY <1>2, <1>4, <1>6
<1>8. /\ d[t.sender] = -t.coins /\ d[t.recipient] = t.coins
      /\ \A u \in Users : u # t.sender /\ u # t.recipient => d[u] = 0
  BY <1>1, <1>2
<1> HIDE DEF a, b, d
<1>9. /\ \A u \in Users : (\A w \in {out, in} : w.user # u) => d[u] = 0
      /\ \A w \in {out, in} : d[w.user] = w.delta
  BY <1>3, <1>8
<1>10. Wealth \in Int /\ Wealth' = Wealth + SumFunction(d)
  BY <1>1, <1>5, <1>9, WealthMoves DEF TypeInv, WalletTypeOK
<1> QED BY <1>7, <1>10

\* All wallets together hold a number of coins.
LEMMA WealthInt ==
  ASSUME LedgerTypeOK
  PROVE  Wealth \in Int
<1>1. Worth \in [Users -> Int]
  BY DEF LedgerTypeOK, Worth, Net, Row
<1> QED BY <1>1, SumInt, LedgerConstants DEF Wealth

FromGateway == SumFunction([r \in PaidTopups |-> topup[r].coins])
FromApple   == SumFunction([t \in PaidPurchases |-> PackCoins[t]])
FromPlay    == SumFunction([t \in playTopup |-> TokenCoins[t]])

\* The top-ups of the gateway are as many coins as they put into wallets.
LEMMA GatewayConserves ==
  ASSUME BaseInv, WalletNext, IsFiniteSet(PaidTopups)
  PROVE  /\ IsFiniteSet(PaidTopups')
         /\ Wealth \in Int /\ FromGateway \in Int
         /\ Wealth' = Wealth + (FromGateway' - FromGateway) /\ Wealth' \in Int /\ FromGateway' \in Int
<1>0. CallInv /\ TypeInv /\ WalletTypeOK /\ LedgerTypeOK
  BY DEF BaseInv, CallInv, TypeInv, WalletTypeOK
<1> DEFINE f == [r \in PaidTopups |-> topup[r].coins]
<1>1. f \in [PaidTopups -> Int]
  <2>1. ASSUME NEW r \in PaidTopups PROVE topup[r].coins \in Int
    <3>1. topup[r] \in Topup
      BY <1>0, TopupFields DEF PaidTopups
    <3>2. topup[r].coins \in Nat \ {0}
      BY <3>1, WalletConstants DEF Topup
    <3> QED BY <3>2
  <2> QED BY <2>1
<1>2. SumFunction(f) \in Int
  BY <1>1, SumInt
<1>3. Wealth \in Int
  BY <1>0, WealthInt
<1> DEFINE Goal == /\ IsFiniteSet(PaidTopups')
                   /\ Wealth' = Wealth + (FromGateway' - FromGateway)
                   /\ Wealth' \in Int /\ FromGateway' \in Int
<1>4. ASSUME Quiet PROVE Goal
  <2>1. PaidTopups' = PaidTopups /\ \A r \in PaidTopups : topup'[r] = topup[r]
    BY <1>4 DEF Quiet, PaidTopups
  <2>2. FromGateway' = FromGateway /\ Wealth' = Wealth
    BY <1>4, <2>1 DEF FromGateway, Wealth, Worth, Quiet, ledgerVars
  <2>3. FromGateway \in Int
    BY <1>2 DEF FromGateway
  <2> QED BY <1>3, <2>1, <2>2, <2>3
<1>5. ASSUME NEW r \in TopupRefs, Credits(r) PROVE Goal
  <2> DEFINE w == Write(topup[r].user, "TOPUP", topup[r].coins, <<"topup", r>>)
             g == [q \in PaidTopups \cup {r} |-> topup[q].coins]
  <2>1. IsTransaction({w}) /\ Post({w}) /\ w.delta = topup[r].coins
    BY <1>0, <1>5, TopupEntries DEF Write
  <2>2. /\ topup[r].coins \in Int /\ r \notin PaidTopups /\ PaidTopups' = PaidTopups \cup {r}
        /\ \A q \in PaidTopups \cup {r} : topup'[q].coins = topup[q].coins
    BY <1>0, <1>5, WalletConstants DEF Credits, PaidTopups, Topup, WalletTypeOK
  <2>3. g \in [PaidTopups \cup {r} -> Int] /\ g[r] = topup[r].coins
        /\ \A q \in PaidTopups : g[q] = f[q]
    BY <1>1, <2>2
  <2>4. FromGateway' = SumFunction(g)
    BY <2>2 DEF FromGateway
  <2> HIDE DEF f, g, w
  <2>5. SumFunction(g) = SumFunction(f) + topup[r].coins
    <3>1. r \notin PaidTopups
      BY <2>2
    <3>2. f \in [PaidTopups -> Int] /\ g \in [PaidTopups \cup {r} -> Int]
      BY <1>1, <2>3
    <3>3. \A q \in PaidTopups : g[q] = f[q]
      BY <2>3
    <3>4. SumFunction(g) = SumFunction(f) + g[r]
      BY <3>1, <3>2, <3>3, SumAdd
    <3> QED BY <2>3, <3>4
  <2>6. IsFiniteSet({w})
    BY FS_Singleton
  <2>7. Posts({w}, {w.key[1]})
    BY <2>1, <2>6 DEF Posts
  <2>8. Wealth' = Wealth + topup[r].coins
    BY <1>0, <2>1, <2>7, WealthOne
  <2>9. IsFiniteSet(PaidTopups')
    BY <2>2, FS_AddElement
  <2>10. FromGateway = SumFunction(f)
    BY DEF FromGateway, f
  <2> QED BY <1>2, <1>3, <2>2, <2>4, <2>5, <2>8, <2>9, <2>10
<1>6. ASSUME NEW c \in Calls, CommitTransfer(c) PROVE Goal
  <2>1. UNCHANGED topup
    BY <1>6 DEF CommitTransfer
  <2>2. FromGateway' = FromGateway /\ PaidTopups' = PaidTopups /\ Wealth' = Wealth
    BY <1>0, <1>6, <2>1, WealthSent DEF FromGateway, PaidTopups
  <2>3. FromGateway \in Int
    BY <1>2 DEF FromGateway
  <2> QED BY <1>3, <2>2, <2>3
<1> HIDE DEF Goal
<1>7. Goal
  BY <1>0, <1>4, <1>5, <1>6, StepKinds
<1>8. FromGateway \in Int
  BY <1>2 DEF FromGateway
<1> QED BY <1>3, <1>7, <1>8 DEF Goal

\* Apple purchases are as many coins as they put into wallets, less those refunded.
LEMMA AppleConserves ==
  ASSUME BaseInv, AppleNext, IsFiniteSet(PaidPurchases)
  PROVE  /\ IsFiniteSet(PaidPurchases')
         /\ Wealth \in Int /\ FromApple \in Int
         /\ Wealth' = Wealth + (FromApple' - FromApple) /\ Wealth' \in Int /\ FromApple' \in Int
<1>0. LedgerTypeOK /\ AppleTypeOK
  BY DEF BaseInv, CallInv, TypeInv, WalletTypeOK
<1> DEFINE f == [t \in PaidPurchases |-> PackCoins[t]]
           Goal == /\ IsFiniteSet(PaidPurchases')
                   /\ Wealth' = Wealth + (FromApple' - FromApple)
                   /\ Wealth' \in Int /\ FromApple' \in Int
<1>1. f \in [PaidPurchases -> Int] /\ Wealth \in Int
  BY <1>0, AppleConstants, WealthInt DEF PaidPurchases
<1>2. FromApple = SumFunction(f) /\ SumFunction(f) \in Int
  BY <1>1, SumInt DEF FromApple
<1>3. ASSUME PaidPurchases' = PaidPurchases, UNCHANGED ledgerVars PROVE Goal
  <2>1. FromApple' = FromApple /\ Wealth' = Wealth
    BY <1>3 DEF FromApple, Wealth, Worth, ledgerVars
  <2> QED BY <1>1, <1>2, <1>3, <2>1
<1>4. ASSUME NEW t \in AppleTxns, t \notin PaidPurchases, PaidPurchases' = PaidPurchases \cup {t},
             NEW w, Posts({w}, AppleTags), w.delta = PackCoins[t]
      PROVE  Goal
  <2> DEFINE g == [q \in PaidPurchases \cup {t} |-> PackCoins[q]]
  <2>0. PackCoins[t] \in Nat \ {0}
    BY AppleConstants
  <2>1. /\ g \in [PaidPurchases \cup {t} -> Int]
        /\ g[t] = PackCoins[t]
        /\ \A q \in PaidPurchases : g[q] = f[q]
    BY <1>1, <2>0
  <2>2. FromApple' = SumFunction(g)
    BY <1>4 DEF FromApple
  <2> HIDE DEF f, g
  <2>3. g \in [PaidPurchases \cup {t} -> Int] /\ \A q \in PaidPurchases : g[q] = f[q]
    BY <2>1
  <2>4. SumFunction(g) = SumFunction(f) + g[t]
    BY <1>1, <1>4, <2>3, SumAdd
  <2>5. Wealth' = Wealth + w.delta
    BY <1>0, <1>4, WealthOne
  <2>6. IsFiniteSet(PaidPurchases')
    BY <1>4, FS_AddElement
  <2>7. g[t] = PackCoins[t]
    BY <2>1
  <2> QED BY <1>1, <1>2, <1>4, <2>0, <2>2, <2>4, <2>5, <2>6, <2>7
<1>5. ASSUME NEW t \in PaidPurchases, PaidPurchases' = PaidPurchases \ {t},
             NEW w, Posts({w}, AppleTags), w.delta = -PackCoins[t]
      PROVE  Goal
  <2> DEFINE g == [q \in PaidPurchases \ {t} |-> PackCoins[q]]
  <2>0. PackCoins[t] \in Nat \ {0}
    BY AppleConstants DEF PaidPurchases
  <2>1. /\ g \in [PaidPurchases \ {t} -> Int] /\ f[t] = PackCoins[t]
        /\ \A q \in PaidPurchases \ {t} : g[q] = f[q]
    BY <1>1
  <2>2. FromApple' = SumFunction(g)
    BY <1>5 DEF FromApple
  <2>6. IsFiniteSet(PaidPurchases')
    BY <1>5, FS_RemoveElement
  <2> HIDE DEF f, g
  <2>4. SumFunction(f) = SumFunction(g) + f[t]
    BY <1>1, <2>1, SumRemove
  <2>5. Wealth' = Wealth + w.delta
    BY <1>0, <1>5, WealthOne
  <2>7. SumFunction(g) \in Int
    BY <1>5, <2>1, <2>6, SumInt
  <2> QED BY <1>1, <1>2, <1>5, <2>0, <2>1, <2>2, <2>4, <2>5, <2>6, <2>7
<1> HIDE DEF Goal
<1>6. ASSUME NEW t \in AppleTxns, ConfirmApple(t) PROVE Goal
  <2> DEFINE w == Write(Owner[t], "TOPUP", PackCoins[t], <<"apple_coin", t>>)
  <2>1. Posts({w}, AppleTags) /\ w.delta = PackCoins[t]
    BY <1>6, ConfirmPosts DEF Write
  <2>2. t \notin PaidPurchases /\ PaidPurchases' = PaidPurchases \cup {t}
    BY <1>0, <1>6 DEF ConfirmApple, PaidPurchases, AppleTypeOK
  <2> HIDE DEF w
  <2> QED BY <1>4, <2>1, <2>2
<1>7. ASSUME NEW n \in Notices, ReceiveStale(n) PROVE Goal
  BY <1>3, <1>7 DEF ReceiveStale, PaidPurchases
<1>8. ASSUME NEW n \in Notices, ReceiveNewer(n) PROVE Goal
  <2> DEFINE t == n.txn
  <2>1. /\ t \in AppleTxns
        /\ \A q \in AppleTxns : q # t => appleTopup'[q] = appleTopup[q]
        /\ appleTopup'[t] = IF appleTopup[t] = "NONE" THEN "NONE"
                            ELSE IF Refunds(n) THEN "REFUNDED" ELSE "PAID"
        /\ appleTopup[t] \in {"NONE", "PAID", "REFUNDED"}
    BY <1>0, <1>8, AppleConstants DEF ReceiveNewer, AppleTypeOK
  <2> HIDE DEF t
  <2>2. CASE ~Takes(n) /\ ~Returns(n)
    <3>1. PaidPurchases' = PaidPurchases
      BY <2>1, <2>2 DEF Takes, Returns, PaidPurchases, t
    <3> QED BY <1>0, <1>3, <1>8, <2>2, <3>1, ReceivePosts
  <2>3. CASE Takes(n)
    <3> DEFINE w == Write(Owner[t], "APPLE_REFUND", -PackCoins[t], <<"apple_refund", n>>)
    <3>1. Posts({w}, AppleTags) /\ w.delta = -PackCoins[t]
      BY <1>0, <1>8, <2>3, ReceivePosts DEF Write, t
    <3>2. t \in PaidPurchases /\ PaidPurchases' = PaidPurchases \ {t}
      BY <2>1, <2>3 DEF Takes, PaidPurchases, t
    <3> HIDE DEF w
    <3> QED BY <1>5, <3>1, <3>2
  <2>4. CASE Returns(n)
    <3> DEFINE w == Write(Owner[t], "APPLE_REFUND_REVERSAL", PackCoins[t],
                          <<"apple_refund_reversal", n>>)
    <3>1. Posts({w}, AppleTags) /\ w.delta = PackCoins[t]
      BY <1>0, <1>8, <2>4, ReceivePosts DEF Write, t
    <3>2. t \notin PaidPurchases /\ PaidPurchases' = PaidPurchases \cup {t}
      BY <2>1, <2>4 DEF Returns, PaidPurchases, t
    <3> HIDE DEF w
    <3> QED BY <1>4, <2>1, <3>1, <3>2
  <2> QED BY <2>2, <2>3, <2>4
<1>9. Goal
  BY <1>6, <1>7, <1>8 DEF AppleNext
<1> QED BY <1>1, <1>2, <1>9 DEF Goal

\* Play purchases are as many coins as they put into wallets.
LEMMA PlayConserves ==
  ASSUME BaseInv, PlayNext, IsFiniteSet(playTopup)
  PROVE  /\ IsFiniteSet(playTopup')
         /\ Wealth \in Int /\ FromPlay \in Int
         /\ Wealth' = Wealth + (FromPlay' - FromPlay) /\ Wealth' \in Int /\ FromPlay' \in Int
<1>0. LedgerTypeOK /\ PlayTypeOK
  BY DEF BaseInv, CallInv, TypeInv, WalletTypeOK
<1> DEFINE f == [t \in playTopup |-> TokenCoins[t]]
           Goal == /\ IsFiniteSet(playTopup')
                   /\ Wealth' = Wealth + (FromPlay' - FromPlay)
                   /\ Wealth' \in Int /\ FromPlay' \in Int
<1>1. f \in [playTopup -> Int] /\ Wealth \in Int
  BY <1>0, PlayConstants, WealthInt DEF PlayTypeOK
<1>2. FromPlay = SumFunction(f) /\ SumFunction(f) \in Int
  BY <1>1, SumInt DEF FromPlay
<1>3. ASSUME UNCHANGED <<ledgerVars, playTopup>> PROVE Goal
  <2>1. FromPlay' = FromPlay /\ Wealth' = Wealth
    BY <1>3 DEF FromPlay, Wealth, Worth, ledgerVars
  <2> QED BY <1>1, <1>2, <1>3, <2>1
<1>4. ASSUME NEW c \in PlayCalls, CreditPurchase(c) PROVE Goal
  <2>t. PICK t : t = playCall[c].token
    OBVIOUS
  <2>1. CASE t \in playTopup
    BY <1>0, <1>3, <1>4, <2>t, <2>1, CreditPosts
  <2>2. CASE t \notin playTopup
    <3> DEFINE w == Write(TokenOwner[t], "TOPUP", TokenCoins[t], <<"google_play", t>>)
               g == [q \in playTopup \cup {t} |-> TokenCoins[q]]
    <3>1. t \in Tokens /\ Posts({w}, PlayTags) /\ w.delta = TokenCoins[t]
      BY <1>0, <1>4, <2>t, <2>2, CreditPosts DEF Write
    <3>2. playTopup' = playTopup \cup {t}
      BY <1>4, <2>t, <2>2 DEF CreditPurchase
    <3>3. TokenCoins[t] \in Nat \ {0}
      BY <3>1, PlayConstants
    <3>4. g \in [playTopup \cup {t} -> Int] /\ \A q \in playTopup : g[q] = f[q]
      BY <1>1, <3>3
    <3>5. g[t] = TokenCoins[t]
      OBVIOUS
    <3>6. FromPlay' = SumFunction(g)
      BY <3>2 DEF FromPlay
    <3> HIDE DEF f, g, w
    <3>7. SumFunction(g) = SumFunction(f) + g[t]
      BY <1>1, <2>2, <3>4, SumAdd
    <3>8. Wealth' = Wealth + w.delta
      BY <1>0, <3>1, WealthOne
    <3>9. IsFiniteSet(playTopup')
      BY <3>2, FS_AddElement
    <3> QED BY <1>1, <1>2, <3>1, <3>3, <3>5, <3>6, <3>7, <3>8, <3>9
  <2> QED BY <2>1, <2>2
<1>5. ASSUME NEW c \in PlayCalls,
             \/ \E t \in Tokens : VerifyPurchase(c, t)
             \/ LookUp(c) \/ ConsumePurchase(c) \/ EndPlayCall(c)
      PROVE  Goal
  <2>1. UNCHANGED <<ledgerVars, playTopup>>
    BY <1>5 DEF VerifyPurchase, LookUp, ConsumePurchase, EndPlayCall
  <2> QED BY <1>3, <2>1
<1> HIDE DEF Goal
<1>6. Goal
  BY <1>4, <1>5 DEF PlayNext, Confirming
<1> QED BY <1>1, <1>2, <1>6 DEF Goal

\* A payout puts what was set into wallets when the pool holds coins, nothing else.
LEMMA WealthPaid ==
  ASSUME PoolsInv, NEW p \in Pools, NEW P \in Payouts, PayOut(p, P)
  PROVE  /\ pool[p].total \in Nat /\ P \in Nat
         /\ Wealth' = Wealth + (IF pool[p].total > 0 THEN P ELSE 0)
<1> DEFINE held == NetStake(p)
           plan == Shares(held, P, StakeRank)
           D == Live(held)
           S == {v \in DOMAIN plan : plan[v] > 0}
           w(v) == Write(v, "POOL_PAYOUT", plan[v], <<"payout", p, v>>)
           W == {w(v) : v \in S}
           d == [u \in Users |-> IF u \in D THEN plan[u] ELSE 0]
<1>0. FundingInv /\ LedgerTypeOK
  BY DEF PoolsInv, BaseInv, CallInv, TypeInv, WalletTypeOK
<1>1. IsTransaction(W) /\ Post(W)
  BY <1>0, PayOutPosts DEF Posts
<1>2. /\ held \in [Users -> Nat] /\ P \in Nat /\ IsFiniteSet(Users)
      /\ TotalStake(held) = pool[p].total
  BY <1>0, NetStakes, FundingConstants, LedgerConstants DEF PayOut
<1>3. DOMAIN plan = D /\ plan \in [D -> Nat] /\ D \subseteq Users
  BY <1>0, PlanType
<1>4. D \in SUBSET Users /\ IsFiniteSet(D) /\ TotalStake(held) \in Nat
      /\ (D # {} => TotalStake(held) > 0)
  BY <1>2, TotalOfStakes
<1>5. TotalStake(held) > 0 => SumFunction(plan) = P
  BY <1>2, PlanIsExact
<1>6. \A v \in S : w(v).user = v /\ w(v).delta = plan[v] /\ w(v) \in W
  BY DEF Write
<1>7. \A x \in W : \E v \in S : x = w(v)
  OBVIOUS
<1>8. \A v : v \in S <=> v \in D /\ plan[v] > 0
  BY <1>3
<1> HIDE DEF held, plan, D, S, w, W
<1>9. \A u \in D : plan[u] \in Nat
  BY <1>3
<1>10. d \in [Users -> Int]
  BY <1>9
<1>11. \A u \in Users : d[u] = IF u \in D THEN plan[u] ELSE 0
  OBVIOUS
<1> HIDE DEF d
<1>12. \A u \in Users : (\A x \in W : x.user # u) => d[u] = 0
  <2> SUFFICES ASSUME NEW u \in Users, \A x \in W : x.user # u PROVE d[u] = 0
    OBVIOUS
  <2>1. u \notin S
    BY <1>6
  <2> QED BY <1>8, <1>9, <1>11, <2>1
<1>13. \A x \in W : d[x.user] = x.delta
  <2> SUFFICES ASSUME NEW x \in W PROVE d[x.user] = x.delta
    OBVIOUS
  <2>1. PICK v \in S : x = w(v)
    BY <1>7
  <2>2. v \in D /\ v \in Users
    BY <1>3, <1>8
  <2> QED BY <1>6, <1>11, <2>1, <2>2
<1>14. Wealth \in Int /\ Wealth' = Wealth + SumFunction(d)
  BY <1>0, <1>1, <1>10, <1>12, <1>13, WealthMoves
<1>15. SumFunctionOnSet(d, D) = SumFunction(d)
  <2>1. \A u \in Users \ D : d[u] = 0
    BY <1>11
  <2>2. SumFunctionOnSet(d, D) = SumFunctionOnSet(d, Users)
    BY <1>2, <1>4, <1>10, <2>1, SumSupport
  <2> QED BY <1>10, <2>2 DEF SumFunction
<1>16. CASE TotalStake(held) > 0
  <2>1. \A u \in D : d[u] = plan[u]
    BY <1>3, <1>11
  <2>2. SumFunctionOnSet(d, D) = SumFunctionOnSet(plan, D)
    BY <1>4, <2>1, SumAgree
  <2>3. SumFunction(d) = P
    BY <1>3, <1>5, <1>15, <1>16, <2>2 DEF SumFunction
  <2> QED BY <1>2, <1>4, <1>14, <1>16, <2>3
<1>17. CASE TotalStake(held) = 0
  <2>1. D = {}
    BY <1>4, <1>17
  <2>2. SumFunction(d) = 0
    BY <1>15, <2>1, SumEmpty
  <2> QED BY <1>2, <1>4, <1>14, <1>17, <2>2
<1> QED BY <1>4, <1>16, <1>17

\* A cancellation puts what the pool holds back into wallets.
LEMMA WealthReturned ==
  ASSUME PoolsInv, NEW p \in Pools, CancelPool(p)
  PROVE  Wealth' = Wealth + pool[p].total
<1> DEFINE d == NetStake(p)
           S == Live(d)
           w(v) == Write(v, "POOL_REFUND", d[v], <<"cancel", p, v>>)
           W == {w(v) : v \in S}
<1>0. FundingInv /\ LedgerTypeOK
  BY DEF PoolsInv, BaseInv, CallInv, TypeInv, WalletTypeOK
<1>1. IsTransaction(W) /\ Post(W)
  BY <1>0, CancelPosts DEF Posts
<1>2. /\ d \in [Users -> Nat] /\ d \in [Users -> Int]
      /\ \A v \in Users : d[v] \in Nat /\ (v \in S <=> d[v] > 0)
      /\ S \subseteq Users
  BY <1>0, NetStakes DEF Live
<1>3. \A v \in S : w(v).user = v /\ w(v).delta = d[v] /\ w(v) \in W
  BY DEF Write
<1>4. \A x \in W : \E v \in S : x = w(v)
  OBVIOUS
<1>5. SumFunction(d) = pool[p].total
  BY Cancelled, <1>0 DEF PoolsInv, PoolSums, NoPool
<1> HIDE DEF d, S, w, W
<1>6. \A u \in Users : (\A x \in W : x.user # u) => d[u] = 0
  BY <1>2, <1>3
<1>7. \A x \in W : d[x.user] = x.delta
  BY <1>3, <1>4
<1> QED BY <1>0, <1>1, <1>2, <1>5, <1>6, <1>7, WealthMoves

OpenPools == {q \in Pools : Settleable(q)}
PaidPools == {q \in Pools : pool[q].status = "PAID_OUT" /\ pool[q].total > 0}

\* The totals of pools and payouts are numbers.
LEMMA TotalsInt ==
  ASSUME FundingTypeOK, IsFiniteSet(OpenPools), IsFiniteSet(PaidPools)
  PROVE  /\ [p \in OpenPools |-> pool[p].total] \in [OpenPools -> Int]
         /\ [p \in PaidPools |-> pool[p].payout - pool[p].total] \in [PaidPools -> Int]
         /\ Pooled = SumFunction([p \in OpenPools |-> pool[p].total]) /\ Pooled \in Int
         /\ Issued = SumFunction([p \in PaidPools |-> pool[p].payout - pool[p].total])
         /\ Issued \in Int
<1> DEFINE f == [p \in OpenPools |-> pool[p].total]
           g == [p \in PaidPools |-> pool[p].payout - pool[p].total]
<1>1. \A p \in OpenPools : pool[p].total \in Int
  BY PoolFields DEF OpenPools, Settleable, Pool
<1>2. \A p \in PaidPools : pool[p].total \in Int /\ pool[p].payout \in Int
  BY PoolFields DEF PaidPools, Pool
<1>3. f \in [OpenPools -> Int] /\ g \in [PaidPools -> Int]
  BY <1>1, <1>2
<1>4. Pooled = SumFunction(f) /\ Issued = SumFunction(g)
  BY DEF Pooled, Issued, OpenPools, PaidPools
<1> HIDE DEF f, g
<1>5. SumFunction(f) \in Int /\ SumFunction(g) \in Int
  BY <1>3, SumInt
<1> QED BY <1>3, <1>4, <1>5 DEF f, g

\* Paid pools that stay as they are have issued what they had.
LEMMA IssuedKept ==
  ASSUME PaidPools' = PaidPools, \A q \in PaidPools : pool'[q] = pool[q]
  PROVE  Issued' = Issued
<1>1. /\ Issued = SumFunction([p \in PaidPools |-> pool[p].payout - pool[p].total])
      /\ Issued' = SumFunction([p \in PaidPools' |-> pool'[p].payout - pool'[p].total])
  BY DEF Issued, PaidPools
<1> QED BY <1>1

\* A pool whose total changes changes what open pools hold by as much.
LEMMA PooledMoves ==
  ASSUME FundingTypeOK, FundingTypeOK', IsFiniteSet(OpenPools), IsFiniteSet(PaidPools),
         NEW p \in OpenPools, OpenPools' = OpenPools, IsFiniteSet(PaidPools'),
         \A q \in Pools : q # p => pool'[q] = pool[q],
         NEW n \in Int, pool'[p].total = pool[p].total + n
  PROVE  Pooled' = Pooled + n
<1> DEFINE f == [q \in OpenPools |-> pool[q].total]
           g == [q \in OpenPools |-> pool'[q].total]
<1>1. f \in [OpenPools -> Int] /\ Pooled = SumFunction(f) /\ Pooled \in Int
  BY TotalsInt
<1>2. pool[p].total \in Int
  BY PoolFields DEF OpenPools, Settleable, Pool
<1>3. \A q \in OpenPools : q # p => g[q] = f[q]
  BY DEF OpenPools
<1>4. g[p] = f[p] + n /\ f[p] \in Int
  BY <1>2
<1>5. Pooled' = SumFunction(g)
  BY DEF Pooled, OpenPools
<1>6. \A q \in OpenPools : g[q] \in Int
  BY <1>1, <1>3, <1>4
<1>7. g \in [OpenPools -> Int]
  BY <1>6
<1> HIDE DEF f, g
<1>8. SumFunction(g) = SumFunction(f) - f[p] + g[p]
  BY <1>1, <1>3, <1>7, SumChange
<1>9. SumFunction(f) \in Int
  BY <1>1
<1> QED BY <1>1, <1>4, <1>5, <1>8, <1>9

\* An empty pool that opens holds nothing yet.
LEMMA PooledOpens ==
  ASSUME FundingTypeOK, IsFiniteSet(OpenPools), IsFiniteSet(PaidPools),
         NEW p \in Pools, p \notin OpenPools, OpenPools' = OpenPools \cup {p},
         \A q \in Pools : q # p => pool'[q] = pool[q], pool'[p].total = 0
  PROVE  Pooled' = Pooled
<1> DEFINE f == [q \in OpenPools |-> pool[q].total]
           g == [q \in OpenPools \cup {p} |-> pool'[q].total]
<1>1. f \in [OpenPools -> Int] /\ Pooled = SumFunction(f) /\ Pooled \in Int
  BY TotalsInt
<1>2. \A q \in OpenPools : g[q] = f[q]
  BY DEF OpenPools
<1>3. g[p] = 0
  OBVIOUS
<1>4. Pooled' = SumFunction(g)
  BY DEF Pooled, OpenPools
<1>5. \A q \in OpenPools \cup {p} : g[q] \in Int
  BY <1>1, <1>2, <1>3
<1>6. g \in [OpenPools \cup {p} -> Int]
  BY <1>5
<1> HIDE DEF f, g
<1>7. SumFunction(g) = SumFunction(f) + g[p]
  <2>1. f \in [OpenPools -> Int]
    BY <1>1
  <2> QED BY <1>2, <1>6, <2>1, SumAdd
<1> QED BY <1>1, <1>3, <1>4, <1>7

\* A pool that settles takes what it holds out of what open pools hold.
LEMMA PooledSettles ==
  ASSUME FundingTypeOK, IsFiniteSet(OpenPools), IsFiniteSet(PaidPools),
         NEW p \in OpenPools, OpenPools' = OpenPools \ {p},
         \A q \in Pools : q # p => pool'[q] = pool[q]
  PROVE  Pooled' = Pooled - pool[p].total
<1> DEFINE f == [q \in OpenPools |-> pool[q].total]
           g == [q \in OpenPools \ {p} |-> pool'[q].total]
<1>1. f \in [OpenPools -> Int] /\ Pooled = SumFunction(f) /\ Pooled \in Int
  BY TotalsInt
<1>2. \A q \in OpenPools \ {p} : g[q] = f[q]
  BY DEF OpenPools
<1>3. f[p] = pool[p].total /\ f[p] \in Int
  BY <1>1
<1>4. Pooled' = SumFunction(g)
  BY DEF Pooled, OpenPools
<1>5. \A q \in OpenPools \ {p} : g[q] \in Int
  BY <1>1, <1>2
<1>6. g \in [OpenPools \ {p} -> Int]
  BY <1>5
<1> HIDE DEF f, g
<1>7. SumFunction(f) = SumFunction(g) + f[p]
  BY <1>1, <1>2, <1>6, SumRemove
<1>8. SumFunction(g) \in Int
  BY <1>6, SumInt, FS_RemoveElement
<1> QED BY <1>1, <1>3, <1>4, <1>7, <1>8

\* A payout of a pool that holds coins issues what was set less what the pool held.
LEMMA IssuedPays ==
  ASSUME FundingTypeOK, IsFiniteSet(OpenPools), IsFiniteSet(PaidPools),
         NEW p \in Pools, p \notin PaidPools, PaidPools' = PaidPools \cup {p},
         \A q \in Pools : q # p => pool'[q] = pool[q],
         pool'[p].payout \in Int, pool'[p].total \in Int
  PROVE  Issued' = Issued + (pool'[p].payout - pool'[p].total)
<1> DEFINE f == [q \in PaidPools |-> pool[q].payout - pool[q].total]
           g == [q \in PaidPools \cup {p} |-> pool'[q].payout - pool'[q].total]
<1>1. f \in [PaidPools -> Int] /\ Issued = SumFunction(f) /\ Issued \in Int
  BY TotalsInt
<1>2. \A q \in PaidPools : g[q] = f[q]
  BY DEF PaidPools
<1>3. g[p] = pool'[p].payout - pool'[p].total /\ g[p] \in Int
  OBVIOUS
<1>4. Issued' = SumFunction(g)
  BY DEF Issued, PaidPools
<1>5. \A q \in PaidPools \cup {p} : g[q] \in Int
  BY <1>1, <1>2, <1>3
<1>6. g \in [PaidPools \cup {p} -> Int]
  BY <1>5
<1> HIDE DEF f, g
<1>7. SumFunction(g) = SumFunction(f) + g[p]
  <2>1. f \in [PaidPools -> Int]
    BY <1>1
  <2> QED BY <1>2, <1>6, <2>1, SumAdd
<1> QED BY <1>1, <1>3, <1>4, <1>7

\* No step of the pools mints a coin or loses one: what leaves a wallet is in a pool, what
\* leaves a pool is in wallets, and a payout that differs from the pool is counted as issued.
LEMMA FundingConserves ==
  ASSUME PoolsInv, FundingTypeOK', FundingNext, IsFiniteSet(OpenPools), IsFiniteSet(PaidPools)
  PROVE  /\ IsFiniteSet(OpenPools') /\ IsFiniteSet(PaidPools')
         /\ Wealth \in Int /\ Pooled \in Int /\ Issued \in Int
         /\ Wealth' \in Int /\ Pooled' \in Int /\ Issued' \in Int
         /\ Wealth' = Wealth + (Pooled - Pooled') + (Issued' - Issued)
<1>0. FundingInv /\ FundingTypeOK /\ LedgerTypeOK
  BY DEF PoolsInv, BaseInv, FundingInv, CallInv, TypeInv, WalletTypeOK
<1>1. Wealth \in Int /\ Pooled \in Int /\ Issued \in Int
  BY <1>0, WealthInt, TotalsInt
<1> DEFINE Goal == /\ IsFiniteSet(OpenPools') /\ IsFiniteSet(PaidPools')
                   /\ Wealth' \in Int /\ Pooled' \in Int /\ Issued' \in Int
                   /\ Wealth' = Wealth + (Pooled - Pooled') + (Issued' - Issued)
<1>3. ASSUME PoolsIdle PROVE Goal
  <2>1. /\ OpenPools' = OpenPools /\ PaidPools' = PaidPools
        /\ \A q \in OpenPools : pool'[q].total = pool[q].total
        /\ \A q \in PaidPools : pool'[q] = pool[q]
    BY <1>3 DEF PoolsIdle, OpenPools, PaidPools, Settleable
  <2>2. Pooled' = Pooled
    BY <2>1 DEF Pooled, OpenPools
  <2>3. Issued' = Issued
    BY <2>1, IssuedKept
  <2>4. Wealth' = Wealth
    BY <1>3 DEF PoolsIdle, Wealth, Worth, ledgerVars
  <2> QED BY <1>1, <2>1, <2>2, <2>3, <2>4
<1>4. ASSUME NEW p \in Pools, Opened(p) PROVE Goal
  <2>1. /\ p \notin OpenPools /\ OpenPools' = OpenPools \cup {p}
        /\ PaidPools' = PaidPools /\ p \notin PaidPools
    BY <1>4 DEF Opened, OpenPools, PaidPools, Settleable, NoPool
  <2>2. Pooled' = Pooled
    BY <1>0, <1>4, <2>1, PooledOpens DEF Opened
  <2>3. Issued' = Issued
    BY <1>4, <2>1, IssuedKept DEF Opened, PaidPools
  <2>4. Wealth' = Wealth
    BY <1>4 DEF Opened, Wealth, Worth, ledgerVars
  <2>5. IsFiniteSet(OpenPools')
    BY <2>1, FS_AddElement
  <2> QED BY <1>1, <2>1, <2>2, <2>3, <2>4, <2>5
<1>5. ASSUME NEW p \in Pools, NEW n \in Int, pool[p].status = "OPEN", pool'[p].status = "OPEN",
             pool'[p].total = pool[p].total + n, \A q \in Pools : q # p => pool'[q] = pool[q],
             Wealth' = Wealth - n
      PROVE  Goal
  <2>1. /\ OpenPools' = OpenPools /\ PaidPools' = PaidPools
        /\ p \in OpenPools /\ p \notin PaidPools
    BY <1>5 DEF OpenPools, PaidPools, Settleable
  <2>2. Pooled' = Pooled + n
    BY <1>0, <1>5, <2>1, PooledMoves
  <2>3. Issued' = Issued
    BY <1>5, <2>1, IssuedKept DEF PaidPools
  <2> QED BY <1>1, <1>5, <2>1, <2>2, <2>3
<1>6. ASSUME NEW c \in FundCalls, CommitContribute(c) PROVE Goal
  <2> DEFINE u == fundCall[c].user
             p == fundCall[c].pool
             n == fundCall[c].coins
             w == Write(u, "POOL_FUND", -n, FundKey(p, u, fundCall[c].key))
  <2>1. p \in Pools /\ n \in Nat /\ pool[p].status = "OPEN" /\ pool'[p].status = "OPEN"
        /\ pool'[p].total = pool[p].total + n /\ \A q \in Pools : q # p => pool'[q] = pool[q]
    BY <1>0, <1>6, Contributed
  <2>2. Posts({w}, PoolTags) /\ w.delta = -n
    BY <1>0, <1>6, ContributePosts DEF Write
  <2> HIDE DEF w, p, n, Goal
  <2>3. Wealth' = Wealth + w.delta
    BY <1>0, <2>2, WealthOne
  <2>4. Wealth' = Wealth - n
    BY <1>1, <2>1, <2>2, <2>3
  <2> QED BY <1>5, <2>1, <2>4
<1>7. ASSUME NEW c \in FundCalls, CommitClaim(c) PROVE Goal
  <2> DEFINE u == fundCall[c].user
             p == fundCall[c].pool
             was == fundCall[c].refunded
             net == fundCall[c].coins - was
             w == Write(u, "POOL_REFUND", net, ClaimKey(p, u, was))
  <2>1. p \in Pools /\ net \in Int /\ pool[p].status = "OPEN" /\ pool'[p].status = "OPEN"
        /\ pool[p].total \in Int
        /\ pool'[p].total = pool[p].total - net /\ \A q \in Pools : q # p => pool'[q] = pool[q]
    BY <1>0, <1>7, Claimed
  <2>2. Posts({w}, PoolTags) /\ w.delta = net
    BY <1>0, <1>7, ClaimPosts DEF Write
  <2> HIDE DEF w, p, net, Goal
  <2>3. Wealth' = Wealth + w.delta
    BY <1>0, <2>2, WealthOne
  <2>4. Wealth' = Wealth - (-net) /\ pool'[p].total = pool[p].total + (-net) /\ -net \in Int
    BY <1>1, <2>1, <2>2, <2>3
  <2> QED BY <1>5, <2>1, <2>4
<1>8. ASSUME NEW p \in Pools, CancelPool(p) PROVE Goal
  <2>1. /\ pool[p].status \in {"OPEN", "CLOSED"} /\ pool'[p].status = "CANCELLED"
        /\ \A q \in Pools : q # p => pool'[q] = pool[q]
    BY <1>0, <1>8, Cancelled
  <2>2. /\ p \in OpenPools /\ OpenPools' = OpenPools \ {p}
        /\ p \notin PaidPools /\ PaidPools' = PaidPools
    BY <2>1 DEF OpenPools, PaidPools, Settleable
  <2>3. Pooled' = Pooled - pool[p].total
    BY <1>0, <2>1, <2>2, PooledSettles
  <2>4. Issued' = Issued
    BY <2>1, <2>2, IssuedKept DEF PaidPools
  <2>5. Wealth' = Wealth + pool[p].total /\ pool[p].total \in Int
    BY <1>0, <1>8, WealthReturned, Cancelled
  <2>6. IsFiniteSet(OpenPools')
    BY <2>2, FS_RemoveElement
  <2> QED BY <1>1, <2>2, <2>3, <2>4, <2>5, <2>6
<1>9. ASSUME NEW p \in Pools, NEW P \in Payouts, PayOut(p, P) PROVE Goal
  <2>1. /\ pool[p].status \in {"OPEN", "CLOSED"} /\ pool'[p].status = "PAID_OUT"
        /\ pool'[p].total = pool[p].total /\ pool'[p].payout = P
        /\ \A q \in Pools : q # p => pool'[q] = pool[q]
    BY <1>0, <1>9, PaidOut
  <2>2. /\ pool[p].total \in Nat /\ P \in Nat
        /\ Wealth' = Wealth + (IF pool[p].total > 0 THEN P ELSE 0)
    BY <1>9, WealthPaid
  <2>3. p \in OpenPools /\ OpenPools' = OpenPools \ {p} /\ p \notin PaidPools
    BY <2>1 DEF OpenPools, PaidPools, Settleable
  <2>4. Pooled' = Pooled - pool[p].total
    BY <1>0, <2>1, <2>3, PooledSettles
  <2>5. IsFiniteSet(OpenPools')
    BY <2>3, FS_RemoveElement
  <2>6. CASE pool[p].total > 0
    <3>1. PaidPools' = PaidPools \cup {p}
      BY <2>1, <2>6 DEF PaidPools
    <3>2. Issued' = Issued + (P - pool[p].total)
      BY <1>0, <2>1, <2>2, <2>3, <3>1, IssuedPays
    <3>3. IsFiniteSet(PaidPools')
      BY <3>1, FS_AddElement
    <3> QED BY <1>1, <2>2, <2>4, <2>5, <2>6, <3>2, <3>3
  <2>7. CASE ~ (pool[p].total > 0)
    <3>1. PaidPools' = PaidPools
      BY <2>1, <2>7 DEF PaidPools
    <3>2. Issued' = Issued
      BY <2>1, <2>3, <3>1, IssuedKept DEF PaidPools
    <3> QED BY <1>1, <2>2, <2>4, <2>5, <2>7, <3>1, <3>2
  <2> QED BY <2>6, <2>7
<1> HIDE DEF Goal
<1>10. Goal
  BY <1>0, <1>3, <1>4, <1>6, <1>7, <1>8, <1>9, FundingKinds
<1> QED BY <1>1, <1>10 DEF Goal

FiniteSums ==
  /\ IsFiniteSet(PaidTopups) /\ IsFiniteSet(PaidPurchases) /\ IsFiniteSet(playTopup)
  /\ IsFiniteSet(OpenPools) /\ IsFiniteSet(PaidPools)
  /\ Wealth \in Int /\ Pooled \in Int /\ Issued \in Int
  /\ FromGateway \in Int /\ FromApple \in Int /\ FromPlay \in Int

InBalance == Wealth + Pooled = FromGateway + FromApple + FromPlay + Issued

CoinsInv == PoolsInv /\ FiniteSums /\ InBalance

\* Every step of the economy keeps the coins balanced: each component moves its own
\* terms and the wallets by the same amount, and leaves the others' terms alone.
LEMMA CoinsInvStep ==
  ASSUME CoinsInv, [Next]_vars
  PROVE  CoinsInv'
<1>0. PoolsInv /\ BaseInv /\ FiniteSums /\ InBalance /\ PoolsInv' /\ FundingTypeOK'
  BY PoolsInvStep DEF CoinsInv, PoolsInv, BaseInv, FundingInv
<1>1. ASSUME UNCHANGED coinWalletVars
      PROVE  PaidTopups' = PaidTopups /\ FromGateway' = FromGateway
  BY <1>1 DEF coinWalletVars, PaidTopups, FromGateway
<1>2. ASSUME UNCHANGED appleVars
      PROVE  PaidPurchases' = PaidPurchases /\ FromApple' = FromApple
  BY <1>2 DEF appleVars, PaidPurchases, FromApple
<1>3. ASSUME UNCHANGED playVars
      PROVE  playTopup' = playTopup /\ FromPlay' = FromPlay
  BY <1>3 DEF playVars, FromPlay
<1>4. ASSUME UNCHANGED fundingVars
      PROVE  /\ OpenPools' = OpenPools /\ PaidPools' = PaidPools
             /\ Pooled' = Pooled /\ Issued' = Issued
  BY <1>4 DEF fundingVars, OpenPools, PaidPools, Pooled, Issued, Settleable
<1>5. ASSUME UNCHANGED ledgerVars
      PROVE  Wealth' = Wealth
  BY <1>5 DEF ledgerVars, Wealth, Worth
<1>6. CASE WalletNext /\ UNCHANGED <<appleVars, playVars, fundingVars>>
  <2>1. /\ IsFiniteSet(PaidTopups')
        /\ Wealth' = Wealth + (FromGateway' - FromGateway)
        /\ Wealth' \in Int /\ FromGateway' \in Int
    BY <1>0, <1>6, GatewayConserves DEF FiniteSums
  <2>2. FiniteSums'
    BY <1>0, <1>2, <1>3, <1>4, <1>6, <2>1 DEF FiniteSums
  <2>3. InBalance'
    <3>1. FromApple' = FromApple /\ FromPlay' = FromPlay /\ Pooled' = Pooled /\ Issued' = Issued
      BY <1>2, <1>3, <1>4, <1>6
    <3>2. /\ Wealth \in Int /\ Pooled \in Int /\ Issued \in Int
          /\ FromGateway \in Int /\ FromApple \in Int /\ FromPlay \in Int
          /\ Wealth + Pooled = FromGateway + FromApple + FromPlay + Issued
      BY <1>0 DEF FiniteSums, InBalance
    <3>3. Wealth' + Pooled = FromGateway' + FromApple + FromPlay + Issued
      BY <2>1, <3>2
    <3> QED BY <3>1, <3>3 DEF InBalance
  <2> QED BY <1>0, <2>2, <2>3 DEF CoinsInv
<1>7. CASE AppleNext /\ UNCHANGED <<coinWalletVars, playVars, fundingVars>>
  <2>1. /\ IsFiniteSet(PaidPurchases')
        /\ Wealth' = Wealth + (FromApple' - FromApple)
        /\ Wealth' \in Int /\ FromApple' \in Int
    BY <1>0, <1>7, AppleConserves DEF FiniteSums
  <2>2. FiniteSums'
    BY <1>0, <1>1, <1>3, <1>4, <1>7, <2>1 DEF FiniteSums
  <2>3. InBalance'
    <3>1. FromGateway' = FromGateway /\ FromPlay' = FromPlay /\ Pooled' = Pooled /\ Issued' = Issued
      BY <1>1, <1>3, <1>4, <1>7
    <3>2. /\ Wealth \in Int /\ Pooled \in Int /\ Issued \in Int
          /\ FromGateway \in Int /\ FromApple \in Int /\ FromPlay \in Int
          /\ Wealth + Pooled = FromGateway + FromApple + FromPlay + Issued
      BY <1>0 DEF FiniteSums, InBalance
    <3>3. Wealth' + Pooled = FromGateway + FromApple' + FromPlay + Issued
      BY <2>1, <3>2
    <3> QED BY <3>1, <3>3 DEF InBalance
  <2> QED BY <1>0, <2>2, <2>3 DEF CoinsInv
<1>8. CASE PlayNext /\ UNCHANGED <<coinWalletVars, appleVars, fundingVars>>
  <2>1. /\ IsFiniteSet(playTopup')
        /\ Wealth' = Wealth + (FromPlay' - FromPlay)
        /\ Wealth' \in Int /\ FromPlay' \in Int
    BY <1>0, <1>8, PlayConserves DEF FiniteSums
  <2>2. FiniteSums'
    BY <1>0, <1>1, <1>2, <1>4, <1>8, <2>1 DEF FiniteSums
  <2>3. InBalance'
    <3>1. FromGateway' = FromGateway /\ FromApple' = FromApple /\ Pooled' = Pooled /\ Issued' = Issued
      BY <1>1, <1>2, <1>4, <1>8
    <3>2. /\ Wealth \in Int /\ Pooled \in Int /\ Issued \in Int
          /\ FromGateway \in Int /\ FromApple \in Int /\ FromPlay \in Int
          /\ Wealth + Pooled = FromGateway + FromApple + FromPlay + Issued
      BY <1>0 DEF FiniteSums, InBalance
    <3>3. Wealth' + Pooled = FromGateway + FromApple + FromPlay' + Issued
      BY <2>1, <3>2
    <3> QED BY <3>1, <3>3 DEF InBalance
  <2> QED BY <1>0, <2>2, <2>3 DEF CoinsInv
<1>9. CASE FundingNext /\ UNCHANGED <<coinWalletVars, appleVars, playVars>>
  <2>1. /\ IsFiniteSet(OpenPools') /\ IsFiniteSet(PaidPools')
        /\ Wealth' \in Int /\ Pooled' \in Int /\ Issued' \in Int
        /\ Wealth' = Wealth + (Pooled - Pooled') + (Issued' - Issued)
    BY <1>0, <1>9, FundingConserves DEF FiniteSums
  <2>2. FiniteSums'
    BY <1>0, <1>1, <1>2, <1>3, <1>9, <2>1 DEF FiniteSums
  <2>3. InBalance'
    <3>1. FromGateway' = FromGateway /\ FromApple' = FromApple /\ FromPlay' = FromPlay
      BY <1>1, <1>2, <1>3, <1>9
    <3>2. /\ Wealth \in Int /\ Pooled \in Int /\ Issued \in Int
          /\ FromGateway \in Int /\ FromApple \in Int /\ FromPlay \in Int
          /\ Wealth + Pooled = FromGateway + FromApple + FromPlay + Issued
      BY <1>0 DEF FiniteSums, InBalance
    <3>3. Wealth' + Pooled' = FromGateway + FromApple + FromPlay + Issued'
      BY <2>1, <3>2
    <3> QED BY <3>1, <3>3 DEF InBalance
  <2> QED BY <1>0, <2>2, <2>3 DEF CoinsInv
<1>10. CASE UNCHANGED vars
  <2>1. FiniteSums' /\ InBalance'
    BY <1>0, <1>1, <1>2, <1>3, <1>4, <1>5, <1>10 DEF vars, FiniteSums, InBalance
  <2> QED BY <1>0, <2>1 DEF CoinsInv
<1> QED BY <1>6, <1>7, <1>8, <1>9, <1>10 DEF Next

\* There are no coins at first.
LEMMA CoinsInvInit == Init => CoinsInv
<1> SUFFICES ASSUME Init PROVE CoinsInv
  OBVIOUS
<1>1. /\ PaidTopups = {} /\ PaidPurchases = {} /\ playTopup = {}
      /\ OpenPools = {} /\ PaidPools = {}
  BY DEF Init, WalletInit, AppleInit, PlayInit, FundingInit, PaidTopups, PaidPurchases,
         OpenPools, PaidPools, Settleable, NoPool, NoTopup
<1>2. /\ FromGateway = 0 /\ FromApple = 0 /\ FromPlay = 0
      /\ Pooled = 0 /\ Issued = 0
  BY <1>1, SumNone DEF FromGateway, FromApple, FromPlay, Pooled, Issued, OpenPools, PaidPools
<1>3. Wealth = 0
  <2>1. \A u \in Users : Worth[u] = 0
    BY DEF Init, LedgerInit, Worth, Net
  <2>2. DOMAIN Worth = Users /\ IsFiniteSet(Users)
    BY LedgerConstants DEF Worth
  <2> QED BY <2>1, <2>2, SumZero DEF Wealth, SumFunction
<1>4. FiniteSums
  BY <1>1, <1>2, <1>3, FS_EmptySet DEF FiniteSums
<1>5. InBalance
  BY <1>2, <1>3 DEF InBalance
<1> QED BY <1>4, <1>5, PoolsInvInit DEF CoinsInv

\* No coin is minted or lost, tickets aside: whatever top-ups, purchases, refund
\* notices, transfers, contributions, claims, payouts and cancellations interleave,
\* wallets and open pools hold what was bought plus what payouts issued, and each wallet
\* is the sum of its entries (apply).
THEOREM CoinsAlwaysAddUp == Spec => []CoinsAddUp
<1>1. CoinsInv /\ [Next]_vars => CoinsInv'
  BY CoinsInvStep
<1>2. CoinsInv => CoinsAreConserved
  <2> SUFFICES ASSUME CoinsInv PROVE CoinsAreConserved
    OBVIOUS
  <2>1. Bought = FromGateway + FromApple + FromPlay
    BY DEF Bought, FromGateway, FromApple, FromPlay
  <2>2. SumFunction([u \in Users |-> Net(wallet[u])]) = Wealth
    BY DEF Wealth, Worth
  <2> QED BY <2>1, <2>2 DEF CoinsInv, InBalance, CoinsAreConserved
<1>3. LedgersInv /\ [Next]_vars => LedgersInv'
  BY LedgersInvStep
<1>4. CoinsInv /\ LedgersInv => CoinsAddUp
  BY <1>2 DEF CoinsInv, LedgersInv, BaseInv, CallInv, TypeInv, FundingInv, TypeOK, CoinsAddUp
<1> QED BY <1>1, <1>3, <1>4, CoinsInvInit, LedgersInvInit, PTL DEF Spec

=============================================================================
