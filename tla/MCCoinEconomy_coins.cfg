SPECIFICATION EconomySpec
CONSTANTS
  u1 = u1
  u2 = u2
  t1 = t1
  t2 = t2
  g1 = g1
  NoGoal = NoGoal
  IntMax = 4
  Users <- MCUsers
  Calls = {c1}
  TopupRefs = {}
  TopupAmounts = {1}
  TransferKeys = {k1}
  TransferAmounts = {1, 2}
  AppleTxns = {t1, t2}
  Owner <- MCOwner
  PackCoins <- MCPack
  Notices <- MCNotices
  Tokens = {g1}
  TokenOwner <- MCTokenOwner
  TokenCoins <- MCTokenCoins
  PlayCalls = {q1, q2}
  Pools = {p1}
  Goals = {NoGoal, 3}
  Contributions = {1, 2}
  Payouts = {0, 4}
  FundKeys = {k1, k2}
  FundCalls = {q1, q2}
  StakeRank <- MCRank
SYMMETRY Symmetry
INVARIANTS ConsumedIsCredited RefundsSettle PoolsAreExact CoinsAddUp
PROPERTIES SettledPoolRests
CHECK_DEADLOCK FALSE
