----------------------------- MODULE AppleCoins -----------------------------
(***************************************************************************)
(* AppleCoinsService.confirm and AppleNotificationsService.receive on the  *)
(* production store: coins bought with an Apple transaction, and Apple's   *)
(* refund notifications, which are redelivered and reordered.  Each of the *)
(* two is one database transaction under an advisory lock on the Apple     *)
(* transaction, so each is one action.                                     *)
(***************************************************************************)
EXTENDS CoinLedger

CONSTANTS AppleTxns,   \* consumable purchases Apple has settled
          Owner,       \* the account each purchase is bound to
          PackCoins,   \* the coins of the pack it bought
          Notices      \* signed refund notifications Apple may deliver

\* Apple signs the notifications of one purchase at different instants.
ASSUME AppleConstants ==
  /\ Owner \in [AppleTxns -> Users]
  /\ PackCoins \in [AppleTxns -> Nat \ {0}]
  /\ \A n \in Notices : /\ n.txn \in AppleTxns
                        /\ n.type \in {"REFUND", "REFUND_REVERSED"}
                        /\ n.signedAt \in Nat
  /\ \A n, m \in Notices : n.txn = m.txn /\ n.signedAt = m.signedAt => n = m

VARIABLES appleTopup,   \* coin_topups with provider APPLE_IAP
          refundState,  \* apple_coin_refund_states
          received      \* apple_store_notifications

appleVars == <<appleTopup, refundState, received>>

NoRefund == [refunded |-> FALSE, signedAt |-> -1]

AppleInit ==
  /\ appleTopup = [t \in AppleTxns |-> "NONE"]
  /\ refundState = [t \in AppleTxns |-> NoRefund]
  /\ received = {}

Refunds(n) == n.type = "REFUND"

\* confirm: the app may send the same signed transaction again at any time,
\* one signed before a refund included; a refunded purchase is not settled.
ConfirmApple(t) ==
  /\ ~refundState[t].refunded
  /\ appleTopup[t] = "NONE"
  /\ appleTopup' = [appleTopup EXCEPT ![t] = "PAID"]
  /\ Post({Write(Owner[t], "TOPUP", PackCoins[t], <<"apple_coin", t>>)})
  /\ UNCHANGED <<refundState, received>>

\* Mutant: only a redelivery is stale, an older notification is not.
StaleSameOnly(n) == n.signedAt = refundState[n.txn].signedAt

Stale(n) == n.signedAt <= refundState[n.txn].signedAt

\* receive, a notification no newer than the state we hold: only recorded.
ReceiveStale(n) ==
  /\ n \notin received
  /\ Stale(n)
  /\ received' = received \cup {n}
  /\ UNCHANGED <<ledgerVars, appleTopup, refundState>>

\* A refund takes a PAID purchase back, a reversal returns a REFUNDED one;
\* before settlement, or when nothing changes, only the state is kept.
RefundWrites(n) ==
  LET t == n.txn
  IN  IF Refunds(n) /\ appleTopup[t] = "PAID"
      THEN {Write(Owner[t], "APPLE_REFUND", -PackCoins[t], <<"apple_refund", n>>)}
      ELSE IF ~Refunds(n) /\ appleTopup[t] = "REFUNDED"
      THEN {Write(Owner[t], "APPLE_REFUND_REVERSAL", PackCoins[t], <<"apple_refund_reversal", n>>)}
      ELSE {}

ReceiveNewer(n) ==
  /\ n \notin received
  /\ ~Stale(n)
  /\ Post(RefundWrites(n))
  /\ appleTopup' = IF appleTopup[n.txn] = "NONE" THEN appleTopup
                   ELSE [appleTopup EXCEPT ![n.txn] =
                           IF Refunds(n) THEN "REFUNDED" ELSE "PAID"]
  /\ refundState' = [refundState EXCEPT ![n.txn] =
                       [refunded |-> Refunds(n), signedAt |-> n.signedAt]]
  /\ received' = received \cup {n}

AppleNext ==
  \/ \E t \in AppleTxns : ConfirmApple(t)
  \/ \E n \in Notices : ReceiveStale(n) \/ ReceiveNewer(n)

-----------------------------------------------------------------------------
(* Properties.                                                             *)

AppleTypeOK ==
  /\ appleTopup \in [AppleTxns -> {"NONE", "PAID", "REFUNDED"}]
  /\ refundState \in [AppleTxns -> [refunded : BOOLEAN, signedAt : Int]]
  /\ received \subseteq Notices

NoticesOf(t) == {n \in received : n.txn = t}

\* Whatever order the notifications of a purchase arrive in, and whether the
\* app settled it before, between or after them, the top-up stands as the most
\* recently signed one says (confirm, receive).
LatestNoticeDecides ==
  \A n \in received :
    (\A m \in NoticesOf(n.txn) : m.signedAt <= n.signedAt) =>
      appleTopup[n.txn] \in {"NONE", IF Refunds(n) THEN "REFUNDED" ELSE "PAID"}

EntriesOf(t) ==
  {e \in ledger : \/ e.key = <<"apple_coin", t>>
                  \/ \E n \in Notices : /\ n.txn = t
                                        /\ e.key \in {<<"apple_refund", n>>,
                                                      <<"apple_refund_reversal", n>>}}

\* A purchase has put its pack in the owner's wallet when it is PAID and
\* nothing when it is refunded: refunds and reversals alternate, and none is
\* applied twice or to a purchase that was never credited (receive).
PurchaseNetsToStatus ==
  \A t \in AppleTxns :
    /\ \A e \in EntriesOf(t) : e.user = Owner[t]
    /\ Moved(EntriesOf(t)) = IF appleTopup[t] = "PAID" THEN PackCoins[t] ELSE 0

\* The status of an Apple purchase is the one of its latest signed notice, and its
\* ledger entries net to what that status says (confirm, receive).
RefundsSettle == LatestNoticeDecides /\ PurchaseNetsToStatus

=============================================================================
