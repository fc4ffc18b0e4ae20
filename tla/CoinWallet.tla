----------------------------- MODULE CoinWallet -----------------------------
(***************************************************************************)
(* WalletService: top-ups through a payment gateway and user-to-user       *)
(* transfers.  Requests are interleaved at their awaits: `call` holds what *)
(* each request in flight has read or been told so far.  The gateway is    *)
(* external and is modelled from the answers verify and the webhooks use.  *)
(***************************************************************************)
EXTENDS CoinLedger

CONSTANTS Calls,         \* slots for requests in flight
          TopupRefs,     \* references startTopup may draw
          TopupAmounts,  \* coins a top-up may ask for
          TransferKeys,  \* idempotency keys a client may send
          TransferAmounts

ASSUME WalletConstants ==
  /\ TopupAmounts \subseteq Nat \ {0}
  /\ TransferAmounts \subseteq Nat \ {0}

VARIABLES topup,    \* coin_topups
          gateway,  \* the charge as Paystack or Korapay sees it
          call      \* requests in flight

coinWalletVars == <<topup, gateway, call>>

NoTopup == [status |-> "NONE"]
Idle    == [op |-> "idle"]

Topup == [status : {"PENDING", "FAILED", "PAID"}, user : Users, coins : TopupAmounts]

Answers == {"paid", "mispaid", "failed"}

TransferCall == [op : {"transfer", "sent"}, sender : Users, recipient : Users,
                 coins : TransferAmounts, key : TransferKeys]

Call == {Idle} \cup [op : {"verify"}, ref : TopupRefs]
               \cup [op : {"answered"}, ref : TopupRefs, answer : Answers]
               \cup TransferCall

WalletInit ==
  /\ topup = [r \in TopupRefs |-> NoTopup]
  /\ gateway = [r \in TopupRefs |-> "none"]
  /\ call = [c \in Calls |-> Idle]

Exists(r) == topup[r] # NoTopup

-----------------------------------------------------------------------------
(* Top-ups.                                                                *)

\* startTopup, up to the row: the gateway is only asked afterwards.
StartTopup(u, r, n) ==
  /\ ~Exists(r)
  /\ topup' = [topup EXCEPT ![r] = [status |-> "PENDING", user |-> u, coins |-> n]]
  /\ UNCHANGED <<ledgerVars, gateway, call>>

\* startTopup, the initialize call: the buyer gets an authorization URL.
InitializeCharge(r) ==
  /\ Exists(r) /\ gateway[r] = "none"
  /\ gateway' = [gateway EXCEPT ![r] = "open"]
  /\ UNCHANGED <<ledgerVars, topup, call>>

\* External: a charge may fail and be paid later on the same page; "mispaid"
\* is a settlement whose amount or currency is not the one we asked for.
SettleCharge(r, outcome) ==
  /\ gateway[r] \in {"open", "failed"}
  /\ gateway[r] # outcome
  /\ gateway' = [gateway EXCEPT ![r] = outcome]
  /\ UNCHANGED <<ledgerVars, topup, call>>

\* verifyTopup (and the Korapay webhook, which calls it): the first read.
BeginVerify(c, r) ==
  /\ call[c] = Idle
  /\ Exists(r) /\ topup[r].status # "PAID"
  /\ call' = [call EXCEPT ![c] = [op |-> "verify", ref |-> r]]
  /\ UNCHANGED <<ledgerVars, topup, gateway>>

\* The gateway's answer is a snapshot: it may be stale when it is used.
AnswerVerify(c) ==
  /\ call[c].op = "verify"
  /\ LET r == call[c].ref
     IN  call' = [call EXCEPT ![c] =
                    IF gateway[r] \in Answers
                    THEN [op |-> "answered", ref |-> r, answer |-> gateway[r]]
                    ELSE Idle]
  /\ UNCHANGED <<ledgerVars, topup, gateway>>

\* settleTopupFromWebhook: charge.success carries its own amount; the event
\* may be delivered late and more than once.
ReceiveWebhook(c, r) ==
  /\ call[c] = Idle
  /\ gateway[r] \in {"paid", "mispaid"}
  /\ topup[r].status # "PAID"
  /\ call' = [call EXCEPT ![c] = [op |-> "answered", ref |-> r, answer |-> gateway[r]]]
  /\ UNCHANGED <<ledgerVars, topup, gateway>>

Answered(c, answer) == call[c].op = "answered" /\ call[c].answer = answer

\* Mutant: reconcile does not compare the amount and the currency.
CreditTopupMispaid(c) ==
  /\ Answered(c, "paid") \/ Answered(c, "mispaid")
  /\ LET r == call[c].ref
     IN  IF topup[r].status \in {"PENDING", "FAILED"}
         THEN /\ topup' = [topup EXCEPT ![r].status = "PAID"]
              /\ Post({Write(topup[r].user, "TOPUP", topup[r].coins, <<"topup", r>>)})
         ELSE UNCHANGED <<ledgerVars, topup>>
  /\ call' = [call EXCEPT ![c] = Idle]
  /\ UNCHANGED gateway

\* creditTopup: the conditional flip and the credit, in one transaction.
CreditTopup(c) ==
  /\ Answered(c, "paid")
  /\ LET r == call[c].ref
     IN  IF topup[r].status \in {"PENDING", "FAILED"}
         THEN /\ topup' = [topup EXCEPT ![r].status = "PAID"]
              /\ Post({Write(topup[r].user, "TOPUP", topup[r].coins, <<"topup", r>>)})
         ELSE UNCHANGED <<ledgerVars, topup>>
  /\ call' = [call EXCEPT ![c] = Idle]
  /\ UNCHANGED gateway

\* verifyTopup on a failed charge: FAILED only if still PENDING.
FailTopup(c) ==
  /\ Answered(c, "failed")
  /\ LET r == call[c].ref
     IN  topup' = IF topup[r].status = "PENDING"
                  THEN [topup EXCEPT ![r].status = "FAILED"] ELSE topup
  /\ call' = [call EXCEPT ![c] = Idle]
  /\ UNCHANGED <<ledgerVars, gateway>>

-----------------------------------------------------------------------------
(* Transfers.                                                              *)

OutKey(s, k) == <<"transfer", s, k, "out">>
InKey(s, k)  == <<"transfer", s, k, "in">>

OutEntry(s, k) == CHOOSE e \in ledger : e.key = OutKey(s, k)

TransferWrites(t) ==
  {Write(t.sender, "TRANSFER_OUT", -t.coins, OutKey(t.sender, t.key)),
   Write(t.recipient, "TRANSFER_IN", t.coins, InKey(t.sender, t.key))}

\* Mutant: a replay is told what it asked for.
ReplayedAsAsked(t) == [t EXCEPT !.op = "sent"]

\* What a replayed request is told: the coins of the transfer that happened.
Replayed(t) == [t EXCEPT !.op = "sent", !.coins = -OutEntry(t.sender, t.key).delta]

\* Mutant: a transfer to oneself is accepted.
BeginTransferToSelf(c, s, r, n, k) ==
  /\ call[c] = Idle
  /\ LET t == [op |-> "transfer", sender |-> s, recipient |-> r, coins |-> n, key |-> k]
     IN  call' = [call EXCEPT ![c] = IF OutKey(s, k) \in Keys THEN Replayed(t) ELSE t]
  /\ UNCHANGED <<ledgerVars, topup, gateway>>

\* transfer, up to the replay check: a key already used answers at once.
BeginTransfer(c, s, r, n, k) ==
  /\ call[c] = Idle
  /\ s # r
  /\ LET t == [op |-> "transfer", sender |-> s, recipient |-> r, coins |-> n, key |-> k]
     IN  call' = [call EXCEPT ![c] = IF OutKey(s, k) \in Keys THEN Replayed(t) ELSE t]
  /\ UNCHANGED <<ledgerVars, topup, gateway>>

\* transfer, the transaction: both entries or neither.
CommitTransfer(c) ==
  /\ call[c].op = "transfer"
  /\ Post(TransferWrites(call[c]))
  /\ call' = [call EXCEPT ![c].op = "sent"]
  /\ UNCHANGED <<topup, gateway>>

\* transfer, the unique violation: a request with the same key committed
\* between the replay check and the transaction, so answer with its result.
ReplayTransfer(c) ==
  /\ call[c].op = "transfer"
  /\ OutKey(call[c].sender, call[c].key) \in Keys
  /\ call' = [call EXCEPT ![c] = Replayed(call[c])]
  /\ UNCHANGED <<ledgerVars, topup, gateway>>

\* A request ends: its answer is read, it is refused (a mispaid settlement, a
\* transfer the wallet cannot cover), or the process or the client goes away.
EndCall(c) ==
  /\ call[c] # Idle
  /\ call' = [call EXCEPT ![c] = Idle]
  /\ UNCHANGED <<ledgerVars, topup, gateway>>

-----------------------------------------------------------------------------

WalletNext ==
  \/ \E r \in TopupRefs :
       \/ \E u \in Users, n \in TopupAmounts : StartTopup(u, r, n)
       \/ InitializeCharge(r)
       \/ \E outcome \in Answers : SettleCharge(r, outcome)
  \/ \E c \in Calls :
       \/ \E r \in TopupRefs : BeginVerify(c, r) \/ ReceiveWebhook(c, r)
       \/ AnswerVerify(c) \/ CreditTopup(c) \/ FailTopup(c)
       \/ \E s, r \in Users, n \in TransferAmounts, k \in TransferKeys :
            BeginTransfer(c, s, r, n, k)
       \/ CommitTransfer(c) \/ ReplayTransfer(c) \/ EndCall(c)

WalletStart == LedgerInit /\ WalletInit

WalletSpec == WalletStart /\ [][WalletNext]_<<ledgerVars, coinWalletVars>>

-----------------------------------------------------------------------------
(* Properties.                                                             *)

WalletTypeOK ==
  /\ LedgerTypeOK
  /\ topup \in [TopupRefs -> Topup \cup {NoTopup}]
  /\ gateway \in [TopupRefs -> Answers \cup {"none", "open"}]
  /\ call \in [Calls -> Call]

\* A top-up is PAID exactly when the ledger credits its buyer with its coins,
\* and only for a charge the gateway settled in full, however verify, retries
\* and webhooks race (creditTopup, reconcile).
TopupCreditedOnce ==
  \A r \in TopupRefs :
    LET credits == {e \in ledger : e.key = <<"topup", r>>}
    IN  IF Exists(r) /\ topup[r].status = "PAID"
        THEN /\ gateway[r] = "paid"
             /\ \E e \in credits : /\ credits = {e}
                                   /\ e.user = topup[r].user
                                   /\ e.delta = topup[r].coins
        ELSE credits = {}

\* A stale "failed" answer never takes back a top-up that a webhook has paid
\* in the meantime (verifyTopup updates only a PENDING row).
PaidIsFinal ==
  [][\A r \in TopupRefs : topup[r].status = "PAID" => topup'[r] = topup[r]]_topup

\* Each transfer key moved coins once, out of its sender and into one other
\* user, the same amount on both sides (transfer: both writes in one transaction).
TransfersBalance ==
  \A s \in Users, k \in TransferKeys :
    LET outs == {e \in ledger : e.key = OutKey(s, k)}
        ins  == {e \in ledger : e.key = InKey(s, k)}
    IN  \/ outs = {} /\ ins = {}
        \/ \E e \in outs, f \in ins :
             /\ outs = {e} /\ ins = {f}
             /\ e.user = s /\ f.user # s
             /\ e.delta < 0 /\ f.delta = -e.delta

\* A client told "sent" was charged once, for the coins the answer names, also
\* when its request lost the race with another one of the same key (transfer).
SentMeansCharged ==
  \A c \in Calls :
    call[c].op = "sent" =>
      \E e \in ledger : /\ e.key = OutKey(call[c].sender, call[c].key)
                        /\ e.user = call[c].sender
                        /\ e.delta = -call[c].coins

-----------------------------------------------------------------------------
(* Refinement: the tables, requests and retries implement CoinService.     *)

PaidTopups == {r \in TopupRefs : topup[r].status = "PAID"}

SentUnder(s, k) ==
  IF OutKey(s, k) \in Keys THEN [coins |-> -OutEntry(s, k).delta] ELSE [coins |-> 0]

Service == INSTANCE CoinService WITH
  worth    <- [u \in Users |-> Net(wallet[u])],
  credited <- PaidTopups,
  sent     <- [s \in Users |-> [k \in TransferKeys |-> SentUnder(s, k)]]

\* Every step of the wallet is one whole top-up, one whole transfer, or nothing
\* its users can see, and nobody ever sends coins they do not have.
ImplementsService == Service!Spec

=============================================================================
