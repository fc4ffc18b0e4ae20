-------------------------- MODULE CoinWalletProofs --------------------------
(***************************************************************************)
(* WalletService, for any number of users, requests, top-ups and keys: its *)
(* tables stay well formed, top-ups are credited once, and transfers move  *)
(* coins once, from one user to another; and for any edits and clicks of   *)
(* the web form over it, the coins of one form move once.                  *)
(***************************************************************************)
EXTENDS WalletPage, CoinLedgerProofs, FiniteSetTheorems

walletVars == <<ledgerVars, coinWalletVars>>

-----------------------------------------------------------------------------
(* Keys and writes.                                                        *)

\* The keys of a top-up and of the two sides of a transfer never collide.
LEMMA KeysApart ==
  /\ \A s, k, r : <<"topup", r>> # OutKey(s, k) /\ <<"topup", r>> # InKey(s, k)
  /\ \A s, k, t, l : OutKey(s, k) # InKey(t, l)
  /\ \A s, k, t, l : OutKey(s, k) = OutKey(t, l) => s = t /\ k = l
  /\ \A s, k, t, l : InKey(s, k) = InKey(t, l) => s = t /\ k = l
  /\ \A q, r : <<"topup", q>> = <<"topup", r>> => q = r
<1>1. \A s, k, r : /\ <<"topup", r>>[1] # OutKey(s, k)[1]
                   /\ <<"topup", r>>[1] # InKey(s, k)[1]
  BY DEF OutKey, InKey
<1>2. \A s, k, t, l : OutKey(s, k)[4] # InKey(t, l)[4]
  BY DEF OutKey, InKey
<1>3. \A s, k : /\ OutKey(s, k)[2] = s /\ OutKey(s, k)[3] = k
                /\ InKey(s, k)[2] = s /\ InKey(s, k)[3] = k
  BY DEF OutKey, InKey
<1> QED BY <1>1, <1>2, <1>3

\* creditTopup posts a transaction.
LEMMA TopupTransaction ==
  ASSUME NEW u \in Users, NEW n \in Nat \ {0}, NEW key
  PROVE  IsTransaction({Write(u, "TOPUP", n, key)})
BY DEF IsTransaction, IsWrite, Write, Kinds

\* transfer posts a transaction, provided nobody sends to themselves.
LEMMA TransferTransaction ==
  ASSUME NEW t \in TransferCall, t.sender # t.recipient
  PROVE  IsTransaction(TransferWrites(t))
<1> DEFINE out == Write(t.sender, "TRANSFER_OUT", -t.coins, OutKey(t.sender, t.key))
           in  == Write(t.recipient, "TRANSFER_IN", t.coins, InKey(t.sender, t.key))
<1>1. t.sender \in Users /\ t.recipient \in Users /\ t.coins \in Nat \ {0}
  BY WalletConstants DEF TransferCall
<1>2. IsWrite(out) /\ IsWrite(in)
  BY <1>1 DEF IsWrite, Write, Kinds
<1>3. out.user # in.user
  BY DEF Write
<1>4. out.key # in.key
  BY KeysApart DEF Write
<1> HIDE DEF out, in
<1>5. TransferWrites(t) = {out, in}
  BY DEF TransferWrites, out, in
<1> QED BY <1>2, <1>3, <1>4, <1>5 DEF IsTransaction

-----------------------------------------------------------------------------
(* The types, with what they rest on: who an outgoing entry belongs to,    *)
(* and that a transfer in flight has two ends.                             *)

OutEntriesAreSenders ==
  \A e \in ledger, s \in Users, k \in TransferKeys :
    e.key = OutKey(s, k) => e.user = s /\ -e.delta \in TransferAmounts

TwoEnds == \A c \in Calls : call[c].op = "transfer" => call[c].sender # call[c].recipient

TypeInv == WalletTypeOK /\ OutEntriesAreSenders /\ TwoEnds

\* The initial tables are empty.
LEMMA TypeInit == LedgerInit /\ WalletInit => TypeInv
BY DEF LedgerInit, WalletInit, TypeInv, WalletTypeOK, LedgerTypeOK, Row, Call,
       Idle, OutEntriesAreSenders, TwoEnds

\* A request in flight has the fields its operation needs.
LEMMA CallFields ==
  ASSUME WalletTypeOK, NEW c \in Calls
  PROVE  /\ call[c].op = "verify" => call[c].ref \in TopupRefs
         /\ call[c].op = "answered" => call[c].ref \in TopupRefs /\ call[c].answer \in Answers
         /\ call[c].op \in {"transfer", "sent"} => call[c] \in TransferCall
BY DEF WalletTypeOK, Call, Idle, TransferCall

\* A top-up row that exists has its fields.
LEMMA TopupFields ==
  ASSUME WalletTypeOK, NEW r \in TopupRefs,
         topup[r].status \in {"PENDING", "FAILED", "PAID"}
  PROVE  topup[r] \in Topup
BY DEF WalletTypeOK, NoTopup

\* An answer to a repeated key names a sender and an amount of the right types.
LEMMA ReplayedType ==
  ASSUME TypeInv, NEW t \in TransferCall, OutKey(t.sender, t.key) \in Keys
  PROVE  Replayed(t) \in Call /\ Replayed(t).op = "sent"
<1> DEFINE n == -OutEntry(t.sender, t.key).delta
<1>1. \E e \in ledger : e.key = OutKey(t.sender, t.key)
  BY DEF Keys
<1>2. /\ OutEntry(t.sender, t.key) \in ledger
      /\ OutEntry(t.sender, t.key).key = OutKey(t.sender, t.key)
  BY <1>1 DEF OutEntry
<1>3. t.sender \in Users /\ t.key \in TransferKeys
  BY DEF TransferCall
<1>4. n \in TransferAmounts
  BY <1>2, <1>3 DEF TypeInv, OutEntriesAreSenders
<1>5. Replayed(t) = [t EXCEPT !.op = "sent", !.coins = n]
  BY DEF Replayed
<1> QED BY <1>4, <1>5 DEF TransferCall, Call

\* Steps that leave the ledger alone keep what is said of it.
LEMMA LedgerUntouched ==
  ASSUME TypeInv, UNCHANGED ledgerVars
  PROVE  LedgerTypeOK' /\ OutEntriesAreSenders'
BY DEF TypeInv, WalletTypeOK, ledgerVars, LedgerTypeOK, OutEntriesAreSenders

\* A credited top-up keeps the types of the ledger.
LEMMA TopupPosted ==
  ASSUME TypeInv, NEW r \in TopupRefs, topup[r] \in Topup,
         Post({Write(topup[r].user, "TOPUP", topup[r].coins, <<"topup", r>>)})
  PROVE  LedgerTypeOK' /\ OutEntriesAreSenders'
<1> DEFINE w == Write(topup[r].user, "TOPUP", topup[r].coins, <<"topup", r>>)
<1>1. topup[r].user \in Users /\ topup[r].coins \in Nat \ {0}
  BY WalletConstants DEF Topup
<1>2. IsTransaction({w})
  BY <1>1, TopupTransaction
<1>3. LedgerTypeOK
  BY DEF TypeInv, WalletTypeOK
<1>4. LedgerTypeOK'
  BY <1>2, <1>3, PostType
<1>5. ASSUME NEW e \in ledger', NEW s \in Users, NEW k \in TransferKeys, e.key = OutKey(s, k)
      PROVE  e \in ledger
  <2>1. CASE e \in ledger' \ ledger
    <3>1. e = Entry(w, Applied(wallet[w.user], w))
      BY <1>2, <1>3, <2>1, PostEntries
    <3>2. e.key = <<"topup", r>>
      BY <3>1 DEF Entry, Write
    <3> QED BY <1>5, <3>2, KeysApart
  <2> QED BY <2>1
<1>6. OutEntriesAreSenders'
  BY <1>5 DEF TypeInv, OutEntriesAreSenders
<1> QED BY <1>4, <1>6

\* A committed transfer keeps the types of the ledger.
LEMMA TransferPosted ==
  ASSUME TypeInv, NEW t \in TransferCall, t.sender # t.recipient, Post(TransferWrites(t))
  PROVE  LedgerTypeOK' /\ OutEntriesAreSenders'
<1> DEFINE out == Write(t.sender, "TRANSFER_OUT", -t.coins, OutKey(t.sender, t.key))
           in  == Write(t.recipient, "TRANSFER_IN", t.coins, InKey(t.sender, t.key))
<1>1. IsTransaction(TransferWrites(t))
  BY TransferTransaction
<1>2. LedgerTypeOK
  BY DEF TypeInv, WalletTypeOK
<1>3. LedgerTypeOK'
  BY <1>1, <1>2, PostType
<1>4. TransferWrites(t) = {out, in}
  BY DEF TransferWrites
<1>5. ASSUME NEW e \in ledger', NEW s \in Users, NEW k \in TransferKeys, e.key = OutKey(s, k)
      PROVE  e.user = s /\ -e.delta \in TransferAmounts
  <2>1. CASE e \in ledger
    BY <1>5, <2>1 DEF TypeInv, OutEntriesAreSenders
  <2>2. CASE e \in ledger' \ ledger
    <3>1. \E w \in TransferWrites(t) : e = Entry(w, Applied(wallet[w.user], w))
      BY <1>1, <1>2, <2>2, PostEntries
    <3>2. CASE e = Entry(out, Applied(wallet[out.user], out))
      <4>1. e.key = OutKey(t.sender, t.key) /\ e.user = t.sender /\ e.delta = -t.coins
        BY <3>2 DEF Entry, Write
      <4>2. s = t.sender
        BY ZenonT(30), <1>5, <4>1, KeysApart
      <4>3. t.coins \in TransferAmounts
        BY DEF TransferCall
      <4>4. t.coins \in Nat
        BY <4>3, WalletConstants
      <4>5. -e.delta = t.coins
        BY <4>1, <4>4
      <4>6. -e.delta \in TransferAmounts
        BY <4>3, <4>5, Zenon
      <4>7. e.user = s
        BY <4>1, <4>2, Zenon
      <4> QED BY <4>6, <4>7, Zenon
    <3>3. CASE e = Entry(in, Applied(wallet[in.user], in))
      <4>1. e.key = InKey(t.sender, t.key)
        BY <3>3 DEF Entry, Write
      <4>2. InKey(t.sender, t.key) # OutKey(s, k)
        BY KeysApart
      <4> QED BY <1>5, <4>1, <4>2, Zenon
    <3> QED BY <1>4, <3>1, <3>2, <3>3
  <2> QED BY <2>1, <2>2
<1> QED BY <1>3, <1>5 DEF OutEntriesAreSenders

\* Every step keeps the types.
LEMMA TypeStep == TypeInv /\ [WalletNext]_walletVars => TypeInv'
<1> SUFFICES ASSUME TypeInv, [WalletNext]_walletVars
             PROVE  TypeInv'
  OBVIOUS
<1> USE DEF TypeInv
<1>1. ASSUME NEW r \in TopupRefs, NEW u \in Users, NEW n \in TopupAmounts, StartTopup(u, r, n)
      PROVE  TypeInv'
  <2>1. LedgerTypeOK' /\ OutEntriesAreSenders'
    BY <1>1, LedgerUntouched DEF StartTopup
  <2>2. topup' \in [TopupRefs -> Topup \cup {NoTopup}]
    BY <1>1 DEF StartTopup, WalletTypeOK, Topup
  <2> QED BY <1>1, <2>1, <2>2 DEF StartTopup, WalletTypeOK, TwoEnds
<1>2. ASSUME NEW r \in TopupRefs, InitializeCharge(r)
      PROVE  TypeInv'
  <2>1. LedgerTypeOK' /\ OutEntriesAreSenders'
    BY <1>2, LedgerUntouched DEF InitializeCharge
  <2> QED BY <1>2, <2>1 DEF InitializeCharge, WalletTypeOK, TwoEnds
<1>3. ASSUME NEW r \in TopupRefs, NEW outcome \in Answers, SettleCharge(r, outcome)
      PROVE  TypeInv'
  <2>1. LedgerTypeOK' /\ OutEntriesAreSenders'
    BY <1>3, LedgerUntouched DEF SettleCharge
  <2> QED BY <1>3, <2>1 DEF SettleCharge, WalletTypeOK, TwoEnds
<1>4. ASSUME NEW c \in Calls, NEW r \in TopupRefs, BeginVerify(c, r)
      PROVE  TypeInv'
  <2>1. LedgerTypeOK' /\ OutEntriesAreSenders'
    BY <1>4, LedgerUntouched DEF BeginVerify
  <2>2. [op |-> "verify", ref |-> r] \in Call
    BY DEF Call
  <2> QED BY <1>4, <2>1, <2>2 DEF BeginVerify, WalletTypeOK, TwoEnds
<1>5. ASSUME NEW c \in Calls, NEW r \in TopupRefs, ReceiveWebhook(c, r)
      PROVE  TypeInv'
  <2>1. LedgerTypeOK' /\ OutEntriesAreSenders'
    BY <1>5, LedgerUntouched DEF ReceiveWebhook
  <2>2. [op |-> "answered", ref |-> r, answer |-> gateway[r]] \in Call
    BY <1>5 DEF ReceiveWebhook, Call, Answers
  <2> QED BY <1>5, <2>1, <2>2 DEF ReceiveWebhook, WalletTypeOK, TwoEnds
<1>6. ASSUME NEW c \in Calls, AnswerVerify(c)
      PROVE  TypeInv'
  <2>1. LedgerTypeOK' /\ OutEntriesAreSenders'
    BY <1>6, LedgerUntouched DEF AnswerVerify
  <2>2. call[c].ref \in TopupRefs
    BY <1>6, CallFields DEF AnswerVerify
  <2>3. PICK next : /\ next = Idle \/ next.op = "answered"
                    /\ next \in Call
                    /\ call' = [call EXCEPT ![c] = next]
    <3> DEFINE r == call[c].ref
    <3>1. CASE gateway[r] \in Answers
      BY <1>6, <2>2, <3>1 DEF AnswerVerify, Call
    <3>2. CASE gateway[r] \notin Answers
      BY <1>6, <3>2 DEF AnswerVerify, Call
    <3> QED BY <3>1, <3>2
  <2> QED BY <1>6, <2>1, <2>3 DEF AnswerVerify, WalletTypeOK, TwoEnds, Idle
<1>7. ASSUME NEW c \in Calls, CreditTopup(c)
      PROVE  TypeInv'
  <2> DEFINE r == call[c].ref
  <2>1. r \in TopupRefs
    BY <1>7, CallFields DEF CreditTopup, Answered
  <2>2. call' = [call EXCEPT ![c] = Idle] /\ Idle \in Call
    BY <1>7 DEF CreditTopup, Call
  <2>3. CASE topup[r].status \in {"PENDING", "FAILED"}
    <3>1. topup[r] \in Topup
      BY <2>1, <2>3, TopupFields
    <3>2. LedgerTypeOK' /\ OutEntriesAreSenders'
      BY <1>7, <2>1, <2>3, <3>1, TopupPosted DEF CreditTopup
    <3>3. topup' \in [TopupRefs -> Topup \cup {NoTopup}]
      BY <1>7, <2>1, <2>3, <3>1 DEF CreditTopup, WalletTypeOK, Topup
    <3> QED BY <1>7, <2>2, <3>2, <3>3 DEF CreditTopup, WalletTypeOK, TwoEnds, Idle
  <2>4. CASE topup[r].status \notin {"PENDING", "FAILED"}
    <3>1. LedgerTypeOK' /\ OutEntriesAreSenders'
      BY <1>7, <2>4, LedgerUntouched DEF CreditTopup
    <3> QED BY <1>7, <2>2, <2>4, <3>1 DEF CreditTopup, WalletTypeOK, TwoEnds, Idle
  <2> QED BY <2>3, <2>4
<1>8. ASSUME NEW c \in Calls, FailTopup(c)
      PROVE  TypeInv'
  <2>1. LedgerTypeOK' /\ OutEntriesAreSenders'
    BY <1>8, LedgerUntouched DEF FailTopup
  <2>2. call[c].ref \in TopupRefs
    BY <1>8, CallFields DEF FailTopup, Answered
  <2>3. topup' \in [TopupRefs -> Topup \cup {NoTopup}]
    <3>1. CASE topup[call[c].ref].status = "PENDING"
      <4>1. topup[call[c].ref] \in Topup
        BY <2>2, <3>1, TopupFields
      <4> QED BY <1>8, <2>2, <3>1, <4>1 DEF FailTopup, WalletTypeOK, Topup
    <3>2. CASE topup[call[c].ref].status # "PENDING"
      BY <1>8, <3>2 DEF FailTopup, WalletTypeOK
    <3> QED BY <3>1, <3>2
  <2>4. call' = [call EXCEPT ![c] = Idle] /\ Idle \in Call
    BY <1>8 DEF FailTopup, Call
  <2> QED BY <1>8, <2>1, <2>3, <2>4 DEF FailTopup, WalletTypeOK, TwoEnds, Idle
<1>9. ASSUME NEW c \in Calls, NEW s \in Users, NEW r \in Users,
             NEW n \in TransferAmounts, NEW k \in TransferKeys, BeginTransfer(c, s, r, n, k)
      PROVE  TypeInv'
  <2> DEFINE t == [op |-> "transfer", sender |-> s, recipient |-> r, coins |-> n, key |-> k]
  <2>1. LedgerTypeOK' /\ OutEntriesAreSenders'
    BY <1>9, LedgerUntouched DEF BeginTransfer
  <2>2. t \in TransferCall /\ t \in Call
    BY DEF TransferCall, Call
  <2>3. CASE OutKey(s, k) \in Keys
    <3>1. Replayed(t) \in Call /\ Replayed(t).op = "sent"
      BY <2>2, <2>3, ReplayedType
    <3>2. call' = [call EXCEPT ![c] = Replayed(t)]
      BY <1>9, <2>3 DEF BeginTransfer
    <3> QED BY <1>9, <2>1, <3>1, <3>2 DEF BeginTransfer, WalletTypeOK, TwoEnds
  <2>4. CASE OutKey(s, k) \notin Keys
    <3>1. call' = [call EXCEPT ![c] = t] /\ t.sender # t.recipient
      BY <1>9, <2>4 DEF BeginTransfer
    <3> QED BY <1>9, <2>1, <2>2, <3>1 DEF BeginTransfer, WalletTypeOK, TwoEnds
  <2> QED BY <2>3, <2>4
<1>10. ASSUME NEW c \in Calls, CommitTransfer(c)
       PROVE  TypeInv'
  <2>1. call[c] \in TransferCall /\ call[c].sender # call[c].recipient
    BY <1>10, CallFields DEF CommitTransfer, TwoEnds
  <2>2. LedgerTypeOK' /\ OutEntriesAreSenders'
    BY <1>10, <2>1, TransferPosted DEF CommitTransfer
  <2>3. [call[c] EXCEPT !.op = "sent"] \in Call
    BY <2>1 DEF TransferCall, Call
  <2>4. call' = [call EXCEPT ![c] = [call[c] EXCEPT !.op = "sent"]]
    BY <1>10 DEF CommitTransfer
  <2>5. [call[c] EXCEPT !.op = "sent"].op = "sent"
    BY <2>1 DEF TransferCall
  <2> QED BY <1>10, <2>2, <2>3, <2>4, <2>5 DEF CommitTransfer, WalletTypeOK, TwoEnds
<1>11. ASSUME NEW c \in Calls, ReplayTransfer(c)
       PROVE  TypeInv'
  <2>1. LedgerTypeOK' /\ OutEntriesAreSenders'
    BY <1>11, LedgerUntouched DEF ReplayTransfer
  <2>2. Replayed(call[c]) \in Call /\ Replayed(call[c]).op = "sent"
    BY <1>11, CallFields, ReplayedType DEF ReplayTransfer
  <2> QED BY <1>11, <2>1, <2>2 DEF ReplayTransfer, WalletTypeOK, TwoEnds
<1>12. ASSUME NEW c \in Calls, EndCall(c)
       PROVE  TypeInv'
  <2>1. LedgerTypeOK' /\ OutEntriesAreSenders'
    BY <1>12, LedgerUntouched DEF EndCall
  <2>2. Idle \in Call
    BY DEF Call
  <2> QED BY <1>12, <2>1, <2>2 DEF EndCall, WalletTypeOK, TwoEnds, Idle
<1>13. CASE UNCHANGED walletVars
  <2>1. LedgerTypeOK' /\ OutEntriesAreSenders'
    BY <1>13, LedgerUntouched DEF walletVars
  <2> QED BY <1>13, <2>1 DEF walletVars, coinWalletVars, WalletTypeOK, TwoEnds
<1> QED BY <1>1, <1>2, <1>3, <1>4, <1>5, <1>6, <1>7, <1>8, <1>9, <1>10, <1>11, <1>12, <1>13
        DEF WalletNext

\* The tables and the requests of WalletService keep their types: in
\* particular a replayed transfer always finds an entry to answer from.
THEOREM WalletTypes == WalletSpec => []WalletTypeOK
<1>1. WalletSpec => []TypeInv
  BY TypeInit, TypeStep, PTL DEF WalletSpec, WalletStart, walletVars
<1>2. TypeInv => WalletTypeOK
  BY DEF TypeInv
<1> QED BY <1>1, <1>2, PTL

-----------------------------------------------------------------------------
(* Every step is quiet, credits one top-up, or commits one transfer.       *)

PaidAnswersAreTrue == \A c \in Calls : Answered(c, "paid") => gateway[call[c].ref] = "paid"

CallInv == TypeInv /\ PaidAnswersAreTrue

\* The steps of the request in slot c.
Handles(c) ==
  \/ \E r \in TopupRefs : BeginVerify(c, r) \/ ReceiveWebhook(c, r)
  \/ AnswerVerify(c) \/ CreditTopup(c) \/ FailTopup(c)
  \/ \E s, r \in Users, n \in TransferAmounts, k \in TransferKeys :
       BeginTransfer(c, s, r, n, k)
  \/ CommitTransfer(c) \/ ReplayTransfer(c) \/ EndCall(c)

\* No coins move, and no top-up becomes or ceases to be PAID.
Quiet ==
  /\ UNCHANGED ledgerVars
  /\ \A r \in TopupRefs : topup[r].status = "PAID" \/ topup'[r].status = "PAID" =>
                            topup'[r] = topup[r]
  /\ \A r \in TopupRefs : gateway[r] = "paid" => gateway'[r] = "paid"

Credits(r) ==
  /\ topup[r] \in Topup /\ topup[r].status # "PAID" /\ gateway[r] = "paid"
  /\ Post({Write(topup[r].user, "TOPUP", topup[r].coins, <<"topup", r>>)})
  /\ topup' = [topup EXCEPT ![r].status = "PAID"]
  /\ gateway' = gateway

\* A settled charge stays settled, so a "paid" answer is never out of date.
LEMMA CallInvStep == CallInv /\ [WalletNext]_walletVars => CallInv'
<1> SUFFICES ASSUME CallInv, [WalletNext]_walletVars
             PROVE  PaidAnswersAreTrue'
  BY TypeStep DEF CallInv
<1> USE DEF CallInv
<1>1. \A r \in TopupRefs : gateway[r] = "paid" => gateway'[r] = "paid"
  BY DEF WalletNext, StartTopup, InitializeCharge, SettleCharge, BeginVerify, AnswerVerify,
         ReceiveWebhook, CreditTopup, FailTopup, BeginTransfer, CommitTransfer,
         ReplayTransfer, EndCall, walletVars, coinWalletVars, TypeInv, WalletTypeOK
<1>2. SUFFICES ASSUME NEW c \in Calls, Answered(c, "paid")'
               PROVE  gateway'[call'[c].ref] = "paid"
  BY DEF PaidAnswersAreTrue
<1>3. CASE call'[c] = call[c]
  <2>1. Answered(c, "paid") /\ call'[c].ref = call[c].ref
    BY <1>2, <1>3 DEF Answered
  <2>2. call[c].ref \in TopupRefs
    BY <2>1, CallFields DEF Answered, TypeInv
  <2> QED BY <1>1, <2>1, <2>2 DEF PaidAnswersAreTrue
<1>4. CASE call'[c] # call[c]
  <2>1. ASSUME NEW r \in TopupRefs, ReceiveWebhook(c, r)
        PROVE  gateway'[call'[c].ref] = "paid"
    BY <1>2, <2>1 DEF ReceiveWebhook, Answered, TypeInv, WalletTypeOK
  <2>2. ASSUME AnswerVerify(c)
        PROVE  gateway'[call'[c].ref] = "paid"
    <3>1. gateway[call[c].ref] \in Answers
      BY <1>2, <2>2 DEF AnswerVerify, Answered, TypeInv, WalletTypeOK, Idle
    <3> QED BY <1>2, <2>2, <3>1 DEF AnswerVerify, Answered, TypeInv, WalletTypeOK
  <2>3. ASSUME NEW s \in Users, NEW r \in Users, NEW n \in TransferAmounts,
               NEW k \in TransferKeys, BeginTransfer(c, s, r, n, k)
        PROVE  call'[c].op \in {"transfer", "sent"}
    <3> DEFINE t == [op |-> "transfer", sender |-> s, recipient |-> r, coins |-> n, key |-> k]
    <3>1. t \in TransferCall
      BY DEF TransferCall
    <3>2. OutKey(s, k) \in Keys => Replayed(t).op = "sent"
      BY <3>1, ReplayedType
    <3> QED BY <2>3, <3>2 DEF BeginTransfer, TypeInv, WalletTypeOK
  <2>4. ASSUME ReplayTransfer(c)
        PROVE  call'[c].op = "sent"
    <3>1. Replayed(call[c]).op = "sent"
      BY <2>4, CallFields, ReplayedType DEF ReplayTransfer, TypeInv
    <3> QED BY <2>4, <3>1 DEF ReplayTransfer, TypeInv, WalletTypeOK
  <2>5. ASSUME CommitTransfer(c)
        PROVE  call'[c].op = "sent"
    <3>1. call[c] \in TransferCall
      BY <2>5, CallFields DEF CommitTransfer, TypeInv
    <3> QED BY <2>5, <3>1 DEF CommitTransfer, TransferCall, TypeInv, WalletTypeOK
  <2>6. ASSUME \/ \E r \in TopupRefs : BeginVerify(c, r)
               \/ CreditTopup(c) \/ FailTopup(c) \/ EndCall(c)
        PROVE  call'[c].op \in {"verify", "idle"}
    BY <2>6 DEF BeginVerify, CreditTopup, FailTopup, EndCall, Idle, TypeInv, WalletTypeOK
  <2>7. Handles(c)
    <3>1. ASSUME NEW d \in Calls, d # c, Handles(d)
          PROVE  call'[c] = call[c]
      <4>1. \E x : call' = [call EXCEPT ![d] = x]
        BY <3>1 DEF Handles, BeginVerify, AnswerVerify, ReceiveWebhook, CreditTopup, FailTopup,
                    BeginTransfer, CommitTransfer, ReplayTransfer, EndCall
      <4> QED BY <3>1, <4>1 DEF TypeInv, WalletTypeOK
    <3>2. \/ \E d \in Calls : Handles(d)
          \/ UNCHANGED call
      BY DEF WalletNext, Handles, StartTopup, InitializeCharge, SettleCharge, walletVars, coinWalletVars
    <3> QED BY <1>4, <3>1, <3>2
  <2>8. call'[c].op = "answered"
    BY <1>2 DEF Answered
  <2> QED BY <2>1, <2>2, <2>3, <2>4, <2>5, <2>6, <2>7, <2>8 DEF Handles
<1> QED BY <1>3, <1>4

\* The three kinds of steps, as far as top-ups and the ledger are concerned.
LEMMA StepKinds ==
  ASSUME CallInv, [WalletNext]_walletVars
  PROVE  \/ Quiet
         \/ \E r \in TopupRefs : Credits(r)
         \/ \E c \in Calls : CommitTransfer(c)
<1> USE DEF CallInv
<1>1. ASSUME NEW r \in TopupRefs,
             \/ \E u \in Users, n \in TopupAmounts : StartTopup(u, r, n)
             \/ InitializeCharge(r)
             \/ \E outcome \in Answers : SettleCharge(r, outcome)
      PROVE  Quiet
  BY <1>1 DEF Quiet, StartTopup, InitializeCharge, SettleCharge, Exists, NoTopup,
              TypeInv, WalletTypeOK
<1>2. ASSUME NEW c \in Calls, CreditTopup(c)
      PROVE  Quiet \/ \E r \in TopupRefs : Credits(r)
  <2> DEFINE r == call[c].ref
  <2>1. r \in TopupRefs
    BY <1>2, CallFields DEF CreditTopup, Answered, TypeInv
  <2>2. CASE topup[r].status \in {"PENDING", "FAILED"}
    <3>1. topup[r] \in Topup
      BY <2>1, <2>2, TopupFields DEF TypeInv
    <3>2. gateway[r] = "paid"
      BY <1>2 DEF CreditTopup, PaidAnswersAreTrue
    <3>3. Credits(r)
      BY <1>2, <2>2, <3>1, <3>2 DEF CreditTopup, Credits
    <3> QED BY <2>1, <3>3
  <2>3. CASE topup[r].status \notin {"PENDING", "FAILED"}
    BY <1>2, <2>3 DEF CreditTopup, Quiet
  <2> QED BY <2>2, <2>3
<1>3. ASSUME NEW c \in Calls, FailTopup(c)
      PROVE  Quiet
  <2>1. call[c].ref \in TopupRefs
    BY <1>3, CallFields DEF FailTopup, Answered, TypeInv
  <2>2. CASE topup[call[c].ref].status = "PENDING"
    <3>1. topup[call[c].ref] \in Topup
      BY <2>1, <2>2, TopupFields DEF TypeInv
    <3>2. topup' = [topup EXCEPT ![call[c].ref].status = "FAILED"]
      BY <1>3, <2>2 DEF FailTopup
    <3>3. topup'[call[c].ref].status = "FAILED"
      BY <2>1, <3>1, <3>2 DEF TypeInv, WalletTypeOK, Topup
    <3> QED BY <1>3, <2>2, <3>2, <3>3 DEF FailTopup, Quiet, TypeInv, WalletTypeOK
  <2>3. CASE topup[call[c].ref].status # "PENDING"
    BY <1>3, <2>3 DEF FailTopup, Quiet
  <2> QED BY <2>2, <2>3
<1>4. ASSUME NEW c \in Calls,
             \/ \E r \in TopupRefs : BeginVerify(c, r) \/ ReceiveWebhook(c, r)
             \/ AnswerVerify(c) \/ ReplayTransfer(c) \/ EndCall(c)
             \/ \E s, r \in Users, n \in TransferAmounts, k \in TransferKeys :
                  BeginTransfer(c, s, r, n, k)
      PROVE  UNCHANGED <<ledgerVars, topup, gateway>>
  BY <1>4 DEF BeginVerify, ReceiveWebhook, AnswerVerify, ReplayTransfer, EndCall, BeginTransfer
<1>5. UNCHANGED <<ledgerVars, topup, gateway>> => Quiet
  BY DEF Quiet
<1>6. UNCHANGED walletVars => UNCHANGED <<ledgerVars, topup, gateway>>
  BY DEF walletVars, coinWalletVars
<1> QED BY <1>1, <1>2, <1>3, <1>4, <1>5, <1>6 DEF WalletNext

\* Under a top-up's key the ledger holds what it held, and the credit.
LEMMA TopupEntries ==
  ASSUME TypeInv, NEW r \in TopupRefs, Credits(r)
  PROVE  LET w == Write(topup[r].user, "TOPUP", topup[r].coins, <<"topup", r>>)
         IN  /\ IsTransaction({w}) /\ Post({w})
             /\ ledger' = ledger \cup {Entry(w, Applied(wallet[w.user], w))}
<1>1. topup[r].user \in Users /\ topup[r].coins \in Nat \ {0}
  BY WalletConstants DEF Credits, Topup
<1> QED BY <1>1, TopupTransaction DEF Credits, Post

\* A committed transfer posts its two entries.
LEMMA TransferEntries ==
  ASSUME TypeInv, NEW c \in Calls, CommitTransfer(c)
  PROVE  LET t   == call[c]
             out == Write(t.sender, "TRANSFER_OUT", -t.coins, OutKey(t.sender, t.key))
             in  == Write(t.recipient, "TRANSFER_IN", t.coins, InKey(t.sender, t.key))
         IN  /\ t \in TransferCall /\ t.sender # t.recipient
             /\ IsTransaction({out, in}) /\ Post({out, in})
             /\ ledger' = ledger \cup {Entry(out, Applied(wallet[out.user], out)),
                                       Entry(in, Applied(wallet[in.user], in))}
<1> DEFINE t   == call[c]
           out == Write(t.sender, "TRANSFER_OUT", -t.coins, OutKey(t.sender, t.key))
           in  == Write(t.recipient, "TRANSFER_IN", t.coins, InKey(t.sender, t.key))
<1>1. t \in TransferCall /\ t.sender # t.recipient
  BY CallFields DEF CommitTransfer, TypeInv, TwoEnds
<1>2. TransferWrites(t) = {out, in}
  BY DEF TransferWrites
<1>3. IsTransaction({out, in}) /\ Post({out, in})
  BY <1>1, <1>2, TransferTransaction DEF CommitTransfer
<1> HIDE DEF out, in
<1>4. ledger' = ledger \cup {Entry(out, Applied(wallet[out.user], out)),
                             Entry(in, Applied(wallet[in.user], in))}
  BY <1>3 DEF Post
<1> QED BY <1>1, <1>3, <1>4 DEF out, in

\* Every step of the wallet is one transaction on the ledger, or none.
LEMMA StepPosts ==
  ASSUME CallInv, [WalletNext]_walletVars
  PROVE  \/ UNCHANGED ledgerVars
         \/ \E writes : IsTransaction(writes) /\ Post(writes)
<1>1. TypeInv
  BY DEF CallInv
<1>2. ASSUME NEW r \in TopupRefs, Credits(r)
      PROVE  \E writes : IsTransaction(writes) /\ Post(writes)
  BY <1>1, <1>2, TopupEntries
<1>3. ASSUME NEW c \in Calls, CommitTransfer(c)
      PROVE  \E writes : IsTransaction(writes) /\ Post(writes)
  BY <1>1, <1>3, TransferEntries
<1> QED BY <1>2, <1>3, StepKinds DEF Quiet

-----------------------------------------------------------------------------
(* The ledger.                                                             *)

LedgerInv == CallInv /\ OneEntryPerKey /\ WalletRowsAreLegal

\* Nothing is in flight and nothing is written at first.
LEMMA LedgerInvInit == LedgerInit /\ WalletInit => LedgerInv
<1> SUFFICES ASSUME LedgerInit, WalletInit PROVE LedgerInv
  OBVIOUS
<1>1. TypeInv
  BY TypeInit
<1>2. PaidAnswersAreTrue
  BY DEF WalletInit, PaidAnswersAreTrue, Answered, Idle
<1>3. OneEntryPerKey /\ WalletRowsAreLegal
  BY LedgerConstants DEF LedgerInit, OneEntryPerKey, WalletRowsAreLegal
<1> QED BY <1>1, <1>2, <1>3 DEF LedgerInv, CallInv

\* Every step keeps the keys unique and the rows legal.
LEMMA LedgerInvStep == LedgerInv /\ [WalletNext]_walletVars => LedgerInv'
<1> SUFFICES ASSUME LedgerInv, [WalletNext]_walletVars
             PROVE  OneEntryPerKey' /\ WalletRowsAreLegal'
  BY CallInvStep DEF LedgerInv
<1>1. LedgerTypeOK
  BY DEF LedgerInv, CallInv, TypeInv, WalletTypeOK
<1>2. CASE UNCHANGED ledgerVars
  BY <1>2 DEF LedgerInv, ledgerVars, OneEntryPerKey, WalletRowsAreLegal
<1>3. ASSUME NEW writes, IsTransaction(writes), Post(writes)
      PROVE  OneEntryPerKey' /\ WalletRowsAreLegal'
  BY <1>1, <1>3, PostKeys, PostLegal DEF LedgerInv
<1> QED BY <1>2, <1>3, StepPosts DEF LedgerInv

\* In every run of WalletService an idempotency key names one movement.
THEOREM KeysAreUnique == WalletSpec => []OneEntryPerKey
<1>1. WalletSpec => []LedgerInv
  BY LedgerInvInit, LedgerInvStep, PTL DEF WalletSpec, WalletStart, walletVars
<1>2. LedgerInv => OneEntryPerKey
  BY DEF LedgerInv
<1> QED BY <1>1, <1>2, PTL

\* No transfer and no top-up makes a wallet row its CHECK constraints refuse.
THEOREM RowsStayLegal == WalletSpec => []WalletRowsAreLegal
<1>1. WalletSpec => []LedgerInv
  BY LedgerInvInit, LedgerInvStep, PTL DEF WalletSpec, WalletStart, walletVars
<1>2. LedgerInv => WalletRowsAreLegal
  BY DEF LedgerInv
<1> QED BY <1>1, <1>2, PTL

\* No coin of a wallet moves without the entry that explains it.
THEOREM MovesAreJournalled == WalletSpec => EveryMoveIsJournalled
<1>1. WalletSpec => []LedgerInv
  BY LedgerInvInit, LedgerInvStep, PTL DEF WalletSpec, WalletStart, walletVars
<1>2. LedgerInv /\ [WalletNext]_walletVars => [JournalStep]_ledgerVars
  <2> SUFFICES ASSUME LedgerInv, [WalletNext]_walletVars
               PROVE  [JournalStep]_ledgerVars
    OBVIOUS
  <2>1. LedgerTypeOK
    BY DEF LedgerInv, CallInv, TypeInv, WalletTypeOK
  <2>2. ASSUME NEW writes, IsTransaction(writes), Post(writes)
        PROVE  JournalStep
    BY <2>1, <2>2, PostJournals
  <2> QED BY <2>2, StepPosts DEF LedgerInv
<1> QED BY <1>1, <1>2, PTL DEF WalletSpec, WalletStart, walletVars, EveryMoveIsJournalled

-----------------------------------------------------------------------------
(* Top-ups.                                                                *)

CreditsOf(r) == {e \in ledger : e.key = <<"topup", r>>}

CreditedOnce(r) ==
  IF Exists(r) /\ topup[r].status = "PAID"
  THEN /\ gateway[r] = "paid"
       /\ \E e \in CreditsOf(r) : /\ CreditsOf(r) = {e}
                                  /\ e.user = topup[r].user
                                  /\ e.delta = topup[r].coins
  ELSE CreditsOf(r) = {}

TopupInv == LedgerInv /\ \A r \in TopupRefs : CreditedOnce(r)

\* Every step keeps each top-up credited as often as it is PAID.
LEMMA TopupInvStep == TopupInv /\ [WalletNext]_walletVars => TopupInv'
<1> SUFFICES ASSUME TopupInv, [WalletNext]_walletVars, NEW q \in TopupRefs
             PROVE  CreditedOnce(q)'
  BY LedgerInvStep DEF TopupInv
<1>0. LedgerInv /\ CallInv /\ TypeInv /\ WalletTypeOK /\ CreditedOnce(q)
  BY DEF TopupInv, LedgerInv, CallInv, TypeInv
<1>1. CASE Quiet
  <2>1. CreditsOf(q)' = CreditsOf(q)
    BY <1>1 DEF Quiet, ledgerVars, CreditsOf
  <2>2. CASE topup[q].status = "PAID"
    BY <1>0, <1>1, <2>1, <2>2 DEF Quiet, CreditedOnce, Exists
  <2>3. CASE topup[q].status # "PAID"
    <3>1. topup'[q].status # "PAID"
      BY <1>1, <2>3 DEF Quiet
    <3> QED BY <1>0, <2>1, <2>3, <3>1 DEF CreditedOnce, Exists
  <2> QED BY <2>2, <2>3
<1>2. ASSUME NEW r \in TopupRefs, Credits(r)
      PROVE  CreditedOnce(q)'
  <2> DEFINE w == Write(topup[r].user, "TOPUP", topup[r].coins, <<"topup", r>>)
             e == Entry(w, Applied(wallet[w.user], w))
  <2>1. ledger' = ledger \cup {e}
    BY <1>0, <1>2, TopupEntries
  <2>2. e.key = <<"topup", r>> /\ e.user = topup[r].user /\ e.delta = topup[r].coins
    BY DEF Entry, Write
  <2> HIDE DEF e
  <2>3. CASE q = r
    <3>1. CreditsOf(r) = {}
      BY <1>0, <1>2, <2>3 DEF CreditedOnce, Credits
    <3>2. CreditsOf(r)' = {e}
      BY <2>1, <2>2, <3>1 DEF CreditsOf
    <3>3. /\ topup'[r].status = "PAID"
          /\ topup'[r].user = topup[r].user
          /\ topup'[r].coins = topup[r].coins
      BY <1>0, <1>2 DEF Credits, WalletTypeOK, Topup
    <3>4. topup'[r] # NoTopup
      BY <3>3 DEF NoTopup
    <3>5. gateway'[r] = "paid"
      BY <1>2 DEF Credits
    <3> QED BY <2>2, <2>3, <3>2, <3>3, <3>4, <3>5 DEF CreditedOnce, Exists
  <2>4. CASE q # r
    <3>1. CreditsOf(q)' = CreditsOf(q)
      BY <2>1, <2>2, <2>4, KeysApart DEF CreditsOf
    <3>2. topup'[q] = topup[q] /\ gateway'[q] = gateway[q]
      BY <1>0, <1>2, <2>4 DEF Credits, WalletTypeOK
    <3> QED BY <1>0, <3>1, <3>2 DEF CreditedOnce, Exists
  <2> QED BY <2>3, <2>4
<1>3. ASSUME NEW c \in Calls, CommitTransfer(c)
      PROVE  CreditedOnce(q)'
  <2> DEFINE t   == call[c]
             out == Write(t.sender, "TRANSFER_OUT", -t.coins, OutKey(t.sender, t.key))
             in  == Write(t.recipient, "TRANSFER_IN", t.coins, InKey(t.sender, t.key))
             e   == Entry(out, Applied(wallet[out.user], out))
             f   == Entry(in, Applied(wallet[in.user], in))
  <2>1. ledger' = ledger \cup {e, f}
    BY <1>0, <1>3, TransferEntries
  <2>2. e.key = OutKey(t.sender, t.key) /\ f.key = InKey(t.sender, t.key)
    BY DEF Entry, Write
  <2> HIDE DEF e, f
  <2>3. e.key # <<"topup", q>> /\ f.key # <<"topup", q>>
    BY <2>2, KeysApart
  <2>4. CreditsOf(q)' = CreditsOf(q)
    BY <2>1, <2>3 DEF CreditsOf
  <2>5. topup' = topup /\ gateway' = gateway
    BY <1>3 DEF CommitTransfer
  <2> QED BY <1>0, <2>4, <2>5 DEF CreditedOnce, Exists
<1> QED BY <1>0, <1>1, <1>2, <1>3, StepKinds

\* However verify, retries and webhooks race, a top-up is PAID exactly when its
\* buyer has been credited with its coins, once, for a charge settled in full.
THEOREM TopupsAreCreditedOnce == WalletSpec => []TopupCreditedOnce
<1>1. LedgerInit /\ WalletInit => TopupInv
  <2> SUFFICES ASSUME LedgerInit, WalletInit PROVE TopupInv
    OBVIOUS
  <2>1. \A r \in TopupRefs : CreditsOf(r) = {} /\ ~Exists(r)
    BY DEF LedgerInit, WalletInit, CreditsOf, Exists
  <2> QED BY <2>1, LedgerInvInit DEF TopupInv, CreditedOnce
<1>2. WalletSpec => []TopupInv
  BY <1>1, TopupInvStep, PTL DEF WalletSpec, WalletStart, walletVars
<1>3. TopupInv => TopupCreditedOnce
  BY DEF TopupInv, CreditedOnce, CreditsOf, TopupCreditedOnce
<1> QED BY <1>2, <1>3, PTL

\* A PAID top-up is never taken back, whatever stale answers arrive.
THEOREM PaidStaysPaid == WalletSpec => PaidIsFinal
<1>1. WalletSpec => []LedgerInv
  BY LedgerInvInit, LedgerInvStep, PTL DEF WalletSpec, WalletStart, walletVars
<1>2. ASSUME LedgerInv, [WalletNext]_walletVars, NEW q \in TopupRefs, topup[q].status = "PAID"
      PROVE  topup'[q] = topup[q]
  <2>1. CallInv /\ TypeInv /\ WalletTypeOK
    BY <1>2 DEF LedgerInv, CallInv, TypeInv
  <2>2. CASE Quiet
    BY <1>2, <2>2 DEF Quiet
  <2>3. ASSUME NEW r \in TopupRefs, Credits(r)
        PROVE  topup'[q] = topup[q]
    BY <1>2, <2>1, <2>3 DEF Credits, WalletTypeOK
  <2>4. ASSUME NEW c \in Calls, CommitTransfer(c)
        PROVE  topup'[q] = topup[q]
    BY <2>4 DEF CommitTransfer
  <2> QED BY <1>2, <2>1, <2>2, <2>3, <2>4, StepKinds
<1>3. LedgerInv /\ [WalletNext]_walletVars =>
        [\A r \in TopupRefs : topup[r].status = "PAID" => topup'[r] = topup[r]]_topup
  BY <1>2
<1> QED BY <1>1, <1>3, PTL DEF WalletSpec, WalletStart, walletVars, PaidIsFinal

-----------------------------------------------------------------------------
(* Transfers.                                                              *)

Outs(s, k) == {e \in ledger : e.key = OutKey(s, k)}
Ins(s, k)  == {e \in ledger : e.key = InKey(s, k)}

Balanced(s, k) ==
  \/ Outs(s, k) = {} /\ Ins(s, k) = {}
  \/ \E e \in Outs(s, k), f \in Ins(s, k) :
       /\ Outs(s, k) = {e} /\ Ins(s, k) = {f}
       /\ e.user = s /\ f.user # s
       /\ e.delta < 0 /\ f.delta = -e.delta

TransferInv == LedgerInv /\ \A s \in Users, k \in TransferKeys : Balanced(s, k)

\* Every step keeps both sides of each transfer key the same.
LEMMA TransferInvStep == TransferInv /\ [WalletNext]_walletVars => TransferInv'
<1> SUFFICES ASSUME TransferInv, [WalletNext]_walletVars, NEW s \in Users, NEW k \in TransferKeys
             PROVE  Balanced(s, k)'
  BY LedgerInvStep DEF TransferInv
<1>0. LedgerInv /\ CallInv /\ TypeInv /\ Balanced(s, k)
  BY DEF TransferInv, LedgerInv, CallInv
<1>1. CASE UNCHANGED ledgerVars
  BY <1>0, <1>1 DEF ledgerVars, Balanced, Outs, Ins
<1>2. ASSUME NEW r \in TopupRefs, Credits(r)
      PROVE  Balanced(s, k)'
  <2> DEFINE w == Write(topup[r].user, "TOPUP", topup[r].coins, <<"topup", r>>)
             e == Entry(w, Applied(wallet[w.user], w))
  <2>1. ledger' = ledger \cup {e}
    BY <1>0, <1>2, TopupEntries
  <2>2. e.key = <<"topup", r>>
    BY DEF Entry, Write
  <2> HIDE DEF e
  <2>3. e.key # OutKey(s, k) /\ e.key # InKey(s, k)
    BY <2>2, KeysApart
  <2>4. Outs(s, k)' = Outs(s, k) /\ Ins(s, k)' = Ins(s, k)
    BY <2>1, <2>3 DEF Outs, Ins
  <2> QED BY <1>0, <2>4 DEF Balanced
<1>3. ASSUME NEW c \in Calls, CommitTransfer(c)
      PROVE  Balanced(s, k)'
  <2> DEFINE t   == call[c]
             out == Write(t.sender, "TRANSFER_OUT", -t.coins, OutKey(t.sender, t.key))
             in  == Write(t.recipient, "TRANSFER_IN", t.coins, InKey(t.sender, t.key))
             e   == Entry(out, Applied(wallet[out.user], out))
             f   == Entry(in, Applied(wallet[in.user], in))
  <2>1. /\ t \in TransferCall /\ t.sender # t.recipient
        /\ ledger' = ledger \cup {e, f}
        /\ IsTransaction({out, in}) /\ Post({out, in})
    BY <1>0, <1>3, TransferEntries
  <2>2. /\ e.key = OutKey(t.sender, t.key) /\ f.key = InKey(t.sender, t.key)
        /\ e.user = t.sender /\ f.user = t.recipient
        /\ e.delta = -t.coins /\ f.delta = t.coins
        /\ out.key = OutKey(t.sender, t.key) /\ in.key = InKey(t.sender, t.key)
    BY DEF Entry, Write
  <2>3. \A x \in ledger : x.key # OutKey(t.sender, t.key) /\ x.key # InKey(t.sender, t.key)
    BY <2>1, <2>2 DEF Post, CanPost, Keys
  <2> HIDE DEF e, f, out, in
  <2>4. CASE s = t.sender /\ k = t.key
    <3>1. Outs(s, k)' = {e}
      BY <2>1, <2>2, <2>3, <2>4, KeysApart DEF Outs
    <3>2. Ins(s, k)' = {f}
      BY <2>1, <2>2, <2>3, <2>4, KeysApart DEF Ins
    <3>3. t.coins \in Nat \ {0}
      BY <2>1, WalletConstants DEF TransferCall
    <3>4. e.delta < 0 /\ f.delta = -e.delta
      BY <2>2, <3>3
    <3>5. e.user = s /\ f.user # s
      BY <2>1, <2>2, <2>4
    <3> QED BY <3>1, <3>2, <3>4, <3>5 DEF Balanced
  <2>5. CASE ~(s = t.sender /\ k = t.key)
    <3>1. /\ OutKey(s, k) # OutKey(t.sender, t.key) /\ InKey(s, k) # InKey(t.sender, t.key)
          /\ OutKey(s, k) # InKey(t.sender, t.key) /\ InKey(s, k) # OutKey(t.sender, t.key)
      BY <2>5, KeysApart
    <3>2. Outs(s, k)' = Outs(s, k) /\ Ins(s, k)' = Ins(s, k)
      BY <2>1, <2>2, <3>1 DEF Outs, Ins
    <3> QED BY <1>0, <3>2 DEF Balanced
  <2> QED BY <2>4, <2>5
<1> QED BY <1>0, <1>1, <1>2, <1>3, StepKinds DEF Quiet

\* A transfer key takes coins out of its sender once, and gives one other user
\* the same coins; no request, retry or race leaves one side without the other.
THEOREM TransfersAlwaysBalance == WalletSpec => []TransfersBalance
<1>1. LedgerInit /\ WalletInit => TransferInv
  BY LedgerInvInit DEF LedgerInit, TransferInv, Balanced, Outs, Ins
<1>2. WalletSpec => []TransferInv
  BY <1>1, TransferInvStep, PTL DEF WalletSpec, WalletStart, walletVars
<1>3. TransferInv => TransfersBalance
  BY DEF TransferInv, Balanced, Outs, Ins, TransfersBalance
<1> QED BY <1>2, <1>3, PTL

Charged(t) ==
  \E e \in ledger : /\ e.key = OutKey(t.sender, t.key)
                    /\ e.user = t.sender
                    /\ e.delta = -t.coins

SentInv == LedgerInv /\ \A c \in Calls : call[c].op = "sent" => Charged(call[c])

\* An answer taken from the ledger names what its entry charged.
LEMMA ReplayedCharged ==
  ASSUME TypeInv, NEW t \in TransferCall, OutKey(t.sender, t.key) \in Keys
  PROVE  Charged(Replayed(t))
<1> DEFINE e == OutEntry(t.sender, t.key)
<1>1. e \in ledger /\ e.key = OutKey(t.sender, t.key)
  BY DEF Keys, OutEntry
<1>2. t.sender \in Users /\ t.key \in TransferKeys
  BY DEF TransferCall
<1>3. e.user = t.sender /\ e.delta \in Int
  BY <1>1, <1>2 DEF TypeInv, OutEntriesAreSenders, WalletTypeOK, LedgerTypeOK
<1>4. /\ Replayed(t).sender = t.sender /\ Replayed(t).key = t.key
      /\ Replayed(t).coins = -e.delta
  BY DEF Replayed, TransferCall
<1> HIDE DEF e
<1>5. e.delta = -Replayed(t).coins
  BY <1>3, <1>4
<1> QED BY <1>1, <1>3, <1>4, <1>5 DEF Charged

\* Every step keeps "sent" answers true.
LEMMA SentInvStep == SentInv /\ [WalletNext]_walletVars => SentInv'
<1> SUFFICES ASSUME SentInv, [WalletNext]_walletVars, NEW c \in Calls, call'[c].op = "sent"
             PROVE  Charged(call[c])'
  BY LedgerInvStep DEF SentInv
<1>0. LedgerInv /\ CallInv /\ TypeInv /\ WalletTypeOK /\ LedgerTypeOK
  BY DEF SentInv, LedgerInv, CallInv, TypeInv, WalletTypeOK
<1>1. ledger \subseteq ledger'
  <2>1. CASE UNCHANGED ledgerVars
    BY <2>1 DEF ledgerVars
  <2>2. ASSUME NEW writes, IsTransaction(writes), Post(writes)
        PROVE  ledger \subseteq ledger'
    BY <1>0, <2>2, PostEntries
  <2> QED BY <1>0, <2>1, <2>2, StepPosts
<1>2. CASE call'[c] = call[c]
  BY <1>1, <1>2 DEF SentInv, Charged
<1>3. CASE call'[c] # call[c]
  <2>1. ASSUME NEW s \in Users, NEW r \in Users, NEW n \in TransferAmounts,
               NEW k \in TransferKeys, BeginTransfer(c, s, r, n, k)
        PROVE  Charged(call[c])'
    <3> DEFINE t == [op |-> "transfer", sender |-> s, recipient |-> r, coins |-> n, key |-> k]
    <3>1. t \in TransferCall
      BY DEF TransferCall
    <3>2. CASE OutKey(s, k) \in Keys
      <4>1. Charged(Replayed(t))
        BY <3>1, <3>2, <1>0, ReplayedCharged
      <4>2. call'[c] = Replayed(t)
        BY <1>0, <2>1, <3>2 DEF BeginTransfer, WalletTypeOK
      <4> QED BY <1>1, <4>1, <4>2 DEF Charged
    <3>3. CASE OutKey(s, k) \notin Keys
      <4>1. call'[c] = t
        BY <1>0, <2>1, <3>3 DEF BeginTransfer, WalletTypeOK
      <4> QED BY <1>0, <4>1
    <3> QED BY <3>2, <3>3
  <2>2. ASSUME ReplayTransfer(c)
        PROVE  Charged(call[c])'
    <3>1. Charged(Replayed(call[c]))
      BY <1>0, <2>2, CallFields, ReplayedCharged DEF ReplayTransfer
    <3>2. call'[c] = Replayed(call[c])
      BY <1>0, <2>2 DEF ReplayTransfer, WalletTypeOK
    <3> QED BY <1>1, <3>1, <3>2 DEF Charged
  <2>3. ASSUME CommitTransfer(c)
        PROVE  Charged(call[c])'
    <3> DEFINE t   == call[c]
               out == Write(t.sender, "TRANSFER_OUT", -t.coins, OutKey(t.sender, t.key))
               e   == Entry(out, Applied(wallet[out.user], out))
    <3>1. t \in TransferCall /\ e \in ledger'
      BY <1>0, <2>3, TransferEntries
    <3>2. e.key = OutKey(t.sender, t.key) /\ e.user = t.sender /\ e.delta = -t.coins
      BY DEF Entry, Write
    <3>3. /\ call'[c].sender = t.sender /\ call'[c].key = t.key
          /\ call'[c].coins = t.coins
      BY <1>0, <2>3, <3>1 DEF CommitTransfer, WalletTypeOK, TransferCall
    <3> HIDE DEF e
    <3> QED BY <3>1, <3>2, <3>3 DEF Charged
  <2>4. ASSUME \/ \E r \in TopupRefs : BeginVerify(c, r) \/ ReceiveWebhook(c, r)
               \/ AnswerVerify(c) \/ CreditTopup(c) \/ FailTopup(c) \/ EndCall(c)
        PROVE  FALSE
    BY <1>0, <2>4 DEF BeginVerify, ReceiveWebhook, AnswerVerify, CreditTopup, FailTopup,
                      EndCall, Idle, WalletTypeOK
  <2>5. Handles(c)
    <3>1. ASSUME NEW d \in Calls, d # c, Handles(d)
          PROVE  call'[c] = call[c]
      <4>1. \E x : call' = [call EXCEPT ![d] = x]
        BY <3>1 DEF Handles, BeginVerify, AnswerVerify, ReceiveWebhook, CreditTopup, FailTopup,
                    BeginTransfer, CommitTransfer, ReplayTransfer, EndCall
      <4> QED BY <1>0, <3>1, <4>1 DEF WalletTypeOK
    <3>2. (\E d \in Calls : Handles(d)) \/ UNCHANGED call
      BY DEF WalletNext, Handles, StartTopup, InitializeCharge, SettleCharge, walletVars, coinWalletVars
    <3> QED BY <1>3, <3>1, <3>2
  <2> QED BY <2>1, <2>2, <2>3, <2>4, <2>5 DEF Handles
<1> QED BY <1>2, <1>3

\* Whoever is told "sent", by a first request or a retry, was charged once for
\* the coins the answer names.
THEOREM SentAlwaysMeansCharged == WalletSpec => []SentMeansCharged
<1>1. LedgerInit /\ WalletInit => SentInv
  BY LedgerInvInit DEF WalletInit, SentInv, Idle
<1>2. WalletSpec => []SentInv
  BY <1>1, SentInvStep, PTL DEF WalletSpec, WalletStart, walletVars
<1>3. SentInv => SentMeansCharged
  BY DEF SentInv, Charged, SentMeansCharged
<1> QED BY <1>2, <1>3, PTL

-----------------------------------------------------------------------------
(* The tables implement the service.                                       *)

Worth == [u \in Users |-> Net(wallet[u])]

Sent == [s \in Users |-> [k \in TransferKeys |-> SentUnder(s, k)]]

\* What the service has on record under a key is what its one entry says.
LEMMA SentUnderIs ==
  OneEntryPerKey =>
    \A s \in Users, k \in TransferKeys :
      /\ Outs(s, k) = {} => SentUnder(s, k) = [coins |-> 0]
      /\ \A e \in Outs(s, k) : SentUnder(s, k) = [coins |-> -e.delta]
<1> SUFFICES ASSUME OneEntryPerKey, NEW s \in Users, NEW k \in TransferKeys
             PROVE  /\ Outs(s, k) = {} => SentUnder(s, k) = [coins |-> 0]
                    /\ \A e \in Outs(s, k) : SentUnder(s, k) = [coins |-> -e.delta]
  OBVIOUS
<1>1. OutKey(s, k) \in Keys <=> Outs(s, k) # {}
  BY DEF Keys, Outs
<1>2. ASSUME NEW e \in Outs(s, k)
      PROVE  OutEntry(s, k) = e
  BY DEF OutEntry, Outs, OneEntryPerKey
<1> QED BY <1>1, <1>2 DEF SentUnder

\* The same of the next state.
LEMMA SentUnderIsNext ==
  OneEntryPerKey' =>
    \A s \in Users, k \in TransferKeys :
      /\ Outs(s, k)' = {} => SentUnder(s, k)' = [coins |-> 0]
      /\ \A e \in Outs(s, k)' : SentUnder(s, k)' = [coins |-> -e.delta]
<1>1. (OneEntryPerKey =>
         \A s \in Users, k \in TransferKeys :
           /\ Outs(s, k) = {} => SentUnder(s, k) = [coins |-> 0]
           /\ \A e \in Outs(s, k) : SentUnder(s, k) = [coins |-> -e.delta])'
  BY SentUnderIs, PTL
<1> QED BY <1>1

\* A credited top-up is one whole Credit of the service.
LEMMA CreditsImplement ==
  ASSUME LedgerInv, LedgerInv', NEW r \in TopupRefs, Credits(r)
  PROVE  Service!Credit(r, topup[r].user, topup[r].coins)
<1> DEFINE w == Write(topup[r].user, "TOPUP", topup[r].coins, <<"topup", r>>)
           e == Entry(w, Applied(wallet[w.user], w))
<1>0. TypeInv /\ WalletTypeOK /\ LedgerTypeOK /\ OneEntryPerKey /\ OneEntryPerKey'
  BY DEF LedgerInv, CallInv, TypeInv, WalletTypeOK
<1>1. IsTransaction({w}) /\ Post({w}) /\ ledger' = ledger \cup {e}
  BY <1>0, TopupEntries
<1>2. e.key = <<"topup", r>> /\ w.user = topup[r].user /\ w.delta = topup[r].coins
  BY DEF Entry, Write
<1>3. r \notin PaidTopups
  BY DEF Credits, PaidTopups
<1>4. PaidTopups' = PaidTopups \cup {r}
  BY <1>0 DEF Credits, PaidTopups, WalletTypeOK, Topup
<1>5. w.user \in Users /\ IsWrite(w)
  BY <1>1 DEF IsTransaction, IsWrite
<1> HIDE DEF w, e
<1>6. Worth' = [Worth EXCEPT ![topup[r].user] = @ + topup[r].coins]
  <2>1. ASSUME NEW u \in Users
        PROVE  Net(wallet'[u]) = IF u = w.user THEN Net(wallet[u]) + w.delta ELSE Net(wallet[u])
    <3>1. wallet[u] \in Row
      BY <1>0 DEF LedgerTypeOK
    <3>2. CASE u = w.user
      BY <1>1, <1>5, <3>1, <3>2, PostWallet, AppliedNet
    <3>3. CASE u # w.user
      BY <1>1, <3>3, PostWallet
    <3> QED BY <3>2, <3>3
  <2> QED BY <1>2, <1>5, <2>1 DEF Worth
<1>7. Sent' = Sent
  <2>1. ASSUME NEW s \in Users, NEW k \in TransferKeys
        PROVE  SentUnder(s, k)' = SentUnder(s, k)
    <3>1. e.key # OutKey(s, k)
      BY <1>2, KeysApart
    <3>2. Outs(s, k)' = Outs(s, k)
      BY <1>1, <3>1 DEF Outs
    <3> QED BY <1>0, <3>2, SentUnderIs, SentUnderIsNext
  <2> QED BY <2>1 DEF Sent
<1> QED BY <1>3, <1>4, <1>6, <1>7 DEF Service!Credit, Worth, Sent

\* A committed transfer is one whole Send of the service, of coins the sender has.
LEMMA TransferImplements ==
  ASSUME LedgerInv, LedgerInv', NEW c \in Calls, CommitTransfer(c)
  PROVE  \E s, r \in Users, k \in TransferKeys, n \in TransferAmounts : Service!Send(s, k, r, n)
<1> DEFINE t   == call[c]
           out == Write(t.sender, "TRANSFER_OUT", -t.coins, OutKey(t.sender, t.key))
           in  == Write(t.recipient, "TRANSFER_IN", t.coins, InKey(t.sender, t.key))
           e   == Entry(out, Applied(wallet[out.user], out))
           f   == Entry(in, Applied(wallet[in.user], in))
<1>0. TypeInv /\ LedgerTypeOK /\ OneEntryPerKey /\ OneEntryPerKey'
  BY DEF LedgerInv, CallInv, TypeInv, WalletTypeOK
<1>1. /\ t \in TransferCall /\ t.sender # t.recipient
      /\ IsTransaction({out, in}) /\ Post({out, in})
      /\ ledger' = ledger \cup {e, f}
  BY <1>0, TransferEntries
<1>2. /\ t.sender \in Users /\ t.recipient \in Users /\ t.key \in TransferKeys
      /\ t.coins \in TransferAmounts /\ t.coins \in Nat \ {0}
  BY <1>1, WalletConstants DEF TransferCall
<1>3. /\ e.key = OutKey(t.sender, t.key) /\ f.key = InKey(t.sender, t.key)
      /\ e.delta = -t.coins
      /\ out.user = t.sender /\ out.delta = -t.coins /\ out.kind = "TRANSFER_OUT"
      /\ in.user = t.recipient /\ in.delta = t.coins
      /\ out.key = OutKey(t.sender, t.key)
  BY DEF Entry, Write
<1> HIDE DEF out, in, e, f
<1>4. IsWrite(out) /\ IsWrite(in) /\ CanApply(wallet[t.sender], out)
  BY <1>1, <1>3 DEF IsTransaction, Post, CanPost
<1>5. \A u \in Users : wallet[u] \in Row
  BY <1>0 DEF LedgerTypeOK
<1>6. Net(wallet[t.sender]) >= t.coins
  <2>1. ~Settles(out)
    BY <1>2, <1>3 DEF Settles
  <2>2. wallet[t.sender].balance >= -out.delta /\ wallet[t.sender].debt = 0
    BY <1>4, <2>1 DEF CanApply
  <2>3. wallet[t.sender].balance \in Int
    BY <1>2, <1>5 DEF Row
  <2> QED BY <1>2, <1>3, <2>2, <2>3 DEF Net
<1>7. \A u \in Users :
        Net(wallet'[u]) = IF u = t.sender THEN Net(wallet[u]) - t.coins
                          ELSE IF u = t.recipient THEN Net(wallet[u]) + t.coins
                          ELSE Net(wallet[u])
  <2> SUFFICES ASSUME NEW u \in Users
               PROVE  Net(wallet'[u]) = IF u = t.sender THEN Net(wallet[u]) - t.coins
                                        ELSE IF u = t.recipient THEN Net(wallet[u]) + t.coins
                                        ELSE Net(wallet[u])
    OBVIOUS
  <2>1. CASE u = t.sender
    <3>1. wallet'[u] = Applied(wallet[u], out)
      BY <1>1, <1>3, <2>1, PostWallet
    <3>2. Net(wallet'[u]) = Net(wallet[u]) + out.delta
      BY <1>4, <1>5, <3>1, AppliedNet
    <3>3. Net(wallet[u]) \in Int
      BY <1>5 DEF Net, Row
    <3> QED BY <1>2, <1>3, <2>1, <3>2, <3>3
  <2>2. CASE u = t.recipient
    <3>1. wallet'[u] = Applied(wallet[u], in)
      BY <1>1, <1>3, <2>2, PostWallet
    <3>2. Net(wallet'[u]) = Net(wallet[u]) + in.delta
      BY <1>4, <1>5, <3>1, AppliedNet
    <3> QED BY <1>1, <1>3, <2>2, <3>2
  <2>3. CASE u # t.sender /\ u # t.recipient
    BY <1>1, <1>3, <2>3, PostWallet
  <2> QED BY <2>1, <2>2, <2>3
<1>8. Worth' = [Worth EXCEPT ![t.sender] = @ - t.coins, ![t.recipient] = @ + t.coins]
  BY <1>1, <1>2, <1>7 DEF Worth
<1>9. Sent[t.sender][t.key] = [coins |-> 0]
  <2>1. Outs(t.sender, t.key) = {}
    BY <1>1, <1>3 DEF Post, CanPost, Keys, Outs
  <2> QED BY <1>0, <1>2, <2>1, SentUnderIs DEF Sent
<1>10. Sent' = [Sent EXCEPT ![t.sender][t.key] = [coins |-> t.coins]]
  <2>1. ASSUME NEW s \in Users, NEW k \in TransferKeys, s = t.sender, k = t.key
        PROVE  SentUnder(s, k)' = [coins |-> t.coins]
    <3>1. e \in Outs(s, k)'
      BY <1>1, <1>3, <2>1 DEF Outs
    <3>2. -e.delta = t.coins
      BY <1>2, <1>3
    <3> QED BY <1>0, <3>1, <3>2, SentUnderIsNext
  <2>2. ASSUME NEW s \in Users, NEW k \in TransferKeys, ~(s = t.sender /\ k = t.key)
        PROVE  SentUnder(s, k)' = SentUnder(s, k)
    <3>1. OutKey(s, k) # OutKey(t.sender, t.key) /\ OutKey(s, k) # InKey(t.sender, t.key)
      BY <2>2, KeysApart
    <3>2. Outs(s, k)' = Outs(s, k)
      BY <1>1, <1>3, <3>1 DEF Outs
    <3> QED BY <1>0, <3>2, SentUnderIs, SentUnderIsNext
  <2> QED BY <1>2, <2>1, <2>2 DEF Sent
<1>11. PaidTopups' = PaidTopups
  BY DEF CommitTransfer, PaidTopups
<1>12. Worth[t.sender] >= t.coins
  BY <1>2, <1>6 DEF Worth
<1>13. Service!Send(t.sender, t.key, t.recipient, t.coins)
  BY <1>1, <1>8, <1>9, <1>10, <1>11, <1>12 DEF Service!Send, Service!Unsent, Worth, Sent
<1> QED BY <1>2, <1>13

\* Requests, retries, stale answers and webhooks, and the order in which their
\* transactions commit, show nobody anything but the promised service.
THEOREM WalletImplementsService == WalletSpec => ImplementsService
<1>1. LedgerInit /\ WalletInit => Service!Init
  <2> SUFFICES ASSUME LedgerInit, WalletInit PROVE Service!Init
    OBVIOUS
  <2>1. Worth = [u \in Users |-> 0]
    BY DEF LedgerInit, Worth, Net
  <2>2. PaidTopups = {}
    BY DEF WalletInit, PaidTopups, NoTopup
  <2>3. Sent = [s \in Users |-> [k \in TransferKeys |-> [coins |-> 0]]]
    BY DEF LedgerInit, Sent, SentUnder, Keys
  <2> QED BY <2>1, <2>2, <2>3 DEF Service!Init, Service!Unsent, Worth, Sent
<1>2. ASSUME LedgerInv, LedgerInv', [WalletNext]_walletVars
      PROVE  [Service!Next]_(Service!vars)
  <2>0. CallInv
    BY <1>2 DEF LedgerInv
  <2>1. CASE Quiet
    <3>1. Worth' = Worth /\ Sent' = Sent
      BY <2>1 DEF Quiet, ledgerVars, Worth, Sent, SentUnder, OutEntry, Keys
    <3>2. PaidTopups' = PaidTopups
      BY <2>1 DEF Quiet, PaidTopups
    <3> QED BY <3>1, <3>2 DEF Service!vars, Worth, Sent
  <2>2. ASSUME NEW r \in TopupRefs, Credits(r)
        PROVE  Service!Next
    <3>1. topup[r].user \in Users /\ topup[r].coins \in TopupAmounts
      BY <2>2 DEF Credits, Topup
    <3> QED BY <1>2, <2>2, <3>1, CreditsImplement DEF Service!Next
  <2>3. ASSUME NEW c \in Calls, CommitTransfer(c)
        PROVE  Service!Next
    BY <1>2, <2>3, TransferImplements DEF Service!Next
  <2> QED BY <1>2, <2>0, <2>1, <2>2, <2>3, StepKinds
<1>3. WalletSpec => []LedgerInv
  BY LedgerInvInit, LedgerInvStep, PTL DEF WalletSpec, WalletStart, walletVars
<1> QED BY <1>1, <1>2, <1>3, PTL DEF WalletSpec, WalletStart, walletVars, ImplementsService, Service!Spec

-----------------------------------------------------------------------------
(* The web form over the wallet.                                           *)

\* Each key was pressed for one edit at most unless it is the form's own, no edit was
\* pressed with two keys, and the edit on the screen only with the form's key.
PageInv ==
  /\ form.key \in TransferKeys /\ form.edits \in Nat
  /\ DOMAIN form = {"fields", "key", "edits", "waiting", "msg"}
  /\ meant \in [TransferKeys -> SUBSET (0..form.edits)]
  /\ \A k \in TransferKeys : form.edits \in meant[k] => k = form.key
  /\ \A k, l \in TransferKeys : meant[k] \cap meant[l] # {} => k = l

LEMMA PageInvInit == PageInit => PageInv
BY DEF PageInit, PageInv

\* A filled-in field or a drawn key is a new edit, that nobody pressed Send for.
LEMMA NewEditKeepsPage ==
  ASSUME PageInv, meant' = meant, form'.edits = form.edits + 1, form'.key \in TransferKeys,
         DOMAIN form' = DOMAIN form
  PROVE  PageInv'
BY DEF PageInv

\* Pressing, giving up and what the server does leave the edit and its key alone.
LEMMA PressKeepsPage ==
  ASSUME PageInv, NEW c \in Calls, Press(c)
  PROVE  PageInv'
<1>1. /\ form'.key = form.key /\ form'.edits = form.edits /\ DOMAIN form' = DOMAIN form
      /\ meant' = [meant EXCEPT ![form.key] = @ \cup {form.edits}]
  BY DEF Press, PageInv
<1>2. \A k \in TransferKeys : meant'[k] = IF k = form.key THEN meant[k] \cup {form.edits} ELSE meant[k]
  BY <1>1 DEF PageInv
<1>3. meant' \in [TransferKeys -> SUBSET (0..form.edits)]
  BY <1>1 DEF PageInv
<1> QED BY <1>1, <1>2, <1>3 DEF PageInv

LEMMA SameEditKeepsPage ==
  ASSUME PageInv, meant' = meant, form'.edits = form.edits, form'.key = form.key,
         DOMAIN form' = DOMAIN form
  PROVE  PageInv'
BY DEF PageInv

LEMMA PageInvStep ==
  PageInv /\ [PageNext \/ Meanwhile]_<<ledgerVars, coinWalletVars, pageVars>> => PageInv'
<1> SUFFICES ASSUME PageInv, [PageNext \/ Meanwhile]_<<ledgerVars, coinWalletVars, pageVars>>
             PROVE  PageInv'
  OBVIOUS
<1>1. ASSUME NEW to \in Users, NEW n \in TransferAmounts, Fill(to, n)
      PROVE  PageInv'
  <2>1. meant' = meant /\ form'.edits = form.edits + 1 /\ form'.key = form.key
        /\ DOMAIN form' = DOMAIN form
    BY <1>1 DEF Fill, PageInv
  <2> QED BY <2>1, NewEditKeepsPage DEF PageInv
<1>2. ASSUME NEW c \in Calls, Told(c)
      PROVE  PageInv'
  <2>1. meant' = meant /\ form'.edits = form.edits + 1 /\ form'.key \in TransferKeys
        /\ DOMAIN form' = DOMAIN form
    BY <1>2 DEF Told, PageInv, Unpressed
  <2> QED BY <2>1, NewEditKeepsPage
<1>3. ASSUME NEW c \in Calls, GivenUp(c)
      PROVE  PageInv'
  <2>1. meant' = meant /\ form'.edits = form.edits /\ form'.key = form.key
        /\ DOMAIN form' = DOMAIN form
    BY <1>3 DEF GivenUp, PageInv
  <2> QED BY <2>1, SameEditKeepsPage
<1>4. CASE UNCHANGED pageVars
  BY <1>4, SameEditKeepsPage DEF pageVars
<1> QED
  BY <1>1, <1>2, <1>3, <1>4, PressKeepsPage DEF PageNext, Meanwhile, Serve, Forgotten, pageVars

\* One filled-in form moves coins at most once, for any number of users, keys, edits and
\* lost answers (wallet/page.tsx, send).
THEOREM OneFormMovesOnce == PageSpec => []OncePerForm
<1>1. PageSpec => []PageInv
  BY PageInvInit, PageInvStep, PTL DEF PageSpec
<1>2. ASSUME PageInv, NEW i
      PROVE  Cardinality(MovedBy(i)) <= 1
  <2>1. CASE MovedBy(i) = {}
    BY <2>1, FS_EmptySet
  <2>2. CASE MovedBy(i) # {}
    <3>1. PICK k \in TransferKeys : k \in MovedBy(i)
      BY <2>2 DEF MovedBy
    <3>2. MovedBy(i) = {k}
      BY <1>2, <3>1 DEF MovedBy, PageInv
    <3> QED BY <3>2, FS_Singleton
  <2> QED BY <2>1, <2>2
<1>3. PageInv => OncePerForm
  BY <1>2 DEF OncePerForm
<1> QED BY <1>1, <1>3, PTL

=============================================================================
