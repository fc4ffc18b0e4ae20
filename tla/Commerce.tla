------------------------------ MODULE Commerce ------------------------------
(***************************************************************************)
(* CommerceService: tickets bought with coins, sandbox coins, an Apple     *)
(* transaction or a gateway charge, for oneself or as a gift.  `order`     *)
(* holds the requests in flight.  A purchase is keyed by its providerRef.  *)
(***************************************************************************)
EXTENDS CoinLedger, Entitlements

CONSTANTS Price,         \* coins of a title, 0 for a free one
          OrderRefs,     \* references a checkout may draw
          AppleTickets,  \* Apple transactions for a ticket
          TicketKeys,    \* idempotency keys a client may send
          OpeningCoins,  \* coins every account starts with, from one top-up
          SandboxCoins,  \* confirmed test coins of every account
          Orders         \* slots for requests in flight

ASSUME CommerceConstants ==
  /\ Viewers = Users
  /\ Price \in [Titles -> Nat]
  /\ OpeningCoins \in 1..IntMax /\ SandboxCoins \in Nat

VARIABLES purchase,  \* purchases, from providerRef to row
          charge,    \* the gateway's view of the charge of a checkout
          order

commerceVars == <<purchase, charge, order>>

OrderIdle == [op |-> "idle"]

CheckoutRef(r)        == <<"ct", r>>
AppleRef(x)           == <<"apple", x>>
TicketRef(till, u, k) == <<till, u, k>>   \* till: "wallet" or "sandbox"

Tills == {"wallet", "sandbox"}

CommerceInit ==
  /\ EntitlementsInit
  /\ wallet = [u \in Users |-> [balance |-> OpeningCoins, debt |-> 0]]
  /\ ledger = {Entry(Write(u, "TOPUP", OpeningCoins, <<"topup", u>>),
                     [balance |-> OpeningCoins, debt |-> 0]) : u \in Users}
  /\ purchase = <<>>
  /\ charge = [r \in OrderRefs |-> "none"]
  /\ order = [c \in Orders |-> OrderIdle]

\* purchase.create: the providerRef is unique.
NewPurchase(r, buyer, u, t, status) ==
  /\ r \notin DOMAIN purchase
  /\ purchase' = [s \in DOMAIN purchase \cup {r} |->
                    IF s \in DOMAIN purchase THEN purchase[s]
                    ELSE [buyer |-> buyer, user |-> u, title |-> t, status |-> status]]

TicketFor(r) == NewTicket(purchase[r].user, purchase[r].title, Never)

Paid(r) == r \in DOMAIN purchase /\ purchase[r].status = "PAID"

-----------------------------------------------------------------------------
(* Coins: purchaseWithCoins, purchaseWithSandboxCoins.                     *)

\* Mutant: neither the wallet row nor the advisory lock is taken.
LockedNever(till, u) == FALSE

Locked(till, u) ==
  \E c \in Orders : /\ order[c].op = "checked"
                    /\ order[c].till = till /\ order[c].user = u

SandboxSpent(u) ==
  SumFunction([r \in {s \in DOMAIN purchase : s[1] = "sandbox" /\ s[2] = u} |->
                 Price[purchase[r].title]])

Affords(till, u, t) ==
  till = "sandbox" => SandboxSpent(u) + Price[t] <= SandboxCoins

\* The transaction up to its check, under the lock of this till for this user:
\* the wallet row, or an advisory lock for sandbox coins.
CheckTicket(c, till, u, t, k) ==
  /\ order[c] = OrderIdle
  /\ ~Locked(till, u)
  /\ TicketRef(till, u, k) \notin DOMAIN purchase
  /\ Usable(u, t) = {}
  /\ Affords(till, u, t)
  /\ order' = [order EXCEPT ![c] =
       [op |-> "checked", till |-> till, user |-> u, title |-> t, key |-> k]]
  /\ UNCHANGED <<ledgerVars, entVars, purchase, charge>>

TicketDebit(o) ==
  IF o.till = "wallet" /\ Price[o.title] > 0
  THEN {Write(o.user, "TICKET_PURCHASE", -Price[o.title], TicketRef("wallet", o.user, o.key))}
  ELSE {}

\* A sandbox ticket expires after a day also when it is never opened.
Expiry(till) == IF till = "sandbox" THEN now + Window ELSE Never

\* Its commit: purchase, debit and ticket together.
CommitTicket(c) ==
  /\ order[c].op = "checked"
  /\ LET o == order[c]
         r == TicketRef(o.till, o.user, o.key)
     IN  /\ NewPurchase(r, o.user, o.user, o.title, "PAID")
         /\ Post(TicketDebit(o))
         /\ ent' = Granted(r, NewTicket(o.user, o.title, Expiry(o.till)))
  /\ order' = [order EXCEPT ![c] = OrderIdle]
  /\ Stamp
  /\ UNCHANGED charge

-----------------------------------------------------------------------------
(* Apple: confirmApple, with the transaction already verified.             *)

\* A transaction seen for the first time: the purchase, then (on its own) the
\* ticket.
ConfirmApple(c, u, t, x) ==
  /\ order[c] = OrderIdle
  /\ NewPurchase(AppleRef(x), u, u, t, "PAID")
  /\ order' = [order EXCEPT ![c] = [op |-> "granting", ref |-> AppleRef(x)]]
  /\ UNCHANGED <<ledgerVars, entVars, charge>>

\* grant: it fails on the unique purchase when a retry granted it first.
GrantTicket(c) ==
  /\ order[c].op = "granting"
  /\ ent' = Granted(order[c].ref, TicketFor(order[c].ref))
  /\ order' = [order EXCEPT ![c] = OrderIdle]
  /\ Stamp
  /\ UNCHANGED <<ledgerVars, purchase, charge>>

\* ensureEntitlement, for an Apple transaction sent again and for verify on a
\* purchase that is PAID: the ticket a crash left out is granted now.
EnsureTicket(r) ==
  /\ Paid(r) /\ r[1] \in {"apple", "ct"}
  /\ r \notin DOMAIN ent
  /\ ent' = Granted(r, TicketFor(r))
  /\ Stamp
  /\ UNCHANGED <<ledgerVars, commerceVars>>

-----------------------------------------------------------------------------
(* The gateway: purchase, verify, handleWebhook.                           *)

\* purchase, up to the check of hasUsable.
BeginCheckout(c, buyer, u, t) ==
  /\ order[c] = OrderIdle
  /\ Usable(u, t) = {}
  /\ order' = [order EXCEPT ![c] = [op |-> "checkout", buyer |-> buyer, user |-> u, title |-> t]]
  /\ UNCHANGED <<ledgerVars, entVars, purchase, charge>>

\* purchase, the row: a free title is PAID at once and granted next.
CreateOrder(c, r) ==
  /\ order[c].op = "checkout"
  /\ LET o == order[c]
         free == Price[o.title] = 0
     IN  /\ NewPurchase(CheckoutRef(r), o.buyer, o.user, o.title,
                        IF free THEN "PAID" ELSE "PENDING")
         /\ order' = [order EXCEPT ![c] =
              [op |-> IF free THEN "granting" ELSE "initializing", ref |-> CheckoutRef(r)]]
  /\ UNCHANGED <<ledgerVars, entVars, charge>>

\* The charge is opened only after the row is there.
InitializeOrder(c) ==
  /\ order[c].op = "initializing"
  /\ charge' = [charge EXCEPT ![order[c].ref[2]] = "open"]
  /\ order' = [order EXCEPT ![c] = OrderIdle]
  /\ UNCHANGED <<ledgerVars, entVars, purchase>>

\* External: as for a top-up, a failed charge may still be paid.
SettleOrder(r, outcome) ==
  /\ charge[r] \in {"open", "failed"}
  /\ charge[r] # outcome
  /\ charge' = [charge EXCEPT ![r] = outcome]
  /\ UNCHANGED <<ledgerVars, entVars, purchase, order>>

\* verify (and the Korapay webhook), the first read.
BeginVerifyOrder(c, r) ==
  /\ order[c] = OrderIdle
  /\ CheckoutRef(r) \in DOMAIN purchase /\ ~Paid(CheckoutRef(r))
  /\ order' = [order EXCEPT ![c] = [op |-> "verifying", ref |-> CheckoutRef(r)]]
  /\ UNCHANGED <<ledgerVars, entVars, purchase, charge>>

Settlements == {"paid", "mispaid", "failed"}

AnswerOrder(c) ==
  /\ order[c].op = "verifying"
  /\ LET answer == charge[order[c].ref[2]]
     IN  order' = [order EXCEPT ![c] =
           IF answer \in Settlements
           THEN [op |-> "answered", ref |-> order[c].ref, answer |-> answer]
           ELSE OrderIdle]
  /\ UNCHANGED <<ledgerVars, entVars, purchase, charge>>

\* handleWebhook: charge.success, late and more than once.
ReceiveOrderWebhook(c, r) ==
  /\ order[c] = OrderIdle
  /\ charge[r] \in {"paid", "mispaid"}
  /\ CheckoutRef(r) \in DOMAIN purchase /\ ~Paid(CheckoutRef(r))
  /\ order' = [order EXCEPT ![c] =
       [op |-> "answered", ref |-> CheckoutRef(r), answer |-> charge[r]]]
  /\ UNCHANGED <<ledgerVars, entVars, purchase, charge>>

AnswerIs(c, answer) == order[c].op = "answered" /\ order[c].answer = answer

\* Mutant: reconcile does not compare the amount and the currency.
MarkPaidMispaid(c) ==
  /\ AnswerIs(c, "paid") \/ AnswerIs(c, "mispaid")
  /\ purchase' = [purchase EXCEPT ![order[c].ref].status = "PAID"]
  /\ ent' = Granted(order[c].ref, TicketFor(order[c].ref))
  /\ order' = [order EXCEPT ![c] = OrderIdle]
  /\ Stamp
  /\ UNCHANGED <<ledgerVars, charge>>

\* markPaid: the status and the ticket in one transaction.
MarkPaid(c) ==
  /\ AnswerIs(c, "paid")
  /\ purchase' = [purchase EXCEPT ![order[c].ref].status = "PAID"]
  /\ ent' = Granted(order[c].ref, TicketFor(order[c].ref))
  /\ order' = [order EXCEPT ![c] = OrderIdle]
  /\ Stamp
  /\ UNCHANGED <<ledgerVars, charge>>

\* verify on a failed charge: the row is set FAILED whatever it is by now.
FailOrder(c) ==
  /\ AnswerIs(c, "failed")
  /\ purchase' = [purchase EXCEPT ![order[c].ref].status = "FAILED"]
  /\ order' = [order EXCEPT ![c] = OrderIdle]
  /\ UNCHANGED <<ledgerVars, entVars, charge>>

\* Refused (a mispaid settlement, coins the wallet lacks, a lost unique key) or
\* dead: its transaction rolls back, its locks are released.
EndOrder(c) ==
  /\ order[c] # OrderIdle
  /\ order' = [order EXCEPT ![c] = OrderIdle]
  /\ UNCHANGED <<ledgerVars, entVars, purchase, charge>>

\* Orders of the users us for the titles ts.
OrdersOf(us, ts) ==
  \/ \E c \in Orders :
       \/ \E u \in us, t \in ts :
            \/ \E till \in Tills, k \in TicketKeys : CheckTicket(c, till, u, t, k)
            \/ \E x \in AppleTickets : ConfirmApple(c, u, t, x)
            \/ \E buyer \in us : BeginCheckout(c, buyer, u, t)
       \/ \E r \in OrderRefs :
            CreateOrder(c, r) \/ BeginVerifyOrder(c, r) \/ ReceiveOrderWebhook(c, r)
       \/ CommitTicket(c) \/ GrantTicket(c) \/ InitializeOrder(c) \/ AnswerOrder(c)
       \/ MarkPaid(c) \/ FailOrder(c) \/ EndOrder(c)
  \/ \E r \in OrderRefs, outcome \in Settlements : SettleOrder(r, outcome)
  \/ \E r \in DOMAIN purchase : EnsureTicket(r)
  \/ Tick /\ UNCHANGED <<ledgerVars, commerceVars>>

CommerceNext == OrdersOf(Users, Titles)

CommerceSpec == CommerceInit /\ [][CommerceNext]_<<ledgerVars, entVars, commerceVars>>

-----------------------------------------------------------------------------
(* Properties.                                                             *)

CommerceTypeOK ==
  /\ LedgerTypeOK /\ EntitlementsTypeOK
  /\ \A r \in DOMAIN purchase :
       purchase[r] \in [buyer : Users, user : Users, title : Titles,
                        status : {"PENDING", "PAID", "FAILED"}]
  /\ charge \in [OrderRefs -> Settlements \cup {"none", "open"}]
  /\ \A c \in Orders : order[c].op = "answered" => /\ order[c].ref \in DOMAIN purchase
                                                   /\ order[c].answer \in Settlements
  /\ DOMAIN ent \subseteq DOMAIN purchase

\* What paid for a ticket: a settled charge, one debit of the price for coins;
\* a verified transaction, sandbox coins and a free title owe nothing more.
SettledPurchase(r) ==
  LET price == Price[purchase[r].title]
  IN  CASE r[1] = "ct"     -> price = 0 \/ charge[r[2]] = "paid"
        [] r[1] = "wallet" -> price = 0 \/ \E e \in ledger :
                                /\ e.key = r
                                /\ e.user = purchase[r].buyer /\ e.delta = -price
        [] OTHER           -> TRUE

\* Nobody holds a ticket that was not paid for, and it is held by the one it was
\* bought for, whatever retries, webhooks and crashes did (markPaid, grant,
\* ensureEntitlement, purchaseWithCoins).
TicketsArePaidFor ==
  \A r \in DOMAIN ent :
    /\ SettledPurchase(r)
    /\ ent[r].user = purchase[r].user /\ ent[r].title = purchase[r].title

\* Coins leave a wallet for a ticket only if the ticket is there: no crash or
\* lost race keeps the coins and not the ticket (purchaseWithCoins).
CoinsBuyTickets ==
  \A e \in ledger : e.kind = "TICKET_PURCHASE" => Paid(e.key) /\ e.key \in DOMAIN ent

\* "so different taps cannot buy the same active ticket twice": of the tickets
\* from one till, a viewer never holds two that are still unopened.
NoTicketTwice ==
  \A u \in Viewers, t \in Titles, till \in Tills :
    Cardinality({r \in Usable(u, t) : r[1] = till /\ ent[r].startedAt = Never}) <= 1

\* Test coins are never spent twice over (the advisory lock of the user).
SandboxNeverOverspends == \A u \in Users : SandboxSpent(u) <= SandboxCoins

\* "The right to watch a title once [...]. Created when a purchase is paid": a
\* ticket and a purchase that is not PAID never stand side by side.
TicketMeansPaid == \A r \in DOMAIN ent : Paid(r)

\* "A purchase grants one ACTIVE entitlement per (user, title)".
OneActivePerTitle ==
  \A u \in Viewers, t \in Titles : Cardinality(Usable(u, t)) <= 1

=============================================================================
