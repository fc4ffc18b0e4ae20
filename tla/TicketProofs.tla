---------------------------- MODULE TicketProofs ----------------------------
(***************************************************************************)
(* CommerceService, EntitlementService and PlaybackService, for any number *)
(* of viewers, titles, episodes, purchases, requests and players: tickets  *)
(* are paid for, coins buy them, they are never reopened, none is used up  *)
(* without being watched, each episode of a series is watched once under   *)
(* each ticket, and a television's reports of progress land in order.      *)
(***************************************************************************)
EXTENDS Tickets, Players, SeriesViewing, CoinLedgerProofs, SumLemmas

-----------------------------------------------------------------------------
(* The types, with the requests in flight.                                 *)

CheckoutRefs == {CheckoutRef(r) : r \in OrderRefs}
AppleRefs    == {AppleRef(x) : x \in AppleTickets}
TillRefs     == {TicketRef(till, u, k) : till \in Tills, u \in Users, k \in TicketKeys}

PurchaseRow == [buyer : Users, user : Users, title : Titles,
                status : {"PENDING", "PAID", "FAILED"}]

Order == {OrderIdle}
  \cup [op : {"checked"}, till : Tills, user : Users, title : Titles, key : TicketKeys]
  \cup [op : {"checkout"}, buyer : Users, user : Users, title : Titles]
  \cup [op : {"granting"}, ref : CheckoutRefs \cup AppleRefs]
  \cup [op : {"initializing", "verifying"}, ref : CheckoutRefs]
  \cup [op : {"answered"}, ref : CheckoutRefs, answer : Settlements]

Referring == {"granting", "initializing", "verifying", "answered"}

PurchasesTypeOK ==
  /\ DOMAIN purchase \subseteq CheckoutRefs \cup AppleRefs \cup TillRefs
  /\ \A r \in DOMAIN purchase : purchase[r] \in PurchaseRow
  /\ charge \in [OrderRefs -> Settlements \cup {"none", "open"}]

OrdersTypeOK ==
  /\ order \in [Orders -> Order]
  /\ \A c \in Orders : order[c].op \in Referring => order[c].ref \in DOMAIN purchase

TicketsTypeOK ==
  /\ EntitlementsTypeOK
  /\ IsFiniteSet(DOMAIN ent) /\ DOMAIN ent \subseteq DOMAIN purchase

View(refs) == {ViewIdle}
  \cup [op : {"starting", "started"}, ref : refs, startedAt : Times \cup {Never},
        row : ProgressRow \cup {Unread}]
  \cup [op : {"playing"}, ref : refs, resumed : SUBSET refs]
  \cup [op : {"saving"}, ref : refs, pos : Positions]
  \cup [op : {"completing"}, ref : refs]
  \cup [op : {"listing"}, rows : SUBSET refs]

ViewsTypeOK ==
  /\ progress \in [Viewers -> [Titles -> ProgressRow]]
  /\ view \in [Views -> View(DOMAIN ent)]

TypeInv == LedgerTypeOK /\ PurchasesTypeOK /\ OrdersTypeOK /\ TicketsTypeOK /\ ViewsTypeOK

saleVars == <<ledgerVars, entVars, commerceVars>>

\* The references of the ways to pay are told apart by their first component.
LEMMA RefKinds ==
  /\ \A r \in CheckoutRefs : r[1] = "ct" /\ r[2] \in OrderRefs /\ r = CheckoutRef(r[2])
  /\ \A r \in AppleRefs : r[1] = "apple"
  /\ \A r \in TillRefs : r[1] \in Tills /\ r[2] \in Users
  /\ \A q, r : CheckoutRef(q) = CheckoutRef(r) => q = r
  /\ \A till, u, k, o, v, l : TicketRef(till, u, k) = TicketRef(o, v, l) => till = o /\ u = v /\ k = l
<1>1. \A q : CheckoutRef(q)[1] = "ct" /\ CheckoutRef(q)[2] = q
  BY DEF CheckoutRef
<1>2. \A till, u, k : /\ TicketRef(till, u, k)[1] = till /\ TicketRef(till, u, k)[2] = u
                      /\ TicketRef(till, u, k)[3] = k
  BY DEF TicketRef
<1>3. \A x : AppleRef(x)[1] = "apple"
  BY DEF AppleRef
<1> QED BY <1>1, <1>2, <1>3 DEF CheckoutRefs, AppleRefs, TillRefs

\* All tables start empty but the wallets.
LEMMA TypeInit == Init => TypeInv
<1> SUFFICES ASSUME Init PROVE TypeInv
  OBVIOUS
<1> USE DEF Init, CommerceInit, EntitlementsInit, ViewingInit
<1>1. DOMAIN ent = {} /\ DOMAIN purchase = {}
  OBVIOUS
<1>2. LedgerTypeOK
  BY CommerceConstants, LedgerConstants DEF LedgerTypeOK, Row, Entry, Write, Kinds, Net
<1>3. PurchasesTypeOK /\ OrdersTypeOK
  BY <1>1 DEF PurchasesTypeOK, OrdersTypeOK, Order, OrderIdle, Referring
<1>4. TicketsTypeOK
  BY <1>1, FS_EmptySet, EntitlementConstants DEF TicketsTypeOK, EntitlementsTypeOK
<1>5. ViewsTypeOK
  BY <1>1 DEF ViewsTypeOK, View, ProgressRow
<1> QED BY <1>2, <1>3, <1>4, <1>5 DEF TypeInv

\* A new ticket is well typed, and takes none away.
LEMMA GrantedType ==
  ASSUME TicketsTypeOK, NEW r \in DOMAIN purchase', NEW ticket \in Ticket,
         ent' = Granted(r, ticket), Stamp, DOMAIN purchase \subseteq DOMAIN purchase'
  PROVE  TicketsTypeOK' /\ DOMAIN ent \subseteq DOMAIN ent'
<1>1. /\ DOMAIN ent' = DOMAIN ent \cup {r}
      /\ \A s \in DOMAIN ent' : ent'[s] = IF s \in DOMAIN ent THEN ent[s] ELSE ticket
  BY DEF Granted
<1>2. IsFiniteSet(DOMAIN ent')
  BY <1>1, FS_AddElement DEF TicketsTypeOK
<1>3. now' \in 0..MaxTime
  BY EntitlementConstants DEF Stamp, TicketsTypeOK, EntitlementsTypeOK
<1> QED BY <1>1, <1>2, <1>3 DEF TicketsTypeOK, EntitlementsTypeOK

\* The ticket that is written is one: of its buyer, from now on, not opened yet.
LEMMA NewTicketType ==
  ASSUME TicketsTypeOK, NEW u \in Viewers, NEW t \in Titles, NEW expiry \in Times \cup {Never}
  PROVE  NewTicket(u, t, expiry) \in Ticket
BY EntitlementConstants DEF NewTicket, Ticket, Times, TicketsTypeOK, EntitlementsTypeOK

\* Views that nothing touches keep their types while tickets are added.
LEMMA ViewsKept ==
  ASSUME ViewsTypeOK, DOMAIN ent \subseteq DOMAIN ent', UNCHANGED viewingVars
  PROVE  ViewsTypeOK'
<1>1. ProgressRow \subseteq ProgressRow'
  BY DEF ProgressRow
<1>2. View(DOMAIN ent) \subseteq View(DOMAIN ent)'
  BY <1>1 DEF View
<1>3. [Titles -> ProgressRow] \subseteq [Titles -> ProgressRow']
  BY <1>1
<1>4. progress' \in [Viewers -> [Titles -> ProgressRow']]
  BY <1>3 DEF ViewsTypeOK, viewingVars
<1>5. view' \in [Views -> View(DOMAIN ent)']
  BY <1>2 DEF ViewsTypeOK, viewingVars
<1> QED BY <1>4, <1>5 DEF ViewsTypeOK, ProgressRow, View

-----------------------------------------------------------------------------

\* A request that goes on to a well-typed record leaves the requests well typed.
LEMMA OrderGoesOn ==
  ASSUME OrdersTypeOK, DOMAIN purchase \subseteq DOMAIN purchase',
         NEW c \in Orders, NEW o \in Order, order' = [order EXCEPT ![c] = o],
         o.op \in Referring => o.ref \in DOMAIN purchase'
  PROVE  OrdersTypeOK'
<1>1. order' \in [Orders -> Order]
  BY DEF OrdersTypeOK
<1>2. \A d \in Orders : order'[d] = IF d = c THEN o ELSE order[d]
  BY DEF OrdersTypeOK
<1> QED BY <1>1, <1>2 DEF OrdersTypeOK

\* The fields of a request, by its operation.
LEMMA OrderFields ==
  ASSUME OrdersTypeOK, NEW c \in Orders
  PROVE  /\ order[c].op = "checked" =>
              /\ order[c].till \in Tills /\ order[c].user \in Users
              /\ order[c].title \in Titles /\ order[c].key \in TicketKeys
         /\ order[c].op = "checkout" =>
              order[c].buyer \in Users /\ order[c].user \in Users /\ order[c].title \in Titles
         /\ order[c].op = "granting" => order[c].ref \in CheckoutRefs \cup AppleRefs
         /\ order[c].op \in {"initializing", "verifying", "answered"} =>
              order[c].ref \in CheckoutRefs
         /\ order[c].op = "answered" => order[c].answer \in Settlements
         /\ order[c].op \in Referring => order[c].ref \in DOMAIN purchase
BY DEF OrdersTypeOK, Order, OrderIdle

\* One more purchase row, under a reference of one of the three ways to pay.
LEMMA NewPurchaseType ==
  ASSUME PurchasesTypeOK, NEW r \in CheckoutRefs \cup AppleRefs \cup TillRefs,
         NEW b \in Users, NEW u \in Users, NEW t \in Titles,
         NEW status \in {"PENDING", "PAID", "FAILED"},
         NewPurchase(r, b, u, t, status), charge' = charge
  PROVE  PurchasesTypeOK' /\ DOMAIN purchase' = DOMAIN purchase \cup {r}
<1>1. /\ DOMAIN purchase' = DOMAIN purchase \cup {r}
      /\ \A s \in DOMAIN purchase' : purchase'[s] = IF s \in DOMAIN purchase THEN purchase[s]
           ELSE [buyer |-> b, user |-> u, title |-> t, status |-> status]
  BY DEF NewPurchase
<1> QED BY <1>1 DEF PurchasesTypeOK, PurchaseRow

\* A purchase row whose status is written.
LEMMA StatusType ==
  ASSUME PurchasesTypeOK, NEW r \in DOMAIN purchase, NEW status \in {"PENDING", "PAID", "FAILED"},
         purchase' = [purchase EXCEPT ![r].status = status], charge' = charge
  PROVE  PurchasesTypeOK' /\ DOMAIN purchase' = DOMAIN purchase
<1>1. DOMAIN purchase' = DOMAIN purchase
  OBVIOUS
<1>2. \A s \in DOMAIN purchase : purchase'[s] = IF s = r THEN [purchase[s] EXCEPT !.status = status]
                                               ELSE purchase[s]
  OBVIOUS
<1> QED BY <1>1, <1>2 DEF PurchasesTypeOK, PurchaseRow

\* A ticket bought at a till is one transaction of the ledger at most.
LEMMA DebitIsTransaction ==
  ASSUME NEW o, o.user \in Users, o.title \in Titles
  PROVE  IsTransaction(TicketDebit(o))
<1>1. Price[o.title] \in Nat
  BY CommerceConstants
<1> QED BY <1>1 DEF TicketDebit, IsTransaction, IsWrite, Write, Kinds

\* The ticket of a purchase.
LEMMA TicketForType ==
  ASSUME PurchasesTypeOK, TicketsTypeOK, NEW r \in DOMAIN purchase
  PROVE  TicketFor(r) \in Ticket
BY CommerceConstants, NewTicketType DEF TicketFor, PurchasesTypeOK, PurchaseRow

\* A request that only reads.
LEMMA OnlyTheRequest ==
  ASSUME TypeInv, UNCHANGED <<ledgerVars, entVars, purchase, charge, viewingVars>>,
         NEW c \in Orders, NEW o \in Order, order' = [order EXCEPT ![c] = o],
         o.op \in Referring => o.ref \in DOMAIN purchase
  PROVE  TypeInv'
<1>1. OrdersTypeOK'
  BY OrderGoesOn DEF TypeInv
<1>2. ViewsTypeOK'
  BY ViewsKept DEF TypeInv, entVars
<1> QED BY <1>1, <1>2 DEF TypeInv, LedgerTypeOK, ledgerVars, entVars, PurchasesTypeOK,
                          TicketsTypeOK, EntitlementsTypeOK

\* Steps that leave tickets, wallets and views alone.
LEMMA OnlyThePurchase ==
  ASSUME TypeInv, UNCHANGED <<ledgerVars, entVars, viewingVars>>,
         PurchasesTypeOK', OrdersTypeOK', DOMAIN purchase \subseteq DOMAIN purchase'
  PROVE  TypeInv'
<1>1. ViewsTypeOK'
  BY ViewsKept DEF TypeInv, entVars
<1>2. TicketsTypeOK'
  BY DEF TypeInv, TicketsTypeOK, EntitlementsTypeOK, entVars
<1> QED BY <1>1, <1>2 DEF TypeInv, LedgerTypeOK, ledgerVars

\* CommitTicket writes the ledger, the purchase and the ticket.
LEMMA CommitTicketType ==
  ASSUME TypeInv, NEW c \in Orders, CommitTicket(c), UNCHANGED viewingVars
  PROVE  TypeInv'
<1> DEFINE o == order[c]
           r == TicketRef(o.till, o.user, o.key)
<1>1. o.till \in Tills /\ o.user \in Users /\ o.title \in Titles /\ o.key \in TicketKeys
  BY OrderFields DEF TypeInv, CommitTicket
<1>2. r \in TillRefs
  BY <1>1 DEF TillRefs
<1>3. /\ NewPurchase(r, o.user, o.user, o.title, "PAID")
      /\ Post(TicketDebit(o))
      /\ ent' = Granted(r, NewTicket(o.user, o.title, Expiry(o.till)))
      /\ order' = [order EXCEPT ![c] = OrderIdle]
      /\ Stamp
      /\ charge' = charge
  BY DEF CommitTicket
<1> HIDE DEF o, r
<1>4. PurchasesTypeOK' /\ DOMAIN purchase' = DOMAIN purchase \cup {r}
  BY <1>1, <1>2, <1>3, NewPurchaseType DEF TypeInv
<1>5. LedgerTypeOK'
  BY <1>1, <1>3, DebitIsTransaction, PostType DEF TypeInv
<1>6. Expiry(o.till) \in Times \cup {Never}
  BY EntitlementConstants DEF Expiry, Times, TypeInv, TicketsTypeOK, EntitlementsTypeOK
<1>7. NewTicket(o.user, o.title, Expiry(o.till)) \in Ticket
  BY <1>1, <1>6, NewTicketType, CommerceConstants DEF TypeInv
<1>8. TicketsTypeOK' /\ DOMAIN ent \subseteq DOMAIN ent'
  BY <1>3, <1>4, <1>7, GrantedType DEF TypeInv
<1>9. OrderIdle \in Order /\ OrderIdle.op \notin Referring
  BY DEF Order, OrderIdle, Referring
<1>10. OrdersTypeOK'
  BY <1>3, <1>4, <1>9, OrderGoesOn DEF TypeInv
<1>11. ViewsTypeOK'
  BY <1>8, ViewsKept DEF TypeInv
<1> QED BY <1>4, <1>5, <1>8, <1>10, <1>11 DEF TypeInv

\* Steps that grant the ticket of a purchase that is there.
LEMMA GrantType ==
  ASSUME TypeInv, UNCHANGED <<ledgerVars, viewingVars>>, NEW r \in DOMAIN purchase,
         ent' = Granted(r, TicketFor(r)), Stamp,
         PurchasesTypeOK', DOMAIN purchase' = DOMAIN purchase, OrdersTypeOK'
  PROVE  TypeInv'
<1>1. TicketFor(r) \in Ticket
  BY TicketForType DEF TypeInv
<1>2. TicketsTypeOK' /\ DOMAIN ent \subseteq DOMAIN ent'
  BY <1>1, GrantedType DEF TypeInv
<1>3. ViewsTypeOK'
  BY <1>2, ViewsKept DEF TypeInv
<1> QED BY <1>2, <1>3 DEF TypeInv, LedgerTypeOK, ledgerVars

\* Orders keep the types.
LEMMA SaleTypeStep ==
  ASSUME TypeInv, CommerceNext, UNCHANGED viewingVars
  PROVE  TypeInv'
<1> USE DEF TypeInv
<1>0. OrderIdle \in Order /\ OrderIdle.op \notin Referring
  BY DEF Order, OrderIdle, Referring
<1>1. ASSUME NEW c \in Orders, NEW u \in Users, NEW t \in Titles, NEW till \in Tills,
             NEW k \in TicketKeys, CheckTicket(c, till, u, t, k)
      PROVE  TypeInv'
  <2> DEFINE o == [op |-> "checked", till |-> till, user |-> u, title |-> t, key |-> k]
  <2>1. o \in Order /\ o.op \notin Referring
    BY DEF Order, Referring
  <2> QED BY <1>1, <2>1, OnlyTheRequest DEF CheckTicket
<1>2. ASSUME NEW c \in Orders, NEW u \in Users, NEW t \in Titles, NEW x \in AppleTickets,
             ConfirmApple(c, u, t, x)
      PROVE  TypeInv'
  <2> DEFINE r == AppleRef(x)
             o == [op |-> "granting", ref |-> r]
  <2>1. r \in AppleRefs
    BY DEF AppleRefs
  <2>2. NewPurchase(r, u, u, t, "PAID") /\ order' = [order EXCEPT ![c] = o]
        /\ UNCHANGED <<ledgerVars, entVars, charge>>
    BY <1>2 DEF ConfirmApple
  <2>3. o \in Order /\ o.ref = r
    BY <2>1 DEF Order
  <2> HIDE DEF r, o
  <2>4. PurchasesTypeOK' /\ DOMAIN purchase' = DOMAIN purchase \cup {r}
    BY <2>1, <2>2, NewPurchaseType
  <2>5. OrdersTypeOK'
    BY <2>2, <2>3, <2>4, OrderGoesOn
  <2> QED BY <2>2, <2>4, <2>5, OnlyThePurchase
<1>3. ASSUME NEW c \in Orders, NEW u \in Users, NEW t \in Titles, NEW buyer \in Users,
             BeginCheckout(c, buyer, u, t)
      PROVE  TypeInv'
  <2> DEFINE o == [op |-> "checkout", buyer |-> buyer, user |-> u, title |-> t]
  <2>1. o \in Order /\ o.op \notin Referring
    BY DEF Order, Referring
  <2> QED BY <1>3, <2>1, OnlyTheRequest DEF BeginCheckout
<1>4. ASSUME NEW c \in Orders, NEW r \in OrderRefs, CreateOrder(c, r)
      PROVE  TypeInv'
  <2> DEFINE free == Price[order[c].title] = 0
             ref  == CheckoutRef(r)
             o    == [op |-> IF free THEN "granting" ELSE "initializing", ref |-> ref]
             status == IF free THEN "PAID" ELSE "PENDING"
  <2>1. order[c].buyer \in Users /\ order[c].user \in Users /\ order[c].title \in Titles
    BY <1>4, OrderFields DEF CreateOrder
  <2>2. ref \in CheckoutRefs /\ status \in {"PENDING", "PAID", "FAILED"}
    BY DEF CheckoutRefs
  <2>3. /\ NewPurchase(ref, order[c].buyer, order[c].user, order[c].title, status)
        /\ order' = [order EXCEPT ![c] = o]
        /\ UNCHANGED <<ledgerVars, entVars, charge>>
    BY <1>4 DEF CreateOrder
  <2>4. o \in Order /\ o.ref = ref
    BY <2>2 DEF Order
  <2> HIDE DEF ref, o, status
  <2>5. PurchasesTypeOK' /\ DOMAIN purchase' = DOMAIN purchase \cup {ref}
    BY <2>1, <2>2, <2>3, NewPurchaseType
  <2>6. OrdersTypeOK'
    BY <2>3, <2>4, <2>5, OrderGoesOn
  <2> QED BY <2>3, <2>5, <2>6, OnlyThePurchase
<1>5. ASSUME NEW c \in Orders, NEW r \in OrderRefs, BeginVerifyOrder(c, r)
      PROVE  TypeInv'
  <2> DEFINE o == [op |-> "verifying", ref |-> CheckoutRef(r)]
  <2>1. o \in Order /\ (o.op \in Referring => o.ref \in DOMAIN purchase)
    BY <1>5 DEF Order, CheckoutRefs, BeginVerifyOrder
  <2> QED BY <1>5, <2>1, OnlyTheRequest DEF BeginVerifyOrder
<1>6. ASSUME NEW c \in Orders, NEW r \in OrderRefs, ReceiveOrderWebhook(c, r)
      PROVE  TypeInv'
  <2> DEFINE o == [op |-> "answered", ref |-> CheckoutRef(r), answer |-> charge[r]]
  <2>1. o \in Order /\ (o.op \in Referring => o.ref \in DOMAIN purchase)
    BY <1>6 DEF Order, CheckoutRefs, ReceiveOrderWebhook, Settlements
  <2> QED BY <1>6, <2>1, OnlyTheRequest DEF ReceiveOrderWebhook
<1>7. ASSUME NEW c \in Orders, CommitTicket(c)
      PROVE  TypeInv'
  BY <1>7, CommitTicketType
<1>8. ASSUME NEW c \in Orders, GrantTicket(c)
      PROVE  TypeInv'
  <2>1. order[c].ref \in DOMAIN purchase
    BY <1>8, OrderFields DEF GrantTicket, Referring
  <2>2. OrdersTypeOK' /\ PurchasesTypeOK'
    BY <1>0, <1>8, OrderGoesOn DEF GrantTicket, PurchasesTypeOK
  <2> QED BY <1>8, <2>1, <2>2, GrantType DEF GrantTicket
<1>9. ASSUME NEW c \in Orders, InitializeOrder(c)
      PROVE  TypeInv'
  <2>1. OrdersTypeOK'
    BY <1>0, <1>9, OrderGoesOn DEF InitializeOrder
  <2>2. PurchasesTypeOK'
    BY <1>9 DEF InitializeOrder, PurchasesTypeOK
  <2> QED BY <1>9, <2>1, <2>2, OnlyThePurchase DEF InitializeOrder
<1>10. ASSUME NEW c \in Orders, AnswerOrder(c)
       PROVE  TypeInv'
  <2> DEFINE a == charge[order[c].ref[2]]
             o == IF a \in Settlements
                  THEN [op |-> "answered", ref |-> order[c].ref, answer |-> a] ELSE OrderIdle
  <2>1. order[c].ref \in CheckoutRefs /\ order[c].ref \in DOMAIN purchase
    BY <1>10, OrderFields DEF AnswerOrder, Referring
  <2>2. o \in Order /\ (o.op \in Referring => o.ref \in DOMAIN purchase)
    BY <1>0, <2>1 DEF Order
  <2>3. order' = [order EXCEPT ![c] = o] /\ UNCHANGED <<ledgerVars, entVars, purchase, charge>>
    BY <1>10 DEF AnswerOrder
  <2> HIDE DEF o
  <2> QED BY <2>2, <2>3, OnlyTheRequest
<1>11. ASSUME NEW c \in Orders, MarkPaid(c)
       PROVE  TypeInv'
  <2>1. order[c].ref \in DOMAIN purchase
    BY <1>11, OrderFields DEF MarkPaid, AnswerIs, Referring
  <2>2. PurchasesTypeOK' /\ DOMAIN purchase' = DOMAIN purchase
    BY <1>11, <2>1, StatusType DEF MarkPaid
  <2>3. OrdersTypeOK'
    BY <1>0, <1>11, <2>2, OrderGoesOn DEF MarkPaid
  <2> QED BY <1>11, <2>1, <2>2, <2>3, GrantType DEF MarkPaid
<1>12. ASSUME NEW c \in Orders, FailOrder(c)
       PROVE  TypeInv'
  <2>1. order[c].ref \in DOMAIN purchase
    BY <1>12, OrderFields DEF FailOrder, AnswerIs, Referring
  <2>2. PurchasesTypeOK' /\ DOMAIN purchase' = DOMAIN purchase
    BY <1>12, <2>1, StatusType DEF FailOrder
  <2>3. OrdersTypeOK'
    BY <1>0, <1>12, <2>2, OrderGoesOn DEF FailOrder
  <2> QED BY <1>12, <2>2, <2>3, OnlyThePurchase DEF FailOrder
<1>13. ASSUME NEW c \in Orders, EndOrder(c)
       PROVE  TypeInv'
  BY <1>0, <1>13, OnlyTheRequest DEF EndOrder
<1>14. ASSUME NEW r \in OrderRefs, NEW outcome \in Settlements, SettleOrder(r, outcome)
       PROVE  TypeInv'
  <2>1. PurchasesTypeOK'
    BY <1>14 DEF SettleOrder, PurchasesTypeOK
  <2>2. OrdersTypeOK'
    BY <1>14 DEF SettleOrder, OrdersTypeOK
  <2> QED BY <1>14, <2>1, <2>2, OnlyThePurchase DEF SettleOrder
<1>15. ASSUME NEW r \in DOMAIN purchase, EnsureTicket(r)
       PROVE  TypeInv'
  <2>1. OrdersTypeOK' /\ PurchasesTypeOK'
    BY <1>15 DEF EnsureTicket, commerceVars, OrdersTypeOK, PurchasesTypeOK
  <2> QED BY <1>15, <2>1, GrantType DEF EnsureTicket, commerceVars
<1>16. CASE Tick /\ UNCHANGED <<ledgerVars, commerceVars>>
  <2>1. TicketsTypeOK' /\ ViewsTypeOK'
    BY <1>16, ViewsKept, EntitlementConstants
       DEF Tick, TicketsTypeOK, EntitlementsTypeOK, commerceVars
  <2> QED BY <1>16, <2>1 DEF LedgerTypeOK, ledgerVars, commerceVars, OrdersTypeOK, PurchasesTypeOK
<1> HIDE DEF TypeInv
<1> QED BY <1>1, <1>2, <1>3, <1>4, <1>5, <1>6, <1>7, <1>8, <1>9, <1>10, <1>11, <1>12, <1>13,
           <1>14, <1>15, <1>16 DEF CommerceNext, OrdersOf

-----------------------------------------------------------------------------

\* The fields of a view, by its operation.
LEMMA ViewFields ==
  ASSUME ViewsTypeOK, NEW c \in Views
  PROVE  /\ view[c].op \in {"starting", "started"} =>
              /\ view[c].ref \in DOMAIN ent /\ view[c].startedAt \in Times \cup {Never}
              /\ view[c].row \in ProgressRow \cup {Unread}
              /\ view[c] = [op |-> view[c].op, ref |-> view[c].ref,
                            startedAt |-> view[c].startedAt, row |-> view[c].row]
         /\ view[c].op = "saving" => view[c].ref \in DOMAIN ent /\ view[c].pos \in Positions
         /\ view[c].op = "completing" => view[c].ref \in DOMAIN ent
         /\ view[c].op = "playing" =>
              view[c].ref \in DOMAIN ent /\ view[c].resumed \in SUBSET DOMAIN ent
         /\ view[c].op = "listing" => view[c].rows \in SUBSET DOMAIN ent
BY DEF ViewsTypeOK, View, ViewIdle

\* A view in start, as a record.
LEMMA StartingView ==
  ASSUME ViewsTypeOK, NEW c \in Views, view[c].op \in {"starting", "started"}
  PROVE  view[c] \in [op : {"starting", "started"}, ref : DOMAIN ent,
                      startedAt : Times \cup {Never}, row : ProgressRow \cup {Unread}]
BY DEF ViewsTypeOK, View, ViewIdle

\* The tickets' types, when rows are written over and none is added.
LEMMA RewrittenType ==
  ASSUME TicketsTypeOK, UNCHANGED commerceVars, DOMAIN ent' = DOMAIN ent, now' \in 0..MaxTime,
         \A r \in DOMAIN ent : ent'[r] \in Ticket
  PROVE  TicketsTypeOK'
BY DEF TicketsTypeOK, EntitlementsTypeOK, commerceVars

\* A view that goes on to a well-typed record leaves the views well typed.
LEMMA ViewGoesOn ==
  ASSUME ViewsTypeOK, DOMAIN ent' = DOMAIN ent, progress' = progress,
         NEW c \in Views, NEW v \in View(DOMAIN ent), view' = [view EXCEPT ![c] = v]
  PROVE  ViewsTypeOK'
<1>1. view' \in [Views -> View(DOMAIN ent)]
  BY DEF ViewsTypeOK
<1>2. ProgressRow' = ProgressRow
  BY DEF ProgressRow
<1>3. View(DOMAIN ent)' = View(DOMAIN ent)
  BY <1>2 DEF View
<1> QED BY <1>1, <1>2, <1>3 DEF ViewsTypeOK

\* The four writes to a ticket's row, each of a ticket that is there or of none.
LEMMA RowWrites ==
  ASSUME TicketsTypeOK
  PROVE  /\ \A r \in DOMAIN ent : /\ DOMAIN Opened(r) = DOMAIN ent
                                  /\ \A s \in DOMAIN ent :
                                       /\ Opened(r)[s] \in Ticket
                                       /\ s # r => Opened(r)[s] = ent[s]
                                       /\ Opened(r)[s].status = ent[s].status
                                       /\ Opened(r)[s].user = ent[s].user
                                       /\ Opened(r)[s].title = ent[s].title
                                       /\ Opened(r)[s].createdAt = ent[s].createdAt
                                  /\ Opened(r)[r].startedAt = now
         /\ \A r \in DOMAIN ent : /\ DOMAIN Consumed(r) = DOMAIN ent
                                  /\ \A s \in DOMAIN ent :
                                       /\ Consumed(r)[s] \in Ticket
                                       /\ s # r => Consumed(r)[s] = ent[s]
                                       /\ Consumed(r)[s] = [ent[s] EXCEPT !.status = Consumed(r)[s].status]
                                       /\ Consumed(r)[s].status # ent[s].status
                                            => /\ ent[s].status = "ACTIVE"
                                               /\ Consumed(r)[s].status = "CONSUMED"
         /\ \A rows : /\ DOMAIN Expired(rows) = DOMAIN ent
                      /\ \A s \in DOMAIN ent :
                           /\ Expired(rows)[s] \in Ticket
                           /\ Expired(rows)[s] = [ent[s] EXCEPT !.status = Expired(rows)[s].status]
                           /\ Expired(rows)[s].status \in {ent[s].status, "EXPIRED"}
<1>0. \A s \in DOMAIN ent : ent[s] \in Ticket
  BY DEF TicketsTypeOK, EntitlementsTypeOK
<1>1. now \in Times /\ now + Window \in Times
  BY EntitlementConstants DEF TicketsTypeOK, EntitlementsTypeOK, Times
<1>2. ASSUME NEW r \in DOMAIN ent, NEW s \in DOMAIN ent
      PROVE  /\ Opened(r)[s] = IF s = r THEN [ent[s] EXCEPT !.startedAt = now,
                                                            !.expiresAt = now + Window]
                               ELSE ent[s]
             /\ DOMAIN Opened(r) = DOMAIN ent
  BY DEF Opened
<1>3. ASSUME NEW r \in DOMAIN ent, NEW s \in DOMAIN ent
      PROVE  /\ Consumed(r)[s] = IF s = r /\ ent[s].status = "ACTIVE"
                                 THEN [ent[s] EXCEPT !.status = "CONSUMED"] ELSE ent[s]
             /\ DOMAIN Consumed(r) = DOMAIN ent
  BY DEF Consumed
<1>4. \A rows : /\ DOMAIN Expired(rows) = DOMAIN ent
                /\ \A s \in DOMAIN ent :
                     Expired(rows)[s] = IF s \in rows THEN [ent[s] EXCEPT !.status = "EXPIRED"]
                                        ELSE ent[s]
  BY DEF Expired
<1>5. ASSUME NEW r \in DOMAIN ent, NEW s \in DOMAIN ent
      PROVE  /\ Opened(r)[s] \in Ticket
             /\ s # r => Opened(r)[s] = ent[s]
             /\ Opened(r)[s].status = ent[s].status
             /\ Opened(r)[s].user = ent[s].user
             /\ Opened(r)[s].title = ent[s].title
             /\ Opened(r)[s].createdAt = ent[s].createdAt
             /\ Opened(r)[r].startedAt = now
  <2> DEFINE x == [ent[s] EXCEPT !.startedAt = now, !.expiresAt = now + Window]
             y == [ent[r] EXCEPT !.startedAt = now, !.expiresAt = now + Window]
  <2>1. ent[s] \in Ticket /\ ent[r] \in Ticket
    BY <1>0
  <2>2. x \in Ticket
    BY <1>1, <2>1 DEF Ticket
  <2>3. x.status = ent[s].status /\ x.user = ent[s].user /\ x.title = ent[s].title
        /\ x.createdAt = ent[s].createdAt
    BY <2>1 DEF Ticket
  <2>4. y.startedAt = now
    BY <2>1 DEF Ticket
  <2>5. Opened(r)[s] = (IF s = r THEN x ELSE ent[s]) /\ Opened(r)[r] = y
    BY <1>2
  <2> HIDE DEF x, y
  <2> QED BY <2>1, <2>2, <2>3, <2>4, <2>5
<1>6. ASSUME NEW r \in DOMAIN ent, NEW s \in DOMAIN ent
      PROVE  /\ Consumed(r)[s] \in Ticket
             /\ s # r => Consumed(r)[s] = ent[s]
             /\ Consumed(r)[s] = [ent[s] EXCEPT !.status = Consumed(r)[s].status]
             /\ Consumed(r)[s].status # ent[s].status
                  => ent[s].status = "ACTIVE" /\ Consumed(r)[s].status = "CONSUMED"
  <2>1. ent[s] = [ent[s] EXCEPT !.status = ent[s].status]
    BY <1>0 DEF Ticket
  <2>2. [ent[s] EXCEPT !.status = "CONSUMED"] \in Ticket
        /\ [ent[s] EXCEPT !.status = "CONSUMED"].status = "CONSUMED"
    BY <1>0 DEF Ticket
  <2> QED BY <1>0, <1>3, <2>1, <2>2
<1>7. ASSUME NEW rows, NEW s \in DOMAIN ent
      PROVE  /\ Expired(rows)[s] \in Ticket
             /\ Expired(rows)[s] = [ent[s] EXCEPT !.status = Expired(rows)[s].status]
             /\ Expired(rows)[s].status \in {ent[s].status, "EXPIRED"}
  <2>1. ent[s] = [ent[s] EXCEPT !.status = ent[s].status]
    BY <1>0 DEF Ticket
  <2>2. [ent[s] EXCEPT !.status = "EXPIRED"] \in Ticket
        /\ [ent[s] EXCEPT !.status = "EXPIRED"].status = "EXPIRED"
    BY <1>0 DEF Ticket
  <2> QED BY <1>0, <1>4, <2>1, <2>2
<1>8. \A r \in DOMAIN ent : DOMAIN Opened(r) = DOMAIN ent /\ DOMAIN Consumed(r) = DOMAIN ent
  BY DEF Opened, Consumed
<1> QED BY <1>4, <1>5, <1>6, <1>7, <1>8

\* Playing keeps the types.
LEMMA ViewTypeStep ==
  ASSUME TypeInv, ViewingNext, UNCHANGED <<ledgerVars, commerceVars>>
  PROVE  TypeInv'
<1> USE DEF TypeInv
<1>0. /\ LedgerTypeOK' /\ OrdersTypeOK' /\ PurchasesTypeOK'
      /\ ViewIdle \in View(DOMAIN ent)
  BY DEF LedgerTypeOK, ledgerVars, commerceVars, OrdersTypeOK, PurchasesTypeOK, View
<1>a. ASSUME UNCHANGED entVars
      PROVE  TicketsTypeOK'
  BY <1>a DEF TicketsTypeOK, EntitlementsTypeOK, entVars, commerceVars
<1>b. ASSUME Stamp PROVE now' \in 0..MaxTime
  BY <1>b, EntitlementConstants DEF Stamp, TicketsTypeOK, EntitlementsTypeOK
<1>1. ASSUME NEW c \in Views, NEW u \in Viewers, BeginList(c, u)
      PROVE  TypeInv'
  <2> DEFINE v == [op |-> "listing", rows |-> ExpiredOf(u)]
  <2>1. v \in View(DOMAIN ent)
    BY DEF View, ExpiredOf
  <2> QED BY <1>0, <1>a, <1>1, <2>1, ViewGoesOn DEF BeginList, entVars
<1>2. ASSUME NEW c \in Views, NEW u \in Viewers, NEW t \in Movies, BeginStart(c, u, t)
      PROVE  TypeInv'
  <2>1. PICK r \in FindUsable(u, t) :
          view' = [view EXCEPT ![c] =
            [op |-> "starting", ref |-> r, startedAt |-> ent[r].startedAt, row |-> Unread]]
    BY <1>2 DEF BeginStart
  <2>2. r \in DOMAIN ent /\ ent[r].startedAt \in Times \cup {Never}
    BY DEF FindUsable, Usable, TicketsOf, TicketsTypeOK, EntitlementsTypeOK, Ticket
  <2> DEFINE v == [op |-> "starting", ref |-> r, startedAt |-> ent[r].startedAt, row |-> Unread]
  <2>3. v \in View(DOMAIN ent)
    BY <2>2 DEF View
  <2> HIDE DEF v
  <2> QED BY <1>0, <1>a, <1>2, <2>1, <2>3, ViewGoesOn DEF BeginStart, entVars, v
<1>3. ASSUME NEW c \in Views, NEW u \in Viewers, NEW t \in Movies, NEW pos \in Positions,
             BeginSave(c, u, t, pos)
      PROVE  TypeInv'
  <2>1. PICK r \in FindUsable(u, t) :
          view' = [view EXCEPT ![c] = [op |-> "saving", ref |-> r, pos |-> pos]]
    BY <1>3 DEF BeginSave
  <2> DEFINE v == [op |-> "saving", ref |-> r, pos |-> pos]
  <2>2. v \in View(DOMAIN ent)
    BY DEF FindUsable, Usable, TicketsOf, View
  <2> HIDE DEF v
  <2> QED BY <1>0, <1>a, <1>3, <2>1, <2>2, ViewGoesOn DEF BeginSave, entVars, v
<1>4. ASSUME NEW c \in Views, ReadProgress(c)
      PROVE  TypeInv'
  <2> DEFINE w == view[c]
             row == RowOf(w.ref)
             v == [w EXCEPT !.row = row]
  <2>1. w \in [op : {"starting", "started"}, ref : DOMAIN ent,
               startedAt : Times \cup {Never}, row : ProgressRow \cup {Unread}]
    BY <1>4, StartingView DEF ReadProgress
  <2>2. row \in ProgressRow
    BY <2>1, CommerceConstants DEF RowOf, ViewsTypeOK, TicketsTypeOK, EntitlementsTypeOK, Ticket
  <2>3. v \in View(DOMAIN ent)
    BY <2>1, <2>2 DEF View
  <2>4. view' = [view EXCEPT ![c] = v]
    BY <1>4 DEF ReadProgress
  <2> HIDE DEF v
  <2> QED BY <1>0, <1>a, <1>4, <2>3, <2>4, ViewGoesOn DEF ReadProgress, entVars
<1>5. ASSUME NEW c \in Views, ResumeViewing(c)
      PROVE  TypeInv'
  <2> DEFINE w == view[c]
             v == [w EXCEPT !.op = "started"]
  <2>1. w \in [op : {"starting", "started"}, ref : DOMAIN ent,
               startedAt : Times \cup {Never}, row : ProgressRow \cup {Unread}]
    BY <1>5, StartingView DEF ResumeViewing
  <2>2. v \in View(DOMAIN ent)
    BY <2>1 DEF View
  <2>3. view' = [view EXCEPT ![c] = v]
    BY <1>5 DEF ResumeViewing
  <2> HIDE DEF v
  <2> QED BY <1>0, <1>a, <1>5, <2>2, <2>3, ViewGoesOn DEF ResumeViewing, entVars
<1>6. ASSUME NEW c \in Views, OpenViewing(c)
      PROVE  TypeInv'
  <2> DEFINE w == view[c]
             v == [w EXCEPT !.op = "started", !.startedAt = now]
  <2>1. w \in [op : {"starting", "started"}, ref : DOMAIN ent,
               startedAt : Times \cup {Never}, row : ProgressRow \cup {Unread}]
    BY <1>6, StartingView DEF OpenViewing
  <2>a. now \in Times
    BY EntitlementConstants DEF Times, TicketsTypeOK, EntitlementsTypeOK
  <2>2. v \in View(DOMAIN ent)
    BY <2>1, <2>a DEF View
  <2>3. view' = [view EXCEPT ![c] = v]
    BY <1>6 DEF OpenViewing
  <2>4. ent' = Opened(w.ref) /\ Stamp /\ progress' = progress
    BY <1>6 DEF OpenViewing
  <2> HIDE DEF v, w
  <2>5. TicketsTypeOK'
    BY <1>b, <2>1, <2>4, RowWrites, RewrittenType
  <2>6. ViewsTypeOK'
    BY <2>1, <2>2, <2>3, <2>4, RowWrites, ViewGoesOn DEF w
  <2> QED BY <1>0, <2>5, <2>6
<1>7. ASSUME NEW c \in Views, StartPlaying(c)
      PROVE  TypeInv'
  <2> DEFINE w == view[c]
             v == [op |-> "playing", ref |-> w.ref,
                   resumed |-> IF Resumes(w.row, w.startedAt) THEN {w.row.by} ELSE {}]
  <2>1. w.ref \in DOMAIN ent /\ w.row \in ProgressRow
    BY <1>7, ViewFields DEF StartPlaying
  <2>2. v \in View(DOMAIN ent)
    BY <2>1 DEF View, Resumes, ProgressRow
  <2>3. view' = [view EXCEPT ![c] = v]
    BY <1>7 DEF StartPlaying
  <2> HIDE DEF v
  <2> QED BY <1>0, <1>a, <1>7, <2>2, <2>3, ViewGoesOn DEF StartPlaying, entVars
<1>8. ASSUME NEW c \in Views, SaveProgress(c)
      PROVE  TypeInv'
  <2> DEFINE r == view[c].ref
             v == IF view[c].pos = "end" THEN [op |-> "completing", ref |-> r] ELSE ViewIdle
             row == [pos |-> view[c].pos, updatedAt |-> now, by |-> r]
  <2>1. r \in DOMAIN ent /\ view[c].pos \in Positions
    BY <1>8, ViewFields DEF SaveProgress
  <2>2. v \in View(DOMAIN ent)
    BY <1>0, <2>1 DEF View
  <2>3. row \in ProgressRow
    BY <2>1, EntitlementConstants DEF ProgressRow, Times, TicketsTypeOK, EntitlementsTypeOK
  <2>4. ent[r].user \in Viewers /\ ent[r].title \in Titles
    BY <2>1 DEF TicketsTypeOK, EntitlementsTypeOK, Ticket
  <2>5. /\ progress' = [progress EXCEPT ![ent[r].user][ent[r].title] = row]
        /\ view' = [view EXCEPT ![c] = v] /\ Stamp /\ ent' = ent
    BY <1>8 DEF SaveProgress
  <2> HIDE DEF r, v, row
  <2>6. progress' \in [Viewers -> [Titles -> ProgressRow]]
    BY <2>3, <2>4, <2>5 DEF ViewsTypeOK
  <2>7. ProgressRow' = ProgressRow
    BY <2>5 DEF ProgressRow
  <2>8. View(DOMAIN ent)' = View(DOMAIN ent)
    BY <2>5, <2>7 DEF View
  <2>9. view' \in [Views -> View(DOMAIN ent)]
    BY <2>2, <2>5 DEF ViewsTypeOK
  <2>10. TicketsTypeOK'
    BY <1>b, <2>5 DEF TicketsTypeOK, EntitlementsTypeOK, commerceVars
  <2> QED BY <1>0, <2>6, <2>7, <2>8, <2>9, <2>10 DEF ViewsTypeOK
<1>9. ASSUME NEW c \in Views, CompleteViewing(c)
      PROVE  TypeInv'
  <2>1. view[c].ref \in DOMAIN ent
    BY <1>9, ViewFields DEF CompleteViewing
  <2>2. ent' = Consumed(view[c].ref) /\ view' = [view EXCEPT ![c] = ViewIdle]
        /\ UNCHANGED <<now, progress>>
    BY <1>9 DEF CompleteViewing
  <2>3. TicketsTypeOK'
    BY <2>1, <2>2, RowWrites, RewrittenType DEF TicketsTypeOK, EntitlementsTypeOK
  <2>4. ViewsTypeOK'
    BY <1>0, <2>1, <2>2, RowWrites, ViewGoesOn
  <2> QED BY <1>0, <2>3, <2>4
<1>10. ASSUME NEW c \in Views, WriteExpired(c)
       PROVE  TypeInv'
  <2>1. ent' = Expired(view[c].rows) /\ view' = [view EXCEPT ![c] = ViewIdle]
        /\ UNCHANGED <<now, progress>>
    BY <1>10 DEF WriteExpired
  <2>2. TicketsTypeOK'
    BY <2>1, RowWrites, RewrittenType DEF TicketsTypeOK, EntitlementsTypeOK
  <2>3. ViewsTypeOK'
    BY <1>0, <2>1, RowWrites, ViewGoesOn
  <2> QED BY <1>0, <2>2, <2>3
<1>11. ASSUME NEW c \in Views, EndView(c)
       PROVE  TypeInv'
  BY <1>0, <1>a, <1>11, ViewGoesOn DEF EndView, entVars
<1>12. ASSUME NEW u \in Viewers, NEW t \in Movies, ClearProgress(u, t)
       PROVE  TypeInv'
  <2>1. progress' \in [Viewers -> [Titles -> ProgressRow]]
    BY <1>12, ViewingConstants DEF ClearProgress, ViewsTypeOK, ProgressRow
  <2>2. ProgressRow' = ProgressRow
    BY <1>12 DEF ProgressRow, ClearProgress, entVars
  <2>3. View(DOMAIN ent)' = View(DOMAIN ent)
    BY <1>12, <2>2 DEF View, ClearProgress, entVars
  <2> QED BY <1>0, <1>a, <1>12, <2>1, <2>2, <2>3 DEF ClearProgress, ViewsTypeOK
<1>13. CASE Tick /\ UNCHANGED viewingVars
  BY <1>0, <1>b, <1>13, ViewsKept DEF Tick, Stamp, TicketsTypeOK, EntitlementsTypeOK, commerceVars
<1> HIDE DEF TypeInv
<1> QED BY <1>1, <1>2, <1>3, <1>4, <1>5, <1>6, <1>7, <1>8, <1>9, <1>10, <1>11, <1>12, <1>13
        DEF ViewingNext, ViewsOf

\* Every step keeps the types.
LEMMA TypeStep == TypeInv /\ [Next]_vars => TypeInv'
<1> SUFFICES ASSUME TypeInv, [Next]_vars PROVE TypeInv'
  OBVIOUS
<1>1. CASE CommerceNext /\ UNCHANGED viewingVars
  BY <1>1, SaleTypeStep
<1>2. CASE ViewingNext /\ UNCHANGED <<ledgerVars, commerceVars>>
  BY <1>2, ViewTypeStep
<1>3. CASE UNCHANGED vars
  <2>1. UNCHANGED <<ledgerVars, entVars, purchase, charge, order, viewingVars>>
    BY <1>3 DEF vars, commerceVars
  <2>2. OrdersTypeOK' /\ PurchasesTypeOK'
    BY <2>1 DEF TypeInv, OrdersTypeOK, PurchasesTypeOK
  <2> QED BY <2>1, <2>2, OnlyThePurchase
<1> QED BY <1>1, <1>2, <1>3 DEF Next

\* The tables, the orders in flight and the players stay well typed, and every
\* ticket stays a ticket of a purchase that is there (CommerceService,
\* EntitlementService, PlaybackService).
THEOREM TicketTypes == Spec => []TypeInv
<1> QED BY TypeInit, TypeStep, PTL DEF Spec

-----------------------------------------------------------------------------
(* Tickets are never reopened.                                             *)

\* Orders add new ACTIVE tickets and touch none that is there.
LEMMA OrdersAddTickets ==
  ASSUME CommerceNext
  PROVE  /\ \A r \in DOMAIN ent : r \in DOMAIN ent' /\ ent'[r] = ent[r]
         /\ \A r \in DOMAIN ent' \ DOMAIN ent : ent'[r].status = "ACTIVE" /\ ent'[r].createdAt = now
         /\ now' \in {now, now + 1}
<1> DEFINE Kept == /\ \A r \in DOMAIN ent : r \in DOMAIN ent' /\ ent'[r] = ent[r]
                   /\ \A r \in DOMAIN ent' \ DOMAIN ent :
                        ent'[r].status = "ACTIVE" /\ ent'[r].createdAt = now
                   /\ now' \in {now, now + 1}
<1>1. ASSUME NEW r, NEW ticket, ent' = Granted(r, ticket), Stamp,
             ticket.status = "ACTIVE", ticket.createdAt = now
      PROVE  Kept
  BY <1>1 DEF Granted, Stamp
<1>2. ASSUME NEW c \in Orders, CommitTicket(c)
      PROVE  Kept
  <2> DEFINE o == order[c]
             r == TicketRef(o.till, o.user, o.key)
             ticket == NewTicket(o.user, o.title, Expiry(o.till))
  <2>1. ent' = Granted(r, ticket) /\ Stamp
    BY <1>2 DEF CommitTicket
  <2>2. ticket.status = "ACTIVE" /\ ticket.createdAt = now
    BY DEF NewTicket
  <2> HIDE DEF r, ticket
  <2> QED BY <1>1, <2>1, <2>2
<1>3. ASSUME NEW c \in Orders, GrantTicket(c) \/ MarkPaid(c)
      PROVE  Kept
  BY <1>1, <1>3 DEF GrantTicket, MarkPaid, TicketFor, NewTicket
<1>4. ASSUME NEW r \in DOMAIN purchase, EnsureTicket(r)
      PROVE  Kept
  BY <1>1, <1>4 DEF EnsureTicket, TicketFor, NewTicket
<1>5. /\ \A c, till, u, t, k : CheckTicket(c, till, u, t, k) => UNCHANGED entVars
      /\ \A c, u, t, x : ConfirmApple(c, u, t, x) => UNCHANGED entVars
      /\ \A c, buyer, u, t : BeginCheckout(c, buyer, u, t) => UNCHANGED entVars
      /\ \A c, r : CreateOrder(c, r) \/ BeginVerifyOrder(c, r) \/ ReceiveOrderWebhook(c, r)
                    \/ SettleOrder(c, r) => UNCHANGED entVars
      /\ \A c : InitializeOrder(c) \/ AnswerOrder(c) \/ FailOrder(c) \/ EndOrder(c)
                 => UNCHANGED entVars
  BY DEF CheckTicket, ConfirmApple, BeginCheckout, CreateOrder, InitializeOrder, SettleOrder,
         BeginVerifyOrder, AnswerOrder, ReceiveOrderWebhook, FailOrder, EndOrder
<1>6. UNCHANGED entVars => Kept
  BY DEF entVars
<1>7. Tick /\ UNCHANGED <<ledgerVars, commerceVars>> => Kept
  BY DEF Tick
<1> HIDE DEF Kept
<1>8. Kept
  BY <1>2, <1>3, <1>4, <1>5, <1>6, <1>7 DEF CommerceNext, OrdersOf
<1> QED BY <1>8 DEF Kept

\* A row that leaves ACTIVE never comes back to it (startViewing, consume, listForUser).
LEMMA RowsNeverReopen ==
  ASSUME TypeInv, [Next]_vars, NEW r \in DOMAIN ent
  PROVE  r \in DOMAIN ent' /\ (ent[r].status # "ACTIVE" => ent'[r].status # "ACTIVE")
<1>1. CASE CommerceNext
  BY <1>1, OrdersAddTickets
<1>2. CASE ViewingNext
  <2>1. TicketsTypeOK /\ ViewsTypeOK
    BY DEF TypeInv
  <2>2. ASSUME NEW c \in Views, OpenViewing(c)
        PROVE  r \in DOMAIN ent' /\ ent'[r].status = ent[r].status
    <3>1. view[c].ref \in DOMAIN ent /\ ent' = Opened(view[c].ref)
      BY <2>1, <2>2, ViewFields DEF OpenViewing
    <3> QED BY <2>1, <3>1, RowWrites
  <2>3. ASSUME NEW c \in Views, CompleteViewing(c)
        PROVE  r \in DOMAIN ent' /\ (ent'[r].status # ent[r].status => ent[r].status = "ACTIVE")
    <3>1. view[c].ref \in DOMAIN ent /\ ent' = Consumed(view[c].ref)
      BY <2>1, <2>3, ViewFields DEF CompleteViewing
    <3> QED BY <2>1, <3>1, RowWrites
  <2>4. ASSUME NEW c \in Views, WriteExpired(c)
        PROVE  r \in DOMAIN ent' /\ ent'[r].status \in {ent[r].status, "EXPIRED"}
    BY <2>1, <2>4, RowWrites DEF WriteExpired
  <2>5. \/ \E c \in Views : OpenViewing(c) \/ CompleteViewing(c) \/ WriteExpired(c)
        \/ ent' = ent
    BY <1>2 DEF ViewingNext, ViewsOf, BeginList, BeginStart, BeginSave, ReadProgress,
                ResumeViewing, StartPlaying, SaveProgress, EndView, ClearProgress, Tick, entVars
  <2> QED BY <2>2, <2>3, <2>4, <2>5
<1>3. CASE UNCHANGED vars
  BY <1>3 DEF vars, entVars
<1> QED BY <1>1, <1>2, <1>3 DEF Next

\* "A CONSUMED or EXPIRED entitlement can never be reopened": whatever the
\* requests in flight have read, a ticket's row only moves away from ACTIVE
\* (EntitlementService).
THEOREM TicketsNeverReopen == Spec => NeverReopened
<1>1. TypeInv /\ [Next]_vars =>
        [\A r \in DOMAIN ent : /\ r \in DOMAIN ent'
                               /\ ent[r].status # "ACTIVE" => ent'[r].status # "ACTIVE"]_ent
  BY RowsNeverReopen
<1> QED BY <1>1, TicketTypes, PTL DEF Spec, NeverReopened

-----------------------------------------------------------------------------

(* Tickets match payments.                                                 *)

\* A paid purchase, and one whose ticket is there or being granted, is settled.
Backed ==
  /\ \A r \in DOMAIN purchase :
       purchase[r].status = "PAID" \/ r \in DOMAIN ent => SettledPurchase(r)
  /\ \A c \in Orders : order[c].op = "granting" => SettledPurchase(order[c].ref)

HeldByBuyer ==
  \A r \in DOMAIN ent : ent[r].user = purchase[r].user /\ ent[r].title = purchase[r].title

\* A charge is opened once, after its purchase is there, by the request that made it,
\* and a request that was answered "paid" is about a charge that is.
ChargesFollow ==
  /\ \A q \in OrderRefs : CheckoutRef(q) \notin DOMAIN purchase => charge[q] = "none"
  /\ \A c \in Orders : /\ order[c].op = "initializing" => charge[order[c].ref[2]] = "none"
                       /\ AnswerIs(c, "paid") => charge[order[c].ref[2]] = "paid"
  /\ \A c, d \in Orders :
       order[c].op = "initializing" /\ order[d].op = "initializing" /\ order[c].ref = order[d].ref
         => c = d

\* Coins spent on a ticket are entered under a reference of the wallet's till.
DebitsBuy ==
  \A e \in ledger : e.kind = "TICKET_PURCHASE" =>
    /\ e.key \in TillRefs
    /\ e.key \in DOMAIN ent /\ purchase[e.key].status = "PAID"

PayInv == TypeInv /\ Backed /\ HeldByBuyer /\ ChargesFollow /\ DebitsBuy

\* Nothing is bought at first.
LEMMA PayInit == Init => PayInv
<1> SUFFICES ASSUME Init PROVE PayInv
  OBVIOUS
<1> USE DEF Init, CommerceInit, EntitlementsInit, ViewingInit
<1>1. DOMAIN ent = {} /\ DOMAIN purchase = {}
  OBVIOUS
<1>2. \A e \in ledger : e.kind = "TOPUP"
  BY DEF Entry, Write
<1>3. \A c \in Orders : order[c].op = "idle"
  BY DEF OrderIdle
<1>4. Backed /\ HeldByBuyer /\ DebitsBuy
  BY <1>1, <1>2, <1>3 DEF Backed, HeldByBuyer, DebitsBuy
<1>5. ChargesFollow
  BY <1>1, <1>3 DEF ChargesFollow, AnswerIs
<1> QED BY <1>4, <1>5, TypeInit DEF PayInv

\* What settled a purchase stays: its debit is never deleted, a paid charge is final.
LEMMA SettledStays ==
  ASSUME PurchasesTypeOK, NEW r \in DOMAIN purchase, SettledPurchase(r),
         purchase'[r].title = purchase[r].title, purchase'[r].buyer = purchase[r].buyer,
         ledger \subseteq ledger', \A q \in OrderRefs : charge[q] = "paid" => charge'[q] = "paid"
  PROVE  SettledPurchase(r)'
<1>1. r[1] = "ct" => r[2] \in OrderRefs
  BY RefKinds DEF PurchasesTypeOK, Tills
<1> QED BY <1>1 DEF SettledPurchase

\* Requests that go on without having granted, opened or been told of anything.
LEMMA RequestBacked ==
  ASSUME PayInv, TypeInv', UNCHANGED <<ledgerVars, entVars, purchase, charge>>,
         NEW c \in Orders, NEW o \in Order, order' = [order EXCEPT ![c] = o],
         o.op \notin {"granting", "initializing"},
         o.op = "answered" /\ o.answer = "paid" => charge[o.ref[2]] = "paid"
  PROVE  PayInv'
<1>1. \A d \in Orders : order'[d] = IF d = c THEN o ELSE order[d]
  BY DEF PayInv, TypeInv, OrdersTypeOK
<1>2. \A r : SettledPurchase(r)' <=> SettledPurchase(r)
  BY DEF SettledPurchase, ledgerVars
<1>3. Backed' /\ HeldByBuyer' /\ DebitsBuy'
  BY <1>1, <1>2 DEF PayInv, Backed, HeldByBuyer, DebitsBuy, ledgerVars, entVars
<1>4. ChargesFollow'
  BY <1>1 DEF PayInv, ChargesFollow, AnswerIs
<1> QED BY <1>3, <1>4 DEF PayInv

-----------------------------------------------------------------------------

\* A purchase row that is added: paid only when it is settled, without a ticket yet.
LEMMA NewPurchaseBacked ==
  ASSUME PayInv, TypeInv', UNCHANGED <<ledgerVars, entVars, charge>>,
         NEW r \in CheckoutRefs \cup AppleRefs, NEW b, NEW u, NEW t, NEW status,
         NewPurchase(r, b, u, t, status),
         NEW c \in Orders, NEW op \in {"granting", "initializing"},
         order' = [order EXCEPT ![c] = [op |-> op, ref |-> r]],
         status = "PAID" \/ op = "granting" => SettledPurchase(r)',
         op = "initializing" => r \in CheckoutRefs
  PROVE  PayInv'
<1>1. /\ r \notin DOMAIN purchase /\ DOMAIN purchase' = DOMAIN purchase \cup {r}
      /\ \A s \in DOMAIN purchase : purchase'[s] = purchase[s]
      /\ purchase'[r].status = status
  BY DEF NewPurchase
<1>2. \A s \in DOMAIN purchase : SettledPurchase(s) => SettledPurchase(s)'
  BY <1>1, SettledStays DEF PayInv, TypeInv, ledgerVars
<1>3. \A d \in Orders : order'[d] = IF d = c THEN [op |-> op, ref |-> r] ELSE order[d]
  BY DEF PayInv, TypeInv, OrdersTypeOK
<1>4. \A d \in Orders : order[d].op \in Referring => order[d].ref \in DOMAIN purchase
  BY DEF PayInv, TypeInv, OrdersTypeOK
<1>5. DOMAIN ent \subseteq DOMAIN purchase
  BY DEF PayInv, TypeInv, TicketsTypeOK
<1>6. Backed'
  BY <1>1, <1>2, <1>3, <1>4, <1>5 DEF PayInv, Backed, Referring, entVars
<1>7. HeldByBuyer' /\ DebitsBuy'
  BY <1>1, <1>5 DEF PayInv, HeldByBuyer, DebitsBuy, ledgerVars, entVars
<1>8. op = "initializing" => charge[r[2]] = "none"
  BY <1>1, RefKinds DEF PayInv, ChargesFollow
<1>9. ChargesFollow'
  BY <1>1, <1>3, <1>4, <1>8 DEF PayInv, ChargesFollow, AnswerIs, Referring
<1> QED BY <1>6, <1>7, <1>9 DEF PayInv

\* A settled purchase is given its ticket.
LEMMA GrantBacked ==
  ASSUME PayInv, TypeInv', UNCHANGED <<ledgerVars, charge>>,
         NEW r \in DOMAIN purchase, SettledPurchase(r), ent' = Granted(r, TicketFor(r)),
         DOMAIN purchase' = DOMAIN purchase,
         \A s \in DOMAIN purchase : /\ purchase'[s].title = purchase[s].title
                                    /\ purchase'[s].buyer = purchase[s].buyer
                                    /\ purchase'[s].user = purchase[s].user
                                    /\ \/ purchase'[s].status = purchase[s].status
                                       \/ s = r /\ purchase'[s].status = "PAID",
         \/ order' = order
         \/ \E c \in Orders : order' = [order EXCEPT ![c] = OrderIdle]
  PROVE  PayInv'
<1>1. \A s \in DOMAIN purchase : SettledPurchase(s) => SettledPurchase(s)'
  BY SettledStays DEF PayInv, TypeInv, ledgerVars
<1>2. \A d \in Orders : order'[d] = order[d] \/ order'[d].op = "idle"
  BY DEF PayInv, TypeInv, OrdersTypeOK, OrderIdle
<1>3. \A d \in Orders : order[d].op \in Referring => order[d].ref \in DOMAIN purchase
  BY DEF PayInv, TypeInv, OrdersTypeOK
<1>4. /\ DOMAIN ent' = DOMAIN ent \cup {r}
      /\ \A s \in DOMAIN ent : ent'[s] = ent[s]
      /\ r \in DOMAIN ent \/ (ent'[r].user = purchase[r].user /\ ent'[r].title = purchase[r].title)
  BY DEF Granted, TicketFor, NewTicket
<1>5. DOMAIN ent \subseteq DOMAIN purchase
  BY DEF PayInv, TypeInv, TicketsTypeOK
<1>6. Backed'
  BY <1>1, <1>2, <1>3, <1>4, <1>5 DEF PayInv, Backed, Referring
<1>7. HeldByBuyer' /\ DebitsBuy'
  BY <1>4, <1>5 DEF PayInv, HeldByBuyer, DebitsBuy, ledgerVars
<1>8. ChargesFollow'
  BY <1>2 DEF PayInv, ChargesFollow, AnswerIs
<1> QED BY <1>6, <1>7, <1>8 DEF PayInv

\* The purchase with coins: row, debit and ticket together.
LEMMA CommitBacked ==
  ASSUME PayInv, TypeInv', NEW c \in Orders, CommitTicket(c)
  PROVE  PayInv'
<1>0. PICK o : o = order[c]
  OBVIOUS
<1> DEFINE r == TicketRef(o.till, o.user, o.key)
           ticket == NewTicket(o.user, o.title, Expiry(o.till))
           row == [buyer |-> o.user, user |-> o.user, title |-> o.title, status |-> "PAID"]
<1>1. o.till \in Tills /\ o.user \in Users /\ o.title \in Titles /\ o.key \in TicketKeys
  BY <1>0, OrderFields DEF PayInv, TypeInv, CommitTicket
<1>2. r \in TillRefs /\ r[1] = o.till
  BY <1>1 DEF TillRefs, TicketRef
<1>3. /\ r \notin DOMAIN purchase
      /\ purchase' = [s \in DOMAIN purchase \cup {r} |->
                        IF s \in DOMAIN purchase THEN purchase[s] ELSE row]
      /\ Post(TicketDebit(o)) /\ ent' = Granted(r, ticket)
      /\ order' = [order EXCEPT ![c] = OrderIdle] /\ charge' = charge
  BY <1>0 DEF CommitTicket, NewPurchase
<1>4. ledger \subseteq ledger' /\ IsTransaction(TicketDebit(o))
  BY <1>1, <1>3, DebitIsTransaction DEF Post
<1>5. \A e \in ledger' \ ledger : e.key = r
  BY <1>3, <1>4, PostEntries DEF PayInv, TypeInv, TicketDebit, Write, Entry
<1>6. o.till = "wallet" /\ Price[o.title] > 0
        => \E e \in ledger' : e.key = r /\ e.user = o.user /\ e.delta = -Price[o.title]
  <2> SUFFICES ASSUME o.till = "wallet", Price[o.title] > 0
               PROVE  \E e \in ledger' : e.key = r /\ e.user = o.user /\ e.delta = -Price[o.title]
    OBVIOUS
  <2> DEFINE w == Write(o.user, "TICKET_PURCHASE", -Price[o.title], TicketRef("wallet", o.user, o.key))
             e == Entry(w, Applied(wallet[w.user], w))
  <2>1. w \in TicketDebit(o)
    BY DEF TicketDebit
  <2>2. e \in ledger'
    BY <1>3, <2>1 DEF Post
  <2>3. e.key = r /\ e.user = o.user /\ e.delta = -Price[o.title]
    BY DEF Entry, Write
  <2> QED BY <2>2, <2>3
<1>7. row.buyer = o.user /\ row.title = o.title /\ row.user = o.user /\ row.status = "PAID"
      /\ ticket.user = o.user /\ ticket.title = o.title /\ Price[o.title] \in Nat
  BY <1>1, CommerceConstants DEF NewTicket
<1> HIDE DEF r, row, ticket
<1>8. SettledPurchase(r)'
  <2>1. purchase'[r].buyer = o.user /\ purchase'[r].title = o.title
    BY <1>3, <1>7
  <2>2. Price[o.title] = 0 \/ Price[o.title] > 0
    BY <1>7
  <2>3. CASE r[1] = "sandbox"
    BY <2>3 DEF SettledPurchase
  <2>4. CASE r[1] = "wallet"
    <3>1. \/ Price[o.title] = 0
          \/ \E e \in ledger' : e.key = r /\ e.user = o.user /\ e.delta = -Price[o.title]
      BY <1>2, <1>6, <2>2, <2>4
    <3> QED BY <2>1, <2>4, <3>1 DEF SettledPurchase
  <2> QED BY <1>1, <1>2, <2>3, <2>4 DEF Tills
<1>9. \A s \in DOMAIN purchase : SettledPurchase(s) => SettledPurchase(s)'
  BY <1>3, <1>4, SettledStays DEF PayInv, TypeInv
<1>10. \A d \in Orders : order'[d] = order[d] \/ order'[d].op = "idle"
  BY <1>3 DEF PayInv, TypeInv, OrdersTypeOK, OrderIdle
<1>11. \A d \in Orders : order[d].op \in Referring => order[d].ref \in DOMAIN purchase
  BY DEF PayInv, TypeInv, OrdersTypeOK
<1>12. /\ DOMAIN ent' = DOMAIN ent \cup {r} /\ r \notin DOMAIN ent
       /\ \A s \in DOMAIN ent : ent'[s] = ent[s]
       /\ ent'[r] = ticket
       /\ DOMAIN ent \subseteq DOMAIN purchase
  BY <1>3 DEF Granted, PayInv, TypeInv, TicketsTypeOK
<1>13. Backed'
  <2>1. DOMAIN purchase' = DOMAIN purchase \cup {r} /\ \A s \in DOMAIN purchase : purchase'[s] = purchase[s]
    BY <1>3
  <2>2. ASSUME NEW s \in DOMAIN purchase', purchase'[s].status = "PAID" \/ s \in DOMAIN ent'
        PROVE  SettledPurchase(s)'
    BY <1>8, <1>9, <1>12, <2>1, <2>2 DEF PayInv, Backed
  <2>3. ASSUME NEW d \in Orders, order'[d].op = "granting", NEW s, s = order'[d].ref
        PROVE  SettledPurchase(s)'
    BY <1>9, <1>10, <1>11, <2>3 DEF PayInv, Backed, Referring
  <2> QED BY <2>2, <2>3 DEF Backed
<1>14. HeldByBuyer'
  BY <1>3, <1>7, <1>12 DEF PayInv, HeldByBuyer
<1>15. DebitsBuy'
  BY <1>2, <1>3, <1>5, <1>7, <1>12 DEF PayInv, DebitsBuy
<1>16. \A q : CheckoutRef(q) # r
  BY <1>1, <1>2 DEF CheckoutRef, Tills
<1>17. ChargesFollow'
  BY <1>3, <1>10, <1>16 DEF PayInv, ChargesFollow, AnswerIs
<1> QED BY <1>13, <1>14, <1>15, <1>17 DEF PayInv

\* Orders keep payments and tickets in step.
LEMMA PaySaleStep ==
  ASSUME PayInv, TypeInv', CommerceNext
  PROVE  PayInv'
<1>0. OrderIdle \in Order /\ OrderIdle.op = "idle"
  BY DEF Order, OrderIdle
<1>1. ASSUME NEW c \in Orders, NEW u \in Users, NEW t \in Titles, NEW till \in Tills,
             NEW k \in TicketKeys, CheckTicket(c, till, u, t, k)
      PROVE  PayInv'
  <2> DEFINE o == [op |-> "checked", till |-> till, user |-> u, title |-> t, key |-> k]
  <2>1. o \in Order /\ o.op = "checked"
    BY DEF Order
  <2> QED BY <1>1, <2>1, RequestBacked DEF CheckTicket
<1>2. ASSUME NEW c \in Orders, NEW u \in Users, NEW t \in Titles, NEW x \in AppleTickets,
             ConfirmApple(c, u, t, x)
      PROVE  PayInv'
  <2>1. AppleRef(x) \in AppleRefs /\ AppleRef(x)[1] = "apple"
    BY RefKinds DEF AppleRefs
  <2>2. SettledPurchase(AppleRef(x))'
    BY <2>1 DEF SettledPurchase
  <2> QED BY <1>2, <2>1, <2>2, NewPurchaseBacked DEF ConfirmApple
<1>3. ASSUME NEW c \in Orders, NEW u \in Users, NEW t \in Titles, NEW buyer \in Users,
             BeginCheckout(c, buyer, u, t)
      PROVE  PayInv'
  <2> DEFINE o == [op |-> "checkout", buyer |-> buyer, user |-> u, title |-> t]
  <2>1. o \in Order /\ o.op = "checkout"
    BY DEF Order
  <2> QED BY <1>3, <2>1, RequestBacked DEF BeginCheckout
<1>4. ASSUME NEW c \in Orders, NEW r \in OrderRefs, CreateOrder(c, r)
      PROVE  PayInv'
  <2> DEFINE free == Price[order[c].title] = 0
             ref  == CheckoutRef(r)
             op   == IF free THEN "granting" ELSE "initializing"
             status == IF free THEN "PAID" ELSE "PENDING"
  <2>1. ref \in CheckoutRefs /\ ref[1] = "ct"
    BY RefKinds DEF CheckoutRefs
  <2>2. /\ NewPurchase(ref, order[c].buyer, order[c].user, order[c].title, status)
        /\ order' = [order EXCEPT ![c] = [op |-> op, ref |-> ref]]
        /\ UNCHANGED <<ledgerVars, entVars, charge>>
    BY <1>4 DEF CreateOrder
  <2>3. free => SettledPurchase(ref)'
    <3>1. purchase'[ref].title = order[c].title
      BY <2>2 DEF NewPurchase
    <3> QED BY <2>1, <3>1 DEF SettledPurchase
  <2>4. (status = "PAID" \/ op = "granting" => SettledPurchase(ref)')
        /\ op \in {"granting", "initializing"}
    BY <2>3
  <2> HIDE DEF ref, op, status
  <2> QED BY <2>1, <2>2, <2>4, NewPurchaseBacked
<1>5. ASSUME NEW c \in Orders, NEW r \in OrderRefs, BeginVerifyOrder(c, r)
      PROVE  PayInv'
  <2> DEFINE o == [op |-> "verifying", ref |-> CheckoutRef(r)]
  <2>1. o \in Order /\ o.op = "verifying"
    BY <1>5 DEF Order, CheckoutRefs
  <2> QED BY <1>5, <2>1, RequestBacked DEF BeginVerifyOrder
<1>6. ASSUME NEW c \in Orders, NEW r \in OrderRefs, ReceiveOrderWebhook(c, r)
      PROVE  PayInv'
  <2> DEFINE o == [op |-> "answered", ref |-> CheckoutRef(r), answer |-> charge[r]]
  <2>1. o \in Order /\ o.op = "answered"
    BY <1>6 DEF Order, CheckoutRefs, ReceiveOrderWebhook, Settlements
  <2>2. o.ref[2] = r
    BY DEF CheckoutRef
  <2> QED BY <1>6, <2>1, <2>2, RequestBacked DEF ReceiveOrderWebhook
<1>7. ASSUME NEW c \in Orders, CommitTicket(c)
      PROVE  PayInv'
  BY <1>7, CommitBacked
<1>8. ASSUME NEW c \in Orders, GrantTicket(c)
      PROVE  PayInv'
  <2>1. order[c].ref \in DOMAIN purchase /\ SettledPurchase(order[c].ref)
    BY <1>8, OrderFields DEF GrantTicket, Referring, PayInv, TypeInv, Backed
  <2> QED BY <1>8, <2>1, GrantBacked DEF GrantTicket
<1>9. ASSUME NEW c \in Orders, InitializeOrder(c)
      PROVE  PayInv'
  <2> DEFINE q == order[c].ref[2]
  <2>1. order[c].ref \in CheckoutRefs /\ order[c].ref \in DOMAIN purchase /\ charge[q] = "none"
    BY <1>9, OrderFields DEF InitializeOrder, Referring, PayInv, TypeInv, ChargesFollow
  <2>2. q \in OrderRefs /\ order[c].ref = CheckoutRef(q)
    BY <2>1, RefKinds
  <2>3. /\ charge' = [charge EXCEPT ![q] = "open"] /\ order' = [order EXCEPT ![c] = OrderIdle]
        /\ UNCHANGED <<ledgerVars, entVars, purchase>> /\ order[c].op = "initializing"
    BY <1>9 DEF InitializeOrder
  <2> HIDE DEF q
  <2>4. \A p \in OrderRefs : charge'[p] = IF p = q THEN "open" ELSE charge[p]
    BY <2>2, <2>3 DEF PayInv, TypeInv, PurchasesTypeOK
  <2>5. \A d \in Orders : order'[d] = IF d = c THEN OrderIdle ELSE order[d]
    BY <2>3 DEF PayInv, TypeInv, OrdersTypeOK
  <2>6. \A s \in DOMAIN purchase : SettledPurchase(s) => SettledPurchase(s)'
    BY <2>1, <2>3, <2>4, SettledStays DEF PayInv, TypeInv, ledgerVars
  <2>7. \A d \in Orders : order[d].op \in Referring => order[d].ref \in DOMAIN purchase
    BY DEF PayInv, TypeInv, OrdersTypeOK
  <2>8. Backed'
    BY <1>0, <2>3, <2>5, <2>6, <2>7 DEF PayInv, Backed, Referring, entVars
  <2>9. HeldByBuyer' /\ DebitsBuy'
    BY <2>3 DEF PayInv, HeldByBuyer, DebitsBuy, ledgerVars, entVars
  <2>10. \A d \in Orders : /\ order'[d].op = "initializing" => charge'[order'[d].ref[2]] = "none"
                           /\ AnswerIs(d, "paid")' => charge'[order'[d].ref[2]] = "paid"
    <3> SUFFICES ASSUME NEW d \in Orders, order'[d].op \in {"initializing", "answered"}
                 PROVE  /\ order'[d].op = "initializing" => charge'[order'[d].ref[2]] = "none"
                        /\ AnswerIs(d, "paid")' => charge'[order'[d].ref[2]] = "paid"
      BY DEF AnswerIs
    <3>1. d # c /\ order'[d] = order[d]
      BY <1>0, <2>5
    <3>2. order[d].ref \in CheckoutRefs
      BY <3>1, OrderFields DEF PayInv, TypeInv
    <3>3. order[d].op = "initializing" => order[d].ref[2] # q
      BY <2>2, <2>3, <3>1, <3>2, RefKinds DEF PayInv, ChargesFollow
    <3> QED BY <2>1, <2>4, <3>1, <3>2, <3>3, RefKinds DEF PayInv, ChargesFollow, AnswerIs
  <2>11. ChargesFollow'
    BY <1>0, <2>1, <2>2, <2>3, <2>4, <2>5, <2>10 DEF PayInv, ChargesFollow
  <2> QED BY <2>8, <2>9, <2>11 DEF PayInv
<1>10. ASSUME NEW c \in Orders, AnswerOrder(c)
       PROVE  PayInv'
  <2> DEFINE a == charge[order[c].ref[2]]
             o == IF a \in Settlements
                  THEN [op |-> "answered", ref |-> order[c].ref, answer |-> a] ELSE OrderIdle
  <2>1. order[c].ref \in CheckoutRefs
    BY <1>10, OrderFields DEF AnswerOrder, PayInv, TypeInv
  <2>2. o \in Order /\ o.op \in {"idle", "answered"}
        /\ (o.op = "answered" /\ o.answer = "paid" => charge[o.ref[2]] = "paid")
    BY <1>0, <2>1 DEF Order
  <2>3. order' = [order EXCEPT ![c] = o] /\ UNCHANGED <<ledgerVars, entVars, purchase, charge>>
    BY <1>10 DEF AnswerOrder
  <2> HIDE DEF o
  <2> QED BY <2>2, <2>3, RequestBacked
<1>11. ASSUME NEW c \in Orders, MarkPaid(c)
       PROVE  PayInv'
  <2> DEFINE r == order[c].ref
  <2>1. r \in DOMAIN purchase /\ r \in CheckoutRefs /\ charge[r[2]] = "paid"
    BY <1>11, OrderFields DEF MarkPaid, AnswerIs, Referring, PayInv, TypeInv, ChargesFollow
  <2>2. SettledPurchase(r)
    BY <2>1, RefKinds DEF SettledPurchase
  <2>3. /\ purchase' = [purchase EXCEPT ![r].status = "PAID"] /\ ent' = Granted(r, TicketFor(r))
        /\ order' = [order EXCEPT ![c] = OrderIdle] /\ UNCHANGED <<ledgerVars, charge>>
    BY <1>11 DEF MarkPaid
  <2>4. \A s \in DOMAIN purchase : purchase[s] \in PurchaseRow
    BY DEF PayInv, TypeInv, PurchasesTypeOK
  <2>5. DOMAIN purchase' = DOMAIN purchase
    BY <2>3
  <2>6. \A s \in DOMAIN purchase : /\ purchase'[s].title = purchase[s].title
                                   /\ purchase'[s].buyer = purchase[s].buyer
                                   /\ purchase'[s].user = purchase[s].user
                                   /\ \/ purchase'[s].status = purchase[s].status
                                      \/ s = r /\ purchase'[s].status = "PAID"
    BY <2>3, <2>4 DEF PurchaseRow
  <2> HIDE DEF r
  <2> QED BY <2>1, <2>2, <2>3, <2>5, <2>6, GrantBacked
<1>12. ASSUME NEW c \in Orders, FailOrder(c)
       PROVE  PayInv'
  <2> DEFINE r == order[c].ref
  <2>1. r \in DOMAIN purchase /\ r \in CheckoutRefs
    BY <1>12, OrderFields DEF FailOrder, AnswerIs, Referring, PayInv, TypeInv
  <2>2. /\ purchase' = [purchase EXCEPT ![r].status = "FAILED"]
        /\ order' = [order EXCEPT ![c] = OrderIdle] /\ UNCHANGED <<ledgerVars, entVars, charge>>
    BY <1>12 DEF FailOrder
  <2>3. \A s \in DOMAIN purchase : purchase[s] \in PurchaseRow
    BY DEF PayInv, TypeInv, PurchasesTypeOK
  <2>4. DOMAIN purchase' = DOMAIN purchase
    BY <2>2
  <2>5. \A s \in DOMAIN purchase : /\ purchase'[s].title = purchase[s].title
                                   /\ purchase'[s].buyer = purchase[s].buyer
                                   /\ purchase'[s].user = purchase[s].user
                                   /\ IF s = r THEN purchase'[s].status = "FAILED"
                                      ELSE purchase'[s] = purchase[s]
    BY <2>2, <2>3 DEF PurchaseRow
  <2> HIDE DEF r
  <2>6. \A s \in DOMAIN purchase : SettledPurchase(s) => SettledPurchase(s)'
    BY <2>2, <2>5, SettledStays DEF PayInv, TypeInv, ledgerVars
  <2>7. \A d \in Orders : order'[d] = order[d] \/ order'[d].op = "idle"
    BY <2>2 DEF PayInv, TypeInv, OrdersTypeOK, OrderIdle
  <2>8. \A d \in Orders : order[d].op \in Referring => order[d].ref \in DOMAIN purchase
    BY DEF PayInv, TypeInv, OrdersTypeOK
  <2>9. DOMAIN ent \subseteq DOMAIN purchase
    BY DEF PayInv, TypeInv, TicketsTypeOK
  <2>10. r \notin TillRefs
    BY <2>1, RefKinds DEF Tills
  <2>11. Backed'
    BY <2>2, <2>4, <2>5, <2>6, <2>7, <2>8 DEF PayInv, Backed, Referring, entVars
  <2>12. HeldByBuyer' /\ DebitsBuy'
    BY <2>2, <2>5, <2>9, <2>10 DEF PayInv, HeldByBuyer, DebitsBuy, ledgerVars, entVars
  <2>13. ChargesFollow'
    BY <2>2, <2>4, <2>7 DEF PayInv, ChargesFollow, AnswerIs
  <2> QED BY <2>11, <2>12, <2>13 DEF PayInv
<1>13. ASSUME NEW c \in Orders, EndOrder(c)
       PROVE  PayInv'
  BY <1>0, <1>13, RequestBacked DEF EndOrder
<1>14. ASSUME NEW q \in OrderRefs, NEW outcome \in Settlements, SettleOrder(q, outcome)
       PROVE  PayInv'
  <2>1. /\ charge[q] \in {"open", "failed"} /\ charge' = [charge EXCEPT ![q] = outcome]
        /\ UNCHANGED <<ledgerVars, entVars, purchase, order>>
    BY <1>14 DEF SettleOrder
  <2>2. \A p \in OrderRefs : charge'[p] = IF p = q THEN outcome ELSE charge[p]
    BY <2>1 DEF PayInv, TypeInv, PurchasesTypeOK
  <2>3. \A s \in DOMAIN purchase : SettledPurchase(s) => SettledPurchase(s)'
    BY <2>1, <2>2, SettledStays DEF PayInv, TypeInv, ledgerVars
  <2>4. \A d \in Orders : order[d].op \in Referring => order[d].ref \in DOMAIN purchase
    BY DEF PayInv, TypeInv, OrdersTypeOK
  <2>5. \A d \in Orders : order[d].op \in {"initializing", "answered"} => order[d].ref[2] \in OrderRefs
    BY OrderFields, RefKinds DEF PayInv, TypeInv
  <2>6. Backed'
    BY <2>1, <2>3, <2>4 DEF PayInv, Backed, Referring, entVars
  <2>7. HeldByBuyer' /\ DebitsBuy'
    BY <2>1 DEF PayInv, HeldByBuyer, DebitsBuy, ledgerVars, entVars
  <2>8. ChargesFollow'
    BY <2>1, <2>2, <2>5 DEF PayInv, ChargesFollow, AnswerIs
  <2> QED BY <2>6, <2>7, <2>8 DEF PayInv
<1>15. ASSUME NEW r \in DOMAIN purchase, EnsureTicket(r)
       PROVE  PayInv'
  <2>1. SettledPurchase(r)
    BY <1>15 DEF EnsureTicket, Paid, PayInv, Backed
  <2> QED BY <1>15, <2>1, GrantBacked DEF EnsureTicket, commerceVars
<1>16. CASE Tick /\ UNCHANGED <<ledgerVars, commerceVars>>
  BY <1>16 DEF Tick, PayInv, Backed, HeldByBuyer, DebitsBuy, ChargesFollow, AnswerIs,
               SettledPurchase, ledgerVars, commerceVars
<1> QED BY <1>1, <1>2, <1>3, <1>4, <1>5, <1>6, <1>7, <1>8, <1>9, <1>10, <1>11, <1>12, <1>13,
           <1>14, <1>15, <1>16 DEF CommerceNext, OrdersOf

\* Players write over rows of tickets, never over whose they are.
LEMMA ViewsKeepTickets ==
  ASSUME TypeInv, ViewingNext
  PROVE  DOMAIN ent' = DOMAIN ent
         /\ \A r \in DOMAIN ent : /\ ent'[r].user = ent[r].user /\ ent'[r].title = ent[r].title
                                  /\ ent'[r].createdAt = ent[r].createdAt
<1> DEFINE Same == DOMAIN ent' = DOMAIN ent
                   /\ \A r \in DOMAIN ent : /\ ent'[r].user = ent[r].user
                                            /\ ent'[r].title = ent[r].title
                                            /\ ent'[r].createdAt = ent[r].createdAt
<1>0. TicketsTypeOK /\ ViewsTypeOK /\ \A r \in DOMAIN ent : ent[r] \in Ticket
  BY DEF TypeInv, TicketsTypeOK, EntitlementsTypeOK
<1>1. ASSUME NEW c \in Views, OpenViewing(c)
      PROVE  Same
  <2>1. view[c].ref \in DOMAIN ent /\ ent' = Opened(view[c].ref)
    BY <1>0, <1>1, ViewFields DEF OpenViewing
  <2> QED BY <1>0, <2>1, RowWrites
<1>2. ASSUME NEW c \in Views, CompleteViewing(c)
      PROVE  Same
  <2>1. view[c].ref \in DOMAIN ent /\ ent' = Consumed(view[c].ref)
    BY <1>0, <1>2, ViewFields DEF CompleteViewing
  <2>2. DOMAIN ent' = DOMAIN ent
        /\ \A r \in DOMAIN ent : ent'[r] = [ent[r] EXCEPT !.status = ent'[r].status]
    BY <1>0, <2>1, RowWrites
  <2> QED BY <1>0, <2>2 DEF Ticket
<1>3. ASSUME NEW c \in Views, WriteExpired(c)
      PROVE  Same
  <2>1. DOMAIN ent' = DOMAIN ent
        /\ \A r \in DOMAIN ent : ent'[r] = [ent[r] EXCEPT !.status = ent'[r].status]
    BY <1>0, <1>3, RowWrites DEF WriteExpired
  <2> QED BY <1>0, <2>1 DEF Ticket
<1>4. ent' = ent => Same
  OBVIOUS
<1>5. \/ \E c \in Views : OpenViewing(c) \/ CompleteViewing(c) \/ WriteExpired(c)
      \/ ent' = ent
  BY DEF ViewingNext, ViewsOf, BeginList, BeginStart, BeginSave, ReadProgress,
         ResumeViewing, StartPlaying, SaveProgress, EndView, ClearProgress, Tick, entVars
<1> HIDE DEF Same
<1>6. Same
  BY <1>1, <1>2, <1>3, <1>4, <1>5
<1> QED BY <1>6 DEF Same

\* Every step of the shop and of the players keeps tickets, purchases and debits in step.
LEMMA PayStep == PayInv /\ [Next]_vars => PayInv'
<1> SUFFICES ASSUME PayInv, [Next]_vars PROVE PayInv'
  OBVIOUS
<1>0. TypeInv /\ TypeInv'
  BY TypeStep DEF PayInv
<1>1. CASE CommerceNext /\ UNCHANGED viewingVars
  BY <1>0, <1>1, PaySaleStep
<1>2. CASE ViewingNext /\ UNCHANGED <<ledgerVars, commerceVars>>
  <2>1. /\ DOMAIN ent' = DOMAIN ent
        /\ \A r \in DOMAIN ent : ent'[r].user = ent[r].user /\ ent'[r].title = ent[r].title
    BY <1>0, <1>2, ViewsKeepTickets
  <2>2. DOMAIN ent \subseteq DOMAIN purchase
    BY <1>0 DEF TypeInv, TicketsTypeOK
  <2> QED BY <1>0, <1>2, <2>1, <2>2 DEF PayInv, Backed, HeldByBuyer, DebitsBuy, ChargesFollow, AnswerIs,
               SettledPurchase, ledgerVars, commerceVars
<1>3. CASE UNCHANGED vars
  BY <1>0, <1>3 DEF PayInv, Backed, HeldByBuyer, DebitsBuy, ChargesFollow, AnswerIs,
               SettledPurchase, ledgerVars, commerceVars, entVars, vars
<1> QED BY <1>1, <1>2, <1>3 DEF Next

\* Whoever holds a ticket had it paid for, and whoever paid coins holds it: a paid
\* charge is final, a debit and its ticket are one commit, and every grant is of
\* a settled purchase (markPaid, grant, ensureEntitlement, purchaseWithCoins).
THEOREM TicketsArePaid == Spec => []TicketsMatchPayments
<1>1. PayInv => TicketsMatchPayments
  <2> SUFFICES ASSUME PayInv PROVE TicketsMatchPayments
    OBVIOUS
  <2>1. DOMAIN ent \subseteq DOMAIN purchase
    BY DEF PayInv, TypeInv, TicketsTypeOK
  <2>2. TicketsArePaidFor
    BY <2>1 DEF PayInv, Backed, HeldByBuyer, TicketsArePaidFor
  <2>3. CoinsBuyTickets
    BY <2>1 DEF PayInv, DebitsBuy, CoinsBuyTickets, Paid
  <2>4. CommerceTypeOK
    BY <2>1, OrderFields DEF PayInv, TypeInv, PurchasesTypeOK, PurchaseRow, TicketsTypeOK,
       CommerceTypeOK, Referring
  <2>5. ViewingTypeOK
    BY ViewFields DEF PayInv, TypeInv, TicketsTypeOK, ViewsTypeOK, ViewingTypeOK
  <2> QED BY <2>2, <2>3, <2>4, <2>5 DEF TicketsMatchPayments, TypeOK
<1> QED BY <1>1, PayInit, PayStep, PTL DEF Spec

-----------------------------------------------------------------------------

(* Two taps never buy one ticket twice.                                    *)

\* Tickets of a till that can still be opened.
Unopened(till, u, t) == {r \in Usable(u, t) : r[1] = till /\ ent[r].startedAt = Never}

Checked(c, till, u) == order[c].op = "checked" /\ order[c].till = till /\ order[c].user = u

\* The lock of a till is held by one request for a user.
TillLocked == \A c, d \in Orders, till \in Tills, u \in Users :
                Checked(c, till, u) /\ Checked(d, till, u) => c = d

\* While a request has it, no ticket of the till for its title comes up, and its
\* sandbox coins are not spent elsewhere.
CheckHolds ==
  \A c \in Orders, till \in Tills, u \in Users : Checked(c, till, u) =>
    /\ Unopened(till, u, order[c].title) = {}
    /\ till = "sandbox" => SandboxSpent(u) + Price[order[c].title] <= SandboxCoins

OneUnopened ==
  \A till \in Tills, u \in Users, t \in Titles :
    \A r, s \in Unopened(till, u, t) : r = s

TillsKeepUsers == \A r \in DOMAIN purchase : r[1] \in Tills => purchase[r].user = r[2]

TapInv ==
  /\ TillLocked /\ CheckHolds /\ OneUnopened /\ TillsKeepUsers /\ SandboxNeverOverspends
  /\ IsFiniteSet(DOMAIN purchase)

\* No tap is in progress at first.
LEMMA TapInit == Init => TapInv
<1> SUFFICES ASSUME Init PROVE TapInv
  OBVIOUS
<1> USE DEF Init, CommerceInit, EntitlementsInit, ViewingInit
<1>1. DOMAIN ent = {} /\ DOMAIN purchase = {} /\ IsFiniteSet(DOMAIN purchase)
  BY FS_EmptySet
<1>2. \A c \in Orders : order[c].op = "idle"
  BY DEF OrderIdle
<1>3. TillLocked /\ CheckHolds /\ TillsKeepUsers
  BY <1>1, <1>2 DEF TillLocked, CheckHolds, TillsKeepUsers, Checked
<1>4. OneUnopened
  BY <1>1 DEF OneUnopened, Unopened, Usable, TicketsOf
<1>5. ASSUME NEW u \in Users
      PROVE  SandboxSpent(u) <= SandboxCoins
  <2> DEFINE f == [r \in {s \in DOMAIN purchase : s[1] = "sandbox" /\ s[2] = u} |->
                     Price[purchase[r].title]]
  <2>1. DOMAIN f = {}
    BY <1>1
  <2>2. SumFunction(f) = 0
    BY <2>1, SumNone
  <2> HIDE DEF Init, CommerceInit, EntitlementsInit, ViewingInit
  <2> QED BY <2>2, CommerceConstants DEF SandboxSpent
<1> QED BY <1>1, <1>3, <1>4, <1>5 DEF TapInv, SandboxNeverOverspends

\* What any step does to a ticket that is there: it stays its viewer's, it may be
\* opened, run out or be used up, and time passes.
Ages(r) ==
  /\ r \in DOMAIN ent'
  /\ ent'[r].user = ent[r].user /\ ent'[r].title = ent[r].title
  /\ ent'[r].createdAt = ent[r].createdAt
  /\ ent'[r].status = "ACTIVE" => ent[r].status = "ACTIVE"
  /\ ent'[r].startedAt = Never => ent'[r].expiresAt = ent[r].expiresAt /\ ent[r].startedAt = Never

LEMMA TicketsAge ==
  ASSUME TypeInv, [Next]_vars
  PROVE  /\ \A r \in DOMAIN ent : Ages(r)
         /\ now' \in {now, now + 1}
<1>0. TicketsTypeOK /\ ViewsTypeOK /\ now \in Nat
      /\ \A r \in DOMAIN ent : ent[r] \in Ticket
  BY EntitlementConstants DEF TypeInv, TicketsTypeOK, EntitlementsTypeOK
<1>1. CASE CommerceNext
  BY <1>1, OrdersAddTickets DEF Ages
<1>2. CASE UNCHANGED entVars
  BY <1>2 DEF entVars, Ages
<1>3. CASE ViewingNext
  <2>1. now' \in {now, now + 1}
    BY <1>3 DEF ViewingNext, ViewsOf, BeginList, BeginStart, BeginSave, ReadProgress,
         ResumeViewing, StartPlaying, SaveProgress, EndView, ClearProgress, Tick, Stamp, entVars,
         OpenViewing, CompleteViewing, WriteExpired
  <2>2. \A r \in DOMAIN ent : /\ r \in DOMAIN ent'
                              /\ ent'[r].user = ent[r].user /\ ent'[r].title = ent[r].title
                              /\ ent'[r].createdAt = ent[r].createdAt
    BY <1>3, ViewsKeepTickets
  <2>3. ASSUME NEW c \in Views, OpenViewing(c), NEW r \in DOMAIN ent
        PROVE  Ages(r)
    <3>1. view[c].ref \in DOMAIN ent /\ ent' = Opened(view[c].ref)
      BY <1>0, <2>3, ViewFields DEF OpenViewing
    <3>2. r # view[c].ref => ent'[r] = ent[r]
      BY <1>0, <3>1, RowWrites
    <3>3. r = view[c].ref => ent'[r].startedAt # Never
      BY <1>0, <3>1, RowWrites DEF Never
    <3>4. ent'[r].status = ent[r].status
      BY <1>0, <3>1, RowWrites
    <3> QED BY <2>2, <3>2, <3>3, <3>4 DEF Ages
  <2>4. ASSUME NEW c \in Views, CompleteViewing(c) \/ WriteExpired(c), NEW r \in DOMAIN ent
        PROVE  Ages(r)
    <3>1. ent'[r] = [ent[r] EXCEPT !.status = ent'[r].status]
          /\ (ent'[r].status = "ACTIVE" => ent[r].status = "ACTIVE")
      <4>1. CASE CompleteViewing(c)
        <5>1. view[c].ref \in DOMAIN ent /\ ent' = Consumed(view[c].ref)
          BY <1>0, <4>1, ViewFields DEF CompleteViewing
        <5> QED BY <1>0, <5>1, RowWrites
      <4>2. CASE WriteExpired(c)
        BY <1>0, <4>2, RowWrites DEF WriteExpired
      <4> QED BY <2>4, <4>1, <4>2
    <3>2. ent'[r].startedAt = ent[r].startedAt /\ ent'[r].expiresAt = ent[r].expiresAt
      BY <1>0, <3>1 DEF Ticket
    <3> QED BY <2>2, <3>1, <3>2 DEF Ages
  <2>5. \/ \E c \in Views : OpenViewing(c) \/ CompleteViewing(c) \/ WriteExpired(c)
        \/ ent' = ent
    BY <1>3 DEF ViewingNext, ViewsOf, BeginList, BeginStart, BeginSave, ReadProgress,
         ResumeViewing, StartPlaying, SaveProgress, EndView, ClearProgress, Tick, entVars
  <2>6. ent' = ent => \A r \in DOMAIN ent : Ages(r)
    BY DEF Ages
  <2> QED BY <2>1, <2>3, <2>4, <2>5, <2>6
<1> QED BY <1>1, <1>2, <1>3 DEF Next, vars

\* A ticket that is still unopened and usable was so before.
LEMMA UnopenedBefore ==
  ASSUME TypeInv, TypeInv', [Next]_vars, NEW till, NEW u, NEW t,
         NEW r \in Unopened(till, u, t)', r \in DOMAIN ent
  PROVE  r \in Unopened(till, u, t)
<1>1. Ages(r) /\ now' \in {now, now + 1} /\ now \in Int
  BY TicketsAge, EntitlementConstants DEF TypeInv, TicketsTypeOK, EntitlementsTypeOK
<1>2. /\ r[1] = till /\ ent'[r].user = u /\ ent'[r].title = t
      /\ ent'[r].status = "ACTIVE" /\ ent'[r].startedAt = Never
      /\ ~(ent'[r].expiresAt # Never /\ ent'[r].expiresAt <= now')
  BY DEF Unopened, Usable, TicketsOf, Elapsed
<1>3. ent[r].expiresAt \in Int
  BY EntitlementConstants DEF TypeInv, TicketsTypeOK, EntitlementsTypeOK, Ticket, Times, Never
<1>4. ~(ent[r].expiresAt # Never /\ ent[r].expiresAt <= now)
  BY <1>1, <1>2, <1>3 DEF Ages
<1> QED BY <1>1, <1>2, <1>4 DEF Ages, Unopened, Usable, TicketsOf, Elapsed

\* The sandbox coins spent are the prices of the sandbox purchases.
LEMMA SandboxSpentKept ==
  ASSUME NEW u, \A r : r \in DOMAIN purchase' /\ r[1] = "sandbox" <=> r \in DOMAIN purchase /\ r[1] = "sandbox",
         \A r \in DOMAIN purchase : purchase'[r].title = purchase[r].title
  PROVE  SandboxSpent(u)' = SandboxSpent(u)
<1> DEFINE S == {s \in DOMAIN purchase : s[1] = "sandbox" /\ s[2] = u}
           T == {s \in DOMAIN purchase' : s[1] = "sandbox" /\ s[2] = u}
<1>1. S = T
  OBVIOUS
<1>2. [r \in T |-> Price[purchase'[r].title]] = [r \in S |-> Price[purchase[r].title]]
  BY <1>1
<1> QED BY <1>2 DEF SandboxSpent

\* Steps that sell nothing at a till keep what the taps rely on.
LEMMA TapsKept ==
  ASSUME TapInv, TypeInv, TypeInv', [Next]_vars, IsFiniteSet(DOMAIN purchase'),
         \A r \in DOMAIN ent' \ DOMAIN ent : r[1] \notin Tills,
         \A r \in DOMAIN purchase : /\ r \in DOMAIN purchase'
                                    /\ purchase'[r].title = purchase[r].title
                                    /\ purchase'[r].user = purchase[r].user,
         \A r \in DOMAIN purchase' \ DOMAIN purchase : r[1] \notin Tills,
         \A c \in Orders : order'[c] = order[c] \/ order'[c].op # "checked"
  PROVE  TapInv'
<1>1. \A till \in Tills : \A u, t : Unopened(till, u, t)' \subseteq Unopened(till, u, t)
  <2> SUFFICES ASSUME NEW till \in Tills, NEW u, NEW t, NEW r \in Unopened(till, u, t)'
               PROVE  r \in Unopened(till, u, t)
    OBVIOUS
  <2>1. r \in DOMAIN ent' /\ r[1] = till
    BY DEF Unopened, Usable, TicketsOf
  <2> QED BY <2>1, UnopenedBefore
<1>2. \A u \in Users : SandboxSpent(u)' = SandboxSpent(u)
  BY SandboxSpentKept DEF Tills
<1>3. \A c \in Orders : \A till, u : Checked(c, till, u)' => Checked(c, till, u) /\ order'[c] = order[c]
  BY DEF Checked
<1>4. TillLocked'
  BY <1>3 DEF TapInv, TillLocked
<1>5. CheckHolds'
  <2> SUFFICES ASSUME NEW c \in Orders, NEW till \in Tills, NEW u \in Users, Checked(c, till, u)'
               PROVE  /\ Unopened(till, u, order[c].title)' = {}
                      /\ till = "sandbox" => SandboxSpent(u)' + Price[order'[c].title] <= SandboxCoins
    BY DEF CheckHolds
  <2>1. Checked(c, till, u) /\ order'[c] = order[c]
    BY <1>3
  <2>2. /\ Unopened(till, u, order[c].title) = {}
        /\ till = "sandbox" => SandboxSpent(u) + Price[order[c].title] <= SandboxCoins
    BY <2>1 DEF TapInv, CheckHolds
  <2>3. PICK t : t = order[c].title
    OBVIOUS
  <2>4. Unopened(till, u, t)' = {}
    BY <1>1, <2>2, <2>3
  <2>5. Unopened(till, u, order[c].title)' = {}
    BY <2>1, <2>3, <2>4 DEF Unopened, Usable, TicketsOf, Elapsed
  <2> QED BY <1>2, <2>1, <2>2, <2>5
<1>6. OneUnopened'
  BY <1>1 DEF TapInv, OneUnopened
<1>7. TillsKeepUsers' /\ SandboxNeverOverspends'
  BY <1>2 DEF TapInv, TillsKeepUsers, SandboxNeverOverspends
<1> QED BY <1>4, <1>5, <1>6, <1>7 DEF TapInv

\* The check of a purchase with coins: nobody else holds the till's lock, no usable
\* ticket is there, the sandbox coins suffice.
LEMMA CheckTaps ==
  ASSUME TapInv, TypeInv, NEW c \in Orders, NEW till \in Tills, NEW u \in Users, NEW t \in Titles,
         NEW k, CheckTicket(c, till, u, t, k)
  PROVE  TapInv'
<1> DEFINE o == [op |-> "checked", till |-> till, user |-> u, title |-> t, key |-> k]
<1>1. /\ ~Locked(till, u) /\ Usable(u, t) = {} /\ Affords(till, u, t)
      /\ order' = [order EXCEPT ![c] = o] /\ UNCHANGED <<ledgerVars, entVars, purchase, charge>>
  BY DEF CheckTicket
<1>2. \A d \in Orders : order'[d] = IF d = c THEN o ELSE order[d]
  BY <1>1 DEF TypeInv, OrdersTypeOK
<1>3. o.op = "checked" /\ o.till = till /\ o.user = u /\ o.title = t
  OBVIOUS
<1> HIDE DEF o
<1>4. \A d \in Orders : ~Checked(d, till, u)
  BY <1>1 DEF Locked, Checked
<1>5. \A x, v, s : Unopened(x, v, s)' = Unopened(x, v, s)
  BY <1>1 DEF Unopened, Usable, TicketsOf, Elapsed, entVars
<1>6. \A v : SandboxSpent(v)' = SandboxSpent(v)
  BY <1>1, SandboxSpentKept
<1>7. TillLocked'
  BY <1>2, <1>3, <1>4 DEF TapInv, TillLocked, Checked
<1>8. CheckHolds'
  <2> SUFFICES ASSUME NEW d \in Orders, NEW x \in Tills, NEW v \in Users, Checked(d, x, v)'
               PROVE  /\ Unopened(x, v, order[d].title)' = {}
                      /\ x = "sandbox" => SandboxSpent(v)' + Price[order'[d].title] <= SandboxCoins
    BY DEF CheckHolds
  <2>1. PICK s : s = order'[d].title
    OBVIOUS
  <2>2. Unopened(x, v, s) = {} /\ (x = "sandbox" => SandboxSpent(v) + Price[s] <= SandboxCoins)
    <3>1. CASE d = c
      BY <1>1, <1>2, <1>3, <2>1, <3>1 DEF Checked, Unopened, Affords
    <3>2. CASE d # c
      BY <1>2, <2>1, <3>2 DEF TapInv, CheckHolds, Checked
    <3> QED BY <3>1, <3>2
  <2>3. Unopened(x, v, s)' = {}
    BY <1>5, <2>2
  <2>4. Unopened(x, v, order[d].title)' = {}
    BY <2>1, <2>3 DEF Unopened, Usable, TicketsOf, Elapsed
  <2> QED BY <1>6, <2>1, <2>2, <2>4
<1>9. OneUnopened'
  BY <1>5 DEF TapInv, OneUnopened
<1>10. TillsKeepUsers' /\ SandboxNeverOverspends' /\ IsFiniteSet(DOMAIN purchase')
  BY <1>1, <1>6 DEF TapInv, TillsKeepUsers, SandboxNeverOverspends
<1> QED BY <1>7, <1>8, <1>9, <1>10 DEF TapInv

\* One more sandbox purchase of u is its price more.
LEMMA SandboxSpentGrows ==
  ASSUME PurchasesTypeOK, IsFiniteSet(DOMAIN purchase), NEW u \in Users, NEW r,
         r \notin DOMAIN purchase, DOMAIN purchase' = DOMAIN purchase \cup {r},
         r[1] = "sandbox" /\ r[2] = u, purchase'[r].title \in Titles,
         \A s \in DOMAIN purchase : purchase'[s] = purchase[s]
  PROVE  SandboxSpent(u)' = SandboxSpent(u) + Price[purchase'[r].title]
<1> DEFINE S == {s \in DOMAIN purchase : s[1] = "sandbox" /\ s[2] = u}
           T == {s \in DOMAIN purchase' : s[1] = "sandbox" /\ s[2] = u}
           f == [s \in S |-> Price[purchase[s].title]]
           g == [s \in T |-> Price[purchase'[s].title]]
<1>1. T = S \cup {r} /\ r \notin S
  OBVIOUS
<1>2. IsFiniteSet(S)
  BY FS_Subset
<1>3. f \in [S -> Int]
  BY CommerceConstants DEF PurchasesTypeOK, PurchaseRow
<1>4. g \in [T -> Int] /\ \A s \in S : g[s] = f[s]
  BY <1>1, CommerceConstants DEF PurchasesTypeOK, PurchaseRow
<1>5. g[r] = Price[purchase'[r].title]
  BY <1>1
<1>6. SandboxSpent(u) = SumFunction(f) /\ SandboxSpent(u)' = SumFunction(g)
  BY DEF SandboxSpent
<1> HIDE DEF S, T, f, g
<1> QED BY <1>1, <1>2, <1>3, <1>4, <1>5, <1>6, SumAdd

\* The commit: the till's lock is released, its one ticket is there and paid for.
LEMMA CommitTaps ==
  ASSUME TapInv, TypeInv, TypeInv', [Next]_vars, NEW c \in Orders, CommitTicket(c)
  PROVE  TapInv'
<1>0. PICK o : o = order[c]
  OBVIOUS
<1> DEFINE r == TicketRef(o.till, o.user, o.key)
           ticket == NewTicket(o.user, o.title, Expiry(o.till))
           row == [buyer |-> o.user, user |-> o.user, title |-> o.title, status |-> "PAID"]
<1>1. /\ o.till \in Tills /\ o.user \in Users /\ o.title \in Titles /\ o.key \in TicketKeys
      /\ Checked(c, o.till, o.user)
  BY <1>0, OrderFields DEF TypeInv, CommitTicket, Checked
<1>2. r[1] = o.till /\ r[2] = o.user
  BY DEF TicketRef
<1>3. /\ r \notin DOMAIN purchase
      /\ purchase' = [s \in DOMAIN purchase \cup {r} |->
                        IF s \in DOMAIN purchase THEN purchase[s] ELSE row]
      /\ ent' = Granted(r, ticket)
      /\ order' = [order EXCEPT ![c] = OrderIdle]
  BY <1>0 DEF CommitTicket, NewPurchase
<1>4. row.title = o.title /\ row.user = o.user /\ ticket.user = o.user /\ ticket.title = o.title
  BY DEF NewTicket
<1> HIDE DEF r, ticket, row
<1>5. \A d \in Orders : order'[d] = IF d = c THEN OrderIdle ELSE order[d]
  BY <1>3 DEF TypeInv, OrdersTypeOK
<1>6. \A d \in Orders : \A x, v : Checked(d, x, v)' => d # c /\ Checked(d, x, v) /\ order'[d] = order[d]
  BY <1>5 DEF Checked, OrderIdle
<1>7. \A d \in Orders : ~Checked(d, o.till, o.user)'
  BY <1>1, <1>6 DEF TapInv, TillLocked
<1>8. /\ DOMAIN ent' = DOMAIN ent \cup {r} /\ r \notin DOMAIN ent /\ ent'[r] = ticket
      /\ DOMAIN purchase' = DOMAIN purchase \cup {r} /\ purchase'[r] = row
      /\ \A s \in DOMAIN purchase : purchase'[s] = purchase[s]
  BY <1>3 DEF Granted, TypeInv, TicketsTypeOK
<1>9. \A x \in Tills, v \in Users, t \in Titles :
        \A s \in Unopened(x, v, t)' :
          s \in Unopened(x, v, t) \/ (s = r /\ x = o.till /\ v = o.user /\ t = o.title)
  <2> SUFFICES ASSUME NEW x \in Tills, NEW v \in Users, NEW t \in Titles,
                      NEW s \in Unopened(x, v, t)', s \notin Unopened(x, v, t)
               PROVE  s = r /\ x = o.till /\ v = o.user /\ t = o.title
    OBVIOUS
  <2>1. s \in DOMAIN ent' /\ s[1] = x /\ ent'[s].user = v /\ ent'[s].title = t
    BY DEF Unopened, Usable, TicketsOf
  <2>2. s = r
    BY <1>8, <2>1, UnopenedBefore
  <2> QED BY <1>2, <1>4, <1>8, <2>1, <2>2
<1>10. Unopened(o.till, o.user, o.title) = {}
  BY <1>0, <1>1 DEF TapInv, CheckHolds
<1>11. OneUnopened'
  <2> SUFFICES ASSUME NEW x \in Tills, NEW v \in Users, NEW t \in Titles,
                      NEW p \in Unopened(x, v, t)', NEW q \in Unopened(x, v, t)'
               PROVE  p = q
    BY DEF OneUnopened
  <2>1. CASE x = o.till /\ v = o.user /\ t = o.title
    BY <1>9, <1>10, <2>1
  <2>2. CASE ~(x = o.till /\ v = o.user /\ t = o.title)
    <3>1. p \in Unopened(x, v, t) /\ q \in Unopened(x, v, t)
      BY <1>9, <2>2
    <3> QED BY <3>1 DEF TapInv, OneUnopened
  <2> QED BY <2>1, <2>2
<1>12. TillLocked'
  BY <1>6 DEF TapInv, TillLocked
<1>13. \A v \in Users : \/ SandboxSpent(v)' = SandboxSpent(v)
                        \/ /\ o.till = "sandbox" /\ v = o.user
                           /\ SandboxSpent(v)' = SandboxSpent(v) + Price[o.title]
  <2> SUFFICES ASSUME NEW v \in Users
               PROVE  \/ SandboxSpent(v)' = SandboxSpent(v)
                      \/ /\ o.till = "sandbox" /\ v = o.user
                         /\ SandboxSpent(v)' = SandboxSpent(v) + Price[o.title]
    OBVIOUS
  <2>1. CASE o.till = "sandbox" /\ v = o.user
    <3>1. SandboxSpent(v)' = SandboxSpent(v) + Price[purchase'[r].title]
      BY <1>1, <1>2, <1>3, <1>4, <1>8, <2>1, SandboxSpentGrows DEF TapInv, TypeInv
    <3> QED BY <1>4, <1>8, <2>1, <3>1
  <2>2. CASE ~(o.till = "sandbox" /\ v = o.user)
    <3> DEFINE S == {s \in DOMAIN purchase : s[1] = "sandbox" /\ s[2] = v}
               T == {s \in DOMAIN purchase' : s[1] = "sandbox" /\ s[2] = v}
    <3>1. S = T
      BY <1>2, <1>8, <2>2
    <3>2. [s \in T |-> Price[purchase'[s].title]] = [s \in S |-> Price[purchase[s].title]]
      BY <1>8, <3>1
    <3>3. SandboxSpent(v)' = SandboxSpent(v)
      BY <3>2 DEF SandboxSpent
    <3> QED BY <3>3
  <2> QED BY <2>1, <2>2
<1>14. SandboxNeverOverspends'
  <2> SUFFICES ASSUME NEW v \in Users PROVE SandboxSpent(v)' <= SandboxCoins
    BY DEF SandboxNeverOverspends
  <2>1. SandboxSpent(v) <= SandboxCoins
    BY DEF TapInv, SandboxNeverOverspends
  <2>2. o.till = "sandbox" => SandboxSpent(o.user) + Price[o.title] <= SandboxCoins
    BY <1>0, <1>1 DEF TapInv, CheckHolds
  <2>3. CASE SandboxSpent(v)' = SandboxSpent(v)
    BY <2>1, <2>3
  <2>4. CASE /\ o.till = "sandbox" /\ v = o.user
             /\ SandboxSpent(v)' = SandboxSpent(v) + Price[o.title]
    BY <2>2, <2>4
  <2> QED BY <1>13, <2>3, <2>4
<1>15. CheckHolds'
  <2> SUFFICES ASSUME NEW d \in Orders, NEW x \in Tills, NEW v \in Users, Checked(d, x, v)'
               PROVE  /\ Unopened(x, v, order[d].title)' = {}
                      /\ x = "sandbox" => SandboxSpent(v)' + Price[order'[d].title] <= SandboxCoins
    BY DEF CheckHolds
  <2>1. PICK s : s = order[d].title
    OBVIOUS
  <2>2. Checked(d, x, v) /\ order'[d] = order[d] /\ ~(x = o.till /\ v = o.user)
    BY <1>6, <1>7
  <2>3. Unopened(x, v, s) = {} /\ (x = "sandbox" => SandboxSpent(v) + Price[s] <= SandboxCoins)
    BY <2>1, <2>2 DEF TapInv, CheckHolds
  <2>4. s \in Titles
    BY <2>1, <2>2, OrderFields DEF TypeInv, Checked
  <2>5. Unopened(x, v, s)' = {}
    BY <1>9, <2>2, <2>3, <2>4
  <2>6. Unopened(x, v, order[d].title)' = {}
    BY <2>1, <2>2, <2>5 DEF Unopened, Usable, TicketsOf, Elapsed
  <2>7. x = "sandbox" => SandboxSpent(v)' = SandboxSpent(v)
    BY <1>13, <2>2
  <2> QED BY <2>1, <2>2, <2>3, <2>6, <2>7
<1>16. TillsKeepUsers' /\ IsFiniteSet(DOMAIN purchase')
  BY <1>2, <1>4, <1>8, FS_AddElement DEF TapInv, TillsKeepUsers
<1> QED BY <1>11, <1>12, <1>14, <1>15, <1>16 DEF TapInv

\* Every step keeps one tap from buying twice.
LEMMA TapStep ==
  ASSUME TapInv, TypeInv, TypeInv', [Next]_vars
  PROVE  TapInv'
<1>0. OrderIdle.op # "checked" /\ (\A r \in CheckoutRefs \cup AppleRefs : r[1] \notin Tills)
      /\ OrdersTypeOK /\ PurchasesTypeOK /\ order \in [Orders -> Order]
      /\ \A r \in DOMAIN purchase : purchase[r] \in PurchaseRow
  BY RefKinds DEF OrderIdle, Tills, TypeInv, OrdersTypeOK, PurchasesTypeOK
<1> DEFINE Sold == /\ IsFiniteSet(DOMAIN purchase')
                   /\ \A r \in DOMAIN ent' \ DOMAIN ent : r[1] \notin Tills
                   /\ \A r \in DOMAIN purchase : /\ r \in DOMAIN purchase'
                                                 /\ purchase'[r].title = purchase[r].title
                                                 /\ purchase'[r].user = purchase[r].user
                   /\ \A r \in DOMAIN purchase' \ DOMAIN purchase : r[1] \notin Tills
                   /\ \A c \in Orders : order'[c] = order[c] \/ order'[c].op # "checked"
<1>a. Sold => TapInv'
  BY TapsKept
<1>b. ASSUME UNCHANGED purchase PROVE \A r \in DOMAIN purchase' \ DOMAIN purchase : FALSE
  BY <1>b
<1>c. IsFiniteSet(DOMAIN purchase)
  BY DEF TapInv
<1>d. ASSUME NEW r, r[1] \notin Tills, NEW ticket, ent' = Granted(r, ticket)
      PROVE  \A s \in DOMAIN ent' \ DOMAIN ent : s[1] \notin Tills
  BY <1>d DEF Granted
<1>e. ASSUME NEW r, r[1] \notin Tills, NEW b, NEW u, NEW t, NEW status,
             NewPurchase(r, b, u, t, status), UNCHANGED ent,
             NEW c \in Orders, NEW o, o.op # "checked", order' = [order EXCEPT ![c] = o]
      PROVE  TapInv'
  <2>1. DOMAIN purchase' = DOMAIN purchase \cup {r}
        /\ \A s \in DOMAIN purchase : purchase'[s] = purchase[s]
    BY <1>e DEF NewPurchase
  <2>2. \A d \in Orders : order'[d] = order[d] \/ order'[d].op # "checked"
    BY <1>0, <1>e
  <2>3. IsFiniteSet(DOMAIN purchase')
    BY <1>c, <2>1, FS_AddElement
  <2> QED BY <1>a, <1>e, <2>1, <2>2, <2>3
<1>f. ASSUME UNCHANGED <<ent, purchase>>,
             NEW c \in Orders, NEW o, o.op # "checked", order' = [order EXCEPT ![c] = o]
      PROVE  TapInv'
  <2>1. \A d \in Orders : order'[d] = order[d] \/ order'[d].op # "checked"
    BY <1>0, <1>f
  <2> QED BY <1>a, <1>c, <1>f, <2>1
<1>1. ASSUME NEW c \in Orders, NEW u \in Users, NEW t \in Titles, NEW till \in Tills,
             NEW k \in TicketKeys, CheckTicket(c, till, u, t, k)
      PROVE  TapInv'
  BY <1>1, CheckTaps
<1>2. ASSUME NEW c \in Orders, NEW u, NEW t, NEW x \in AppleTickets, ConfirmApple(c, u, t, x)
      PROVE  TapInv'
  <2>1. AppleRef(x)[1] \notin Tills
    BY <1>0 DEF AppleRefs
  <2> QED BY <1>2, <1>e, <2>1 DEF ConfirmApple, entVars
<1>3. ASSUME NEW c \in Orders, NEW u, NEW t, NEW buyer, BeginCheckout(c, buyer, u, t)
      PROVE  TapInv'
  BY <1>3, <1>f DEF BeginCheckout, entVars
<1>4. ASSUME NEW c \in Orders, NEW r \in OrderRefs, CreateOrder(c, r)
      PROVE  TapInv'
  <2> DEFINE free == Price[order[c].title] = 0
             ref  == CheckoutRef(r)
             o    == [op |-> IF free THEN "granting" ELSE "initializing", ref |-> ref]
             status == IF free THEN "PAID" ELSE "PENDING"
  <2>1. ref[1] \notin Tills
    BY <1>0 DEF CheckoutRefs
  <2>2. /\ NewPurchase(ref, order[c].buyer, order[c].user, order[c].title, status)
        /\ order' = [order EXCEPT ![c] = o] /\ UNCHANGED ent
    BY <1>4 DEF CreateOrder, entVars
  <2>3. o.op # "checked"
    OBVIOUS
  <2> HIDE DEF ref, o, status
  <2> QED BY <1>e, <2>1, <2>2, <2>3
<1>5. ASSUME NEW c \in Orders, NEW r \in OrderRefs, BeginVerifyOrder(c, r) \/ ReceiveOrderWebhook(c, r)
      PROVE  TapInv'
  BY <1>5, <1>f DEF BeginVerifyOrder, ReceiveOrderWebhook, entVars
<1>6. ASSUME NEW c \in Orders, InitializeOrder(c) \/ EndOrder(c)
      PROVE  TapInv'
  BY <1>0, <1>6, <1>f DEF InitializeOrder, EndOrder, entVars
<1>7. ASSUME NEW c \in Orders, AnswerOrder(c)
      PROVE  TapInv'
  <2> DEFINE a == charge[order[c].ref[2]]
             o == IF a \in Settlements
                  THEN [op |-> "answered", ref |-> order[c].ref, answer |-> a] ELSE OrderIdle
  <2>1. o.op # "checked"
    BY <1>0
  <2>2. order' = [order EXCEPT ![c] = o] /\ UNCHANGED <<ent, purchase>>
    BY <1>7 DEF AnswerOrder, entVars
  <2> HIDE DEF o
  <2> QED BY <1>f, <2>1, <2>2
<1>8. ASSUME NEW c \in Orders, CommitTicket(c)
      PROVE  TapInv'
  BY <1>8, CommitTaps
<1>9. ASSUME NEW c \in Orders, GrantTicket(c) \/ MarkPaid(c)
      PROVE  TapInv'
  <2> DEFINE r == order[c].ref
  <2>1. r[1] \notin Tills /\ r \in DOMAIN purchase
    BY <1>0, <1>9, OrderFields DEF GrantTicket, MarkPaid, AnswerIs, Referring
  <2>2. /\ ent' = Granted(r, TicketFor(r)) /\ order' = [order EXCEPT ![c] = OrderIdle]
        /\ purchase' = purchase \/ purchase' = [purchase EXCEPT ![r].status = "PAID"]
    BY <1>9 DEF GrantTicket, MarkPaid
  <2>3. DOMAIN purchase' = DOMAIN purchase
        /\ \A s \in DOMAIN purchase : /\ purchase'[s].title = purchase[s].title
                                      /\ purchase'[s].user = purchase[s].user
    BY <1>0, <2>2 DEF PurchaseRow
  <2>4. \A d \in Orders : order'[d] = order[d] \/ order'[d].op # "checked"
    BY <1>0, <2>2
  <2>5. \A s \in DOMAIN ent' \ DOMAIN ent : s[1] \notin Tills
    BY <1>d, <2>1, <2>2
  <2> QED BY <1>a, <1>c, <2>3, <2>4, <2>5
<1>10. ASSUME NEW c \in Orders, FailOrder(c)
       PROVE  TapInv'
  <2> DEFINE r == order[c].ref
  <2>1. /\ purchase' = [purchase EXCEPT ![r].status = "FAILED"]
        /\ order' = [order EXCEPT ![c] = OrderIdle] /\ UNCHANGED ent
    BY <1>10 DEF FailOrder, entVars
  <2>2. DOMAIN purchase' = DOMAIN purchase
        /\ \A s \in DOMAIN purchase : /\ purchase'[s].title = purchase[s].title
                                      /\ purchase'[s].user = purchase[s].user
    BY <1>0, <2>1 DEF PurchaseRow
  <2>3. \A d \in Orders : order'[d] = order[d] \/ order'[d].op # "checked"
    BY <1>0, <2>1
  <2> QED BY <1>a, <1>c, <2>1, <2>2, <2>3
<1>11. ASSUME NEW r \in DOMAIN purchase, EnsureTicket(r)
       PROVE  TapInv'
  <2>1. r[1] \notin Tills /\ ent' = Granted(r, TicketFor(r)) /\ UNCHANGED <<purchase, order>>
    BY <1>11 DEF EnsureTicket, commerceVars, Tills
  <2> QED BY <1>a, <1>c, <1>d, <2>1
<1>12. ASSUME UNCHANGED <<purchase, order>>, DOMAIN ent' = DOMAIN ent
       PROVE  TapInv'
  BY <1>12, <1>a, <1>c
<1> HIDE DEF Sold
<1>13. CASE CommerceNext
  <2>1. ASSUME NEW q \in OrderRefs, NEW outcome \in Settlements, SettleOrder(q, outcome)
        PROVE  TapInv'
    BY <1>12, <2>1 DEF SettleOrder, entVars
  <2>2. CASE Tick /\ UNCHANGED <<ledgerVars, commerceVars>>
    BY <1>12, <2>2 DEF Tick, commerceVars
  <2> QED BY <1>1, <1>2, <1>3, <1>4, <1>5, <1>6, <1>7, <1>8, <1>9, <1>10, <1>11, <1>13, <2>1, <2>2
          DEF CommerceNext, OrdersOf
<1>14. CASE ViewingNext /\ UNCHANGED <<ledgerVars, commerceVars>>
  BY <1>12, <1>14, ViewsKeepTickets DEF commerceVars
<1>15. CASE UNCHANGED vars
  BY <1>12, <1>15 DEF vars, commerceVars, entVars
<1> QED BY <1>13, <1>14, <1>15 DEF Next

\* "so different taps cannot buy the same active ticket twice": the check and the
\* commit of a purchase stand under one lock of its till and user, so the till never
\* sells a viewer a second unopened ticket for a title, and sandbox coins are spent
\* once (purchaseWithCoins, purchaseWithSandboxCoins).
THEOREM TapsBuyATicketOnce == Spec => []TapsBuyOnce
<1>1. TypeInv /\ TapInv => TapsBuyOnce
  <2> SUFFICES ASSUME TypeInv, TapInv PROVE TapsBuyOnce
    OBVIOUS
  <2>1. ASSUME NEW u \in Viewers, NEW t \in Titles, NEW till \in Tills
        PROVE  Cardinality(Unopened(till, u, t)) <= 1
    <3>1. \A r, s \in Unopened(till, u, t) : r = s
      BY CommerceConstants DEF TapInv, OneUnopened
    <3>2. CASE Unopened(till, u, t) = {}
      BY <3>2, FS_EmptySet
    <3>3. CASE Unopened(till, u, t) # {}
      <4>1. PICK r : r \in Unopened(till, u, t)
        BY <3>3
      <4>2. Unopened(till, u, t) = {r}
        BY <3>1, <4>1
      <4>3. Cardinality(Unopened(till, u, t)) = 1
        BY <4>2, FS_Singleton
      <4> QED BY <4>3
    <3> QED BY <3>2, <3>3
  <2>2. NoTicketTwice
    BY <2>1 DEF NoTicketTwice, Unopened
  <2> QED BY <2>2 DEF TapsBuyOnce, TapInv
<1>2. TapInv /\ TypeInv /\ TypeInv' /\ [Next]_vars => TapInv'
  BY TapStep
<1> QED BY <1>1, <1>2, TapInit, TicketTypes, PTL DEF Spec

-----------------------------------------------------------------------------

(* A ticket is not used up before it is played.                            *)

\* A ticket that was opened, or that is the first its viewer had for the title: one
\* bought again gets there only by being opened.
Played(r) == ent[r].startedAt # Never \/ ~Rebought(r)

KeepInv ==
  /\ \A r \in DOMAIN ent : ent[r].createdAt <= now
  /\ \A r \in DOMAIN ent : ent[r].status = "CONSUMED" => Played(r)
  /\ \A c \in Views : view[c].op \in {"saving", "completing"} => Played(view[c].ref)

\* No ticket is used up at first.
LEMMA KeepInit == Init => KeepInv
BY DEF Init, CommerceInit, EntitlementsInit, ViewingInit, KeepInv, ViewIdle

\* Nothing takes a ticket's playing back: a ticket bought later is younger.
LEMMA PlayedStays ==
  ASSUME TypeInv, KeepInv, [Next]_vars, NEW r \in DOMAIN ent, Played(r),
         \A s \in DOMAIN ent' \ DOMAIN ent : ent'[s].createdAt = now
  PROVE  Played(r)'
<1>1. \A s \in DOMAIN ent : Ages(s)
  BY TicketsAge
<1>2. CASE ent[r].startedAt # Never
  BY <1>1, <1>2 DEF Ages, Played
<1>3. CASE ~Rebought(r)
  <2> SUFFICES ASSUME NEW s \in TicketsOf(ent[r].user, ent[r].title)',
                      ent'[s].createdAt < ent'[r].createdAt
               PROVE  FALSE
    BY DEF Played, Rebought
  <2>1. s \in DOMAIN ent' /\ ent'[s].user = ent[r].user /\ ent'[s].title = ent[r].title
    BY <1>1 DEF TicketsOf, Ages
  <2>2. ent'[r].createdAt = ent[r].createdAt /\ ent[r].createdAt <= now
    BY <1>1 DEF Ages, KeepInv
  <2>3. now \in Int /\ ent[r].createdAt \in Int
    BY EntitlementConstants DEF TypeInv, TicketsTypeOK, EntitlementsTypeOK, Ticket, Times
  <2>4. s \in DOMAIN ent
    BY <2>1, <2>2, <2>3
  <2>5. ent[s].createdAt < ent[r].createdAt /\ s \in TicketsOf(ent[r].user, ent[r].title)
    BY <1>1, <2>1, <2>2, <2>4 DEF Ages, TicketsOf
  <2> QED BY <1>3, <2>5 DEF Rebought
<1> QED BY <1>2, <1>3 DEF Played

\* The only ticket a viewer has had for a title was not bought again.
LEMMA OnlyTicketIsFirst ==
  ASSUME TypeInv, NEW u, NEW t, Cardinality(TicketsOf(u, t)) = 1, NEW r \in TicketsOf(u, t)
  PROVE  ~Rebought(r)
<1>1. IsFiniteSet(TicketsOf(u, t))
  BY FS_Subset DEF TicketsOf, TypeInv, TicketsTypeOK
<1>2. \E x : TicketsOf(u, t) = {x}
  BY <1>1, FS_Singleton
<1>3. \A s \in TicketsOf(u, t) : s = r
  BY <1>2
<1>4. ent[r].user = u /\ ent[r].title = t /\ ent[r].createdAt \in Int
  BY EntitlementConstants DEF TicketsOf, TypeInv, TicketsTypeOK, EntitlementsTypeOK, Ticket, Times
<1> QED BY <1>3, <1>4 DEF Rebought

\* A heartbeat is in flight when saveProgress has accepted it, and only then.
LEMMA SavingBegins ==
  ASSUME ViewsTypeOK, [Next]_vars, NEW d \in Views, view'[d].op \in {"saving", "completing"}
  PROVE  \/ view'[d] = view[d] \/ SaveProgress(d)
         \/ \E u \in Viewers, t \in Movies, pos \in Positions : BeginSave(d, u, t, pos)
<1> DEFINE Known == \/ view'[d] = view[d] \/ SaveProgress(d)
                    \/ \E u \in Viewers, t \in Movies, pos \in Positions : BeginSave(d, u, t, pos)
<1>0. view \in [Views -> View(DOMAIN ent)] /\ ViewIdle.op = "idle"
  BY DEF ViewsTypeOK, ViewIdle
<1>1. ASSUME NEW c \in Views, NEW v, view' = [view EXCEPT ![c] = v],
             v.op \notin {"saving", "completing"}
      PROVE  Known
  BY <1>0, <1>1
<1>2. ASSUME UNCHANGED view PROVE Known
  BY <1>2
<1>3. ASSUME NEW c \in Views, NEW u \in Viewers, BeginList(c, u) PROVE Known
  BY <1>1, <1>3 DEF BeginList
<1>4. ASSUME NEW c \in Views, NEW u \in Viewers, NEW t \in Movies, BeginStart(c, u, t) PROVE Known
  BY <1>1, <1>4 DEF BeginStart
<1>5. ASSUME NEW c \in Views, NEW u \in Viewers, NEW t \in Movies, NEW pos \in Positions,
             BeginSave(c, u, t, pos)
      PROVE Known
  <2>1. CASE c = d
    BY <1>5, <2>1
  <2>2. CASE c # d
    BY <1>0, <1>5, <2>2 DEF BeginSave
  <2> QED BY <2>1, <2>2
<1>6. ASSUME NEW c \in Views, ReadProgress(c) \/ ResumeViewing(c) \/ OpenViewing(c) PROVE Known
  <2>1. view[c].op \in {"starting", "started"}
    BY <1>6 DEF ReadProgress, ResumeViewing, OpenViewing
  <2>2. view'[d] = view[d] \/ view'[d].op \in {"starting", "started"}
    <3>1. \A e \in Views : e # c => view'[e] = view[e]
      BY <1>0, <1>6 DEF ReadProgress, ResumeViewing, OpenViewing
    <3>2. view[c] \in [op : {"starting", "started"}, ref : DOMAIN ent,
                       startedAt : Times \cup {Never}, row : ProgressRow \cup {Unread}]
      BY <2>1, StartingView
    <3>3. view'[c].op \in {"starting", "started"}
      BY <1>0, <1>6, <3>2 DEF ReadProgress, ResumeViewing, OpenViewing
    <3> QED BY <3>1, <3>3
  <2> QED BY <2>2
<1>7. ASSUME NEW c \in Views, StartPlaying(c) PROVE Known
  BY <1>1, <1>7 DEF StartPlaying
<1>8. ASSUME NEW c \in Views, SaveProgress(c) PROVE Known
  <2>1. CASE c = d
    BY <1>8, <2>1
  <2>2. CASE c # d
    BY <1>0, <1>8, <2>2 DEF SaveProgress
  <2> QED BY <2>1, <2>2
<1>9. ASSUME NEW c \in Views, CompleteViewing(c) \/ WriteExpired(c) \/ EndView(c) PROVE Known
  BY <1>0, <1>1, <1>9 DEF CompleteViewing, WriteExpired, EndView
<1>10. ASSUME CommerceNext, UNCHANGED viewingVars PROVE Known
  BY <1>2, <1>10 DEF viewingVars
<1>11. ASSUME UNCHANGED vars PROVE Known
  BY <1>2, <1>11 DEF vars, viewingVars
<1>12. ASSUME ViewingNext PROVE Known
  <2>1. ASSUME NEW u \in Viewers, NEW t \in Movies, ClearProgress(u, t) PROVE Known
    BY <1>2, <2>1 DEF ClearProgress
  <2>2. ASSUME UNCHANGED viewingVars PROVE Known
    BY <1>2, <2>2 DEF viewingVars
  <2> HIDE DEF Known
  <2> QED BY <1>3, <1>4, <1>5, <1>6, <1>7, <1>8, <1>9, <1>12, <2>1, <2>2 DEF ViewingNext, ViewsOf
<1> HIDE DEF Known
<1>13. Known
  BY <1>10, <1>11, <1>12 DEF Next
<1> QED BY <1>13 DEF Known

\* Every step keeps a ticket that is used up one that was played.
LEMMA KeepStep ==
  ASSUME TypeInv, KeepInv, [Next]_vars
  PROVE  KeepInv'
<1>1. /\ \A r \in DOMAIN ent : Ages(r)
      /\ now' \in {now, now + 1} /\ now \in Int
      /\ \A r \in DOMAIN ent : ent[r] \in Ticket /\ ent[r].createdAt \in Int
      /\ TicketsTypeOK /\ ViewsTypeOK
  BY TicketsAge, EntitlementConstants DEF TypeInv, TicketsTypeOK, EntitlementsTypeOK, Ticket, Times
<1>2. \A r \in DOMAIN ent' \ DOMAIN ent : ent'[r].status = "ACTIVE" /\ ent'[r].createdAt = now
  <2>1. CASE CommerceNext
    BY <2>1, OrdersAddTickets
  <2>2. CASE ViewingNext
    BY <2>2, ViewsKeepTickets
  <2>3. CASE UNCHANGED vars
    BY <2>3 DEF vars, entVars
  <2> QED BY <2>1, <2>2, <2>3 DEF Next
<1>3. \A r \in DOMAIN ent : Played(r) => Played(r)'
  BY <1>2, PlayedStays
<1>4. \A r \in DOMAIN ent' : ent'[r].createdAt <= now'
  BY <1>1, <1>2 DEF Ages, KeepInv
<1>5. \A c \in Views : view[c].op \in {"saving", "completing"} =>
        view[c].ref \in DOMAIN ent /\ Played(view[c].ref)
  BY <1>1, ViewFields DEF KeepInv
<1>6. \A r \in DOMAIN ent' : ent'[r].status = "CONSUMED" => Played(r)'
  <2> SUFFICES ASSUME NEW r \in DOMAIN ent', ent'[r].status = "CONSUMED"
               PROVE  Played(r)'
    OBVIOUS
  <2>1. r \in DOMAIN ent
    BY <1>2
  <2>2. CASE ent[r].status = "CONSUMED"
    BY <1>3, <2>1, <2>2 DEF KeepInv
  <2>3. CASE ent[r].status # "CONSUMED"
    <3>1. ViewingNext
      <4>1. CASE CommerceNext
        BY <2>1, <2>3, <4>1, OrdersAddTickets
      <4>2. CASE UNCHANGED vars
        BY <2>3, <4>2 DEF vars, entVars
      <4> QED BY <4>1, <4>2 DEF Next
    <3>2. \/ \E c \in Views : OpenViewing(c) \/ CompleteViewing(c) \/ WriteExpired(c)
          \/ ent' = ent
      BY <3>1 DEF ViewingNext, ViewsOf, BeginList, BeginStart, BeginSave, ReadProgress,
         ResumeViewing, StartPlaying, SaveProgress, EndView, ClearProgress, Tick, entVars
    <3>3. ASSUME NEW c \in Views, OpenViewing(c) PROVE FALSE
      <4>1. view[c].ref \in DOMAIN ent /\ ent' = Opened(view[c].ref)
        BY <1>1, <3>3, ViewFields DEF OpenViewing
      <4> QED BY <1>1, <2>1, <2>3, <4>1, RowWrites
    <3>4. ASSUME NEW c \in Views, WriteExpired(c) PROVE FALSE
      BY <1>1, <2>1, <2>3, <3>4, RowWrites DEF WriteExpired
    <3>5. PICK c \in Views : CompleteViewing(c)
      BY <2>3, <3>2, <3>3, <3>4
    <3>6. view[c].ref \in DOMAIN ent /\ ent' = Consumed(view[c].ref) /\ Played(view[c].ref)
      BY <1>5, <3>5 DEF CompleteViewing
    <3>7. r = view[c].ref
      BY <1>1, <2>1, <2>3, <3>6, RowWrites
    <3> QED BY <1>3, <2>1, <3>6, <3>7
  <2> QED BY <2>2, <2>3
<1>7. ASSUME NEW d \in Views, NEW r, view'[d].op \in {"saving", "completing"}, view'[d].ref = r
      PROVE  r \in DOMAIN ent /\ Played(r)
  <2>1. CASE view'[d] = view[d]
    BY <1>5, <1>7, <2>1
  <2>2. CASE SaveProgress(d)
    <3>1. view[d].op = "saving"
          /\ view'[d] = IF view[d].pos = "end" THEN [op |-> "completing", ref |-> view[d].ref]
                        ELSE ViewIdle
      BY <1>1, <2>2 DEF SaveProgress, ViewsTypeOK
    <3> QED BY <1>5, <1>7, <3>1 DEF ViewIdle
  <2>3. ASSUME NEW u \in Viewers, NEW t \in Movies, NEW pos \in Positions, BeginSave(d, u, t, pos)
        PROVE  r \in DOMAIN ent /\ Played(r)
    <3>1. PICK s \in FindUsable(u, t) :
            /\ ent[s].startedAt # Never \/ Cardinality(TicketsOf(u, t)) = 1
            /\ view' = [view EXCEPT ![d] = [op |-> "saving", ref |-> s, pos |-> pos]]
      BY <2>3 DEF BeginSave
    <3>2. s \in TicketsOf(u, t) /\ s \in DOMAIN ent /\ s = r
      BY <1>1, <1>7, <3>1 DEF FindUsable, Usable, TicketsOf, ViewsTypeOK
    <3> QED BY <3>1, <3>2, OnlyTicketIsFirst DEF Played
  <2> QED BY <1>1, <1>7, <2>1, <2>2, <2>3, SavingBegins
<1>8. \A d \in Views : view'[d].op \in {"saving", "completing"} => Played(view[d].ref)'
  <2> SUFFICES ASSUME NEW d \in Views, view'[d].op \in {"saving", "completing"}
               PROVE  Played(view[d].ref)'
    OBVIOUS
  <2>1. PICK r : r = view'[d].ref
    OBVIOUS
  <2>2. Played(r)'
    BY <1>3, <1>7, <2>1
  <2> QED BY <2>1, <2>2 DEF Played, Rebought, TicketsOf
<1> QED BY <1>4, <1>6, <1>8 DEF KeepInv

\* A completion heartbeat uses up the ticket it was played with and no other: a
\* ticket bought again for the same film is never CONSUMED before it is opened
\* (saveProgress, consume).
THEOREM UnplayedTicketsAreKept == Spec => []UnplayedTicketIsKept
<1>1. KeepInv => UnplayedTicketIsKept
  BY DEF KeepInv, UnplayedTicketIsKept, Played
<1>2. TypeInv /\ KeepInv /\ [Next]_vars => KeepInv'
  BY KeepStep
<1> QED BY <1>1, <1>2, KeepInit, TicketTypes, PTL DEF Spec

-----------------------------------------------------------------------------


-----------------------------------------------------------------------------
(* Series: one ticket buys the series, each episode is watched once.       *)

\* Every ticket is one of the series, all are bought at different instants, and
\* the one in use is the newest of its viewer.
SeriesTickets ==
  /\ DOMAIN ent \subseteq Tickets
  /\ \A r \in DOMAIN ent : /\ ent[r] \in Ticket /\ ent[r].title = Series
                           /\ ent[r].expiresAt = Never /\ ent[r].createdAt < now
  /\ \A r, s \in DOMAIN ent : ent[r].createdAt = ent[s].createdAt => r = s
  /\ \A r, s \in DOMAIN ent :
       ent[r].status = "ACTIVE" /\ ent[s].user = ent[r].user
         => ent[s].createdAt <= ent[r].createdAt

OnEpisode == {"opening", "upserting", "resetting", "rereading", "checking", "saving", "completing"}
OnWindow  == {"checking", "saving", "completing"}
Settling  == {"settling", "playableCounted", "closedCounted"}

\* The episode takes no more watching under the ticket.
Done(u, e, r) == e \in deleted \/ ClosedUnder(u, e, r)

\* What a request that counts, or has counted, rests on while its ticket is in use.
CountsOK(c) ==
  LET w == watch[c]
  IN  /\ w.op = "playableCounted" => "counted" \in DOMAIN w /\ w.counted \subseteq Episodes
      /\ w.op = "closedCounted" =>
           /\ {"among", "closed"} \subseteq DOMAIN w
           /\ w.closed \subseteq w.among /\ w.among \subseteq Episodes
           /\ ent[w.ref].status = "ACTIVE" =>
                \A e \in w.closed : Done(ent[w.ref].user, e, w.ref)
      /\ w.op = "consuming" =>
           /\ {"counted", "among"} \subseteq DOMAIN w
           /\ w.counted \subseteq Episodes /\ w.counted # {}
           /\ ent[w.ref].status = "ACTIVE" /\ w.among \subseteq w.counted =>
                \A e \in w.counted : Done(ent[w.ref].user, e, w.ref)

\* The row is of a window opened under r and under no ticket bought later.
OwnedBy(row, r) ==
  /\ Belongs(row, r)
  /\ \A s \in DOMAIN ent : ent[s].user = ent[r].user /\ Belongs(row, s)
                             => ent[s].createdAt <= ent[r].createdAt

\* A request in flight holds what it read, and acts on what was so when it read it.
RequestOK(c) ==
  LET w == watch[c]
  IN  /\ "op" \in DOMAIN w
      /\ w.op # "idle" => "ref" \in DOMAIN w /\ w.ref \in DOMAIN ent
      /\ w.op \in OnEpisode \cup Settling => "user" \in DOMAIN w /\ w.user = ent[w.ref].user
      /\ w.op \in OnEpisode => "episode" \in DOMAIN w /\ w.episode \in Episodes
      /\ w.op \in {"upserting", "resetting"} =>
           /\ "stamp" \in DOMAIN w /\ w.stamp \in 0..MaxTime /\ w.stamp < now
           /\ ent[w.ref].createdAt <= w.stamp
      /\ w.op = "resetting" => "seen" \in DOMAIN w /\ w.seen < ent[w.ref].createdAt
      /\ w.op \in OnWindow =>
           /\ {"row", "atEnd"} \subseteq DOMAIN w /\ w.row \in PlayRow /\ w.row.startedAt < now
           /\ w.atEnd = TRUE => <<w.ref, w.episode>> \in ended
      /\ w.op \in {"saving", "completing"} => OwnedBy(w.row, w.ref)
      /\ w.op = "completing" => w.atEnd = TRUE
      /\ CountsOK(c)

WatchedRow(u, e) ==
  playback[u][e].consumed => \A r \in Owners(u, playback[u][e]) : <<r, e>> \in ended

RowsOK ==
  /\ playback \in [Viewers -> [Episodes -> PlayRow]]
  /\ \A u \in Viewers, e \in Episodes : playback[u][e].startedAt < now

SeriesInv ==
  /\ now \in 0..MaxTime
  /\ playable \subseteq Episodes /\ deleted \subseteq Episodes
  /\ ended \subseteq Tickets \X Episodes
  /\ SeriesTickets /\ RowsOK
  /\ watch = [c \in Watches |-> watch[c]] /\ \A c \in Watches : RequestOK(c)
  /\ \A u \in Viewers, e \in Episodes : WatchedRow(u, e)

\* No episode is playing and no ticket bought at first.
LEMMA SeriesInvInit == SeriesInit => SeriesInv
<1> SUFFICES ASSUME SeriesInit PROVE SeriesInv
  OBVIOUS
<1>1. DOMAIN ent = {} /\ now = 0 /\ playable = FirstRelease /\ deleted = {} /\ ended = {}
  BY DEF SeriesInit, EntitlementsInit
<1>2. \A u \in Viewers, e \in Episodes : playback[u][e] = NoPlay
  BY DEF SeriesInit
<1>3. NoPlay \in PlayRow /\ NoPlay.startedAt < 0 /\ ~NoPlay.consumed
  BY DEF NoPlay, PlayRow, Never
<1>4. RowsOK
  BY <1>1, <1>2, <1>3 DEF RowsOK, SeriesInit
<1>5. watch = [c \in Watches |-> watch[c]] /\ \A c \in Watches : RequestOK(c)
  BY DEF SeriesInit, WatchIdle, RequestOK, OnEpisode, OnWindow, Settling, CountsOK
<1>6. SeriesTickets
  BY <1>1 DEF SeriesTickets
<1>7. 0 \in 0..MaxTime /\ FirstRelease \subseteq Episodes
  BY EntitlementConstants, SeriesConstants
<1> QED BY <1>1, <1>2, <1>3, <1>4, <1>5, <1>6, <1>7 DEF SeriesInv, WatchedRow

-----------------------------------------------------------------------------
(* What each step does to the tickets, the rows and the requests.          *)

\* The steps of the request c.
Handles(c) ==
  \/ \E u \in Viewers : AskStatus(c, u)
  \/ \E u \in Viewers, e \in Episodes : BeginEpisode(c, u, e)
  \/ \E u \in Viewers, e \in Episodes, session \in Tickets, atEnd \in BOOLEAN :
       ReadRow(c, u, e, session, atEnd)
  \/ ReadPlayback(c) \/ UpsertPlayback(c) \/ ResetPlayback(c) \/ RereadPlayback(c)
  \/ CheckSave(c) \/ WritePosition(c) \/ CompleteEpisode(c)
  \/ CountPlayable(c) \/ CountClosed(c) \/ ConsumeSeries(c) \/ EndWatch(c)

\* The steps of the catalogue.
Restocks == \E e \in Episodes : SetVideo(e) \/ ClearVideo(e)
Deletes  == \E es \in SUBSET Episodes \ {{}} : DeleteEpisodes(es)

\* They leave tickets and requests alone; a deletion takes the rows of its episodes.
LEMMA CatalogueMoves ==
  ASSUME playable \subseteq Episodes, deleted \subseteq Episodes, Restocks \/ Deletes
  PROVE  /\ UNCHANGED <<entVars, watch, ended>>
         /\ playable' \subseteq Episodes /\ deleted \subseteq deleted' /\ deleted' \subseteq Episodes
         /\ \/ UNCHANGED playback
            \/ \E es \in SUBSET Episodes :
                 /\ es \subseteq deleted'
                 /\ playback' = [u \in Viewers |-> [e \in Episodes |->
                                  IF e \in es THEN NoPlay ELSE playback[u][e]]]
<1>1. CASE Restocks
  BY <1>1 DEF Restocks, SetVideo, ClearVideo
<1>2. CASE Deletes
  <2>1. PICK es \in SUBSET Episodes \ {{}} : DeleteEpisodes(es)
    BY <1>2 DEF Deletes
  <2>2. UNCHANGED <<entVars, watch, ended>> /\ playable' = playable \ es /\ deleted' = deleted \cup es
    BY <2>1 DEF DeleteEpisodes
  <2>3. playback' = [u \in Viewers |-> [e \in Episodes |->
                      IF e \in es THEN NoPlay ELSE playback[u][e]]]
    BY <2>1 DEF DeleteEpisodes
  <2>4. es \in SUBSET Episodes /\ es \subseteq deleted'
    BY <2>1, <2>2
  <2> QED BY <2>2, <2>3, <2>4
<1> QED BY <1>1, <1>2

\* A step is of the catalogue, of the shop, of the clock or of one request.
LEMMA SeriesKinds ==
  ASSUME [SeriesNext]_<<entVars, seriesVars>>
  PROVE  \/ Restocks \/ Deletes
         \/ \E u \in Viewers, r \in Tickets : BuyWithCoins(u, r)
         \/ (Tick \/ UNCHANGED entVars) /\ UNCHANGED seriesVars
         \/ \E c \in Watches : Handles(c)
<1>1. CASE UNCHANGED <<entVars, seriesVars>>
  BY <1>1
<1>2. CASE SeriesNext
  BY <1>2, Zenon DEF SeriesNext, WatchedBy, Handles, Restocks, Deletes
<1> QED BY <1>1, <1>2

\* A request leaves tickets, the clock, rows and ends alone, or moves them as its
\* handler says.
LEMMA RequestMoves ==
  ASSUME NEW c \in Watches, Handles(c)
  PROVE  /\ UNCHANGED <<playable, deleted>>
         /\ \/ UNCHANGED entVars \/ (UNCHANGED ent /\ Stamp) \/ (ConsumeSeries(c) /\ UNCHANGED now)
         /\ \/ UNCHANGED playback
            \/ /\ UNCHANGED entVars
               /\ \/ UpsertPlayback(c) /\ RowNow(c) = NoPlay
                  \/ ResetPlayback(c) /\ RowNow(c).startedAt = watch[c].seen
                  \/ CompleteEpisode(c)
         /\ \/ UNCHANGED ended
            \/ \E u \in Viewers, e \in Episodes, session \in Tickets :
                 ended' = ended \cup {<<session, e>>}
<1> DEFINE Goal ==
         /\ UNCHANGED <<playable, deleted>>
         /\ \/ UNCHANGED entVars \/ (UNCHANGED ent /\ Stamp) \/ (ConsumeSeries(c) /\ UNCHANGED now)
         /\ \/ UNCHANGED playback
            \/ /\ UNCHANGED entVars
               /\ \/ UpsertPlayback(c) /\ RowNow(c) = NoPlay
                  \/ ResetPlayback(c) /\ RowNow(c).startedAt = watch[c].seen
                  \/ CompleteEpisode(c)
         /\ \/ UNCHANGED ended
            \/ \E u \in Viewers, e \in Episodes, session \in Tickets :
                 ended' = ended \cup {<<session, e>>}
<1>1. ASSUME \E u \in Viewers : AskStatus(c, u) PROVE Goal
  BY <1>1 DEF AskStatus, shelf
<1>2. ASSUME \E u \in Viewers, e \in Episodes : BeginEpisode(c, u, e) PROVE Goal
  BY <1>2 DEF BeginEpisode, shelf
<1>3. ASSUME NEW u \in Viewers, NEW e \in Episodes, NEW session \in Tickets, NEW atEnd \in BOOLEAN,
             ReadRow(c, u, e, session, atEnd)
      PROVE  Goal
  BY <1>3 DEF ReadRow, shelf
<1>4. ASSUME ReadPlayback(c) PROVE Goal
  BY <1>4 DEF ReadPlayback, entVars, shelf
<1>5. ASSUME UpsertPlayback(c) PROVE Goal
  <2>1. UNCHANGED <<entVars, playable, deleted, ended>>
    BY <1>5 DEF UpsertPlayback, shelf
  <2>2. RowNow(c) = NoPlay \/ UNCHANGED playback
    BY <1>5 DEF UpsertPlayback
  <2> QED BY <1>5, <2>1, <2>2
<1>6. ASSUME ResetPlayback(c) PROVE Goal
  <2>1. UNCHANGED <<entVars, playable, deleted, ended>>
    BY <1>6 DEF ResetPlayback, shelf
  <2>2. RowNow(c).startedAt = watch[c].seen \/ UNCHANGED playback
    BY <1>6 DEF ResetPlayback
  <2> QED BY <1>6, <2>1, <2>2
<1>7. ASSUME CompleteEpisode(c) PROVE Goal
  BY <1>7 DEF CompleteEpisode, shelf
<1>8. ASSUME \/ RereadPlayback(c) \/ CheckSave(c) \/ WritePosition(c)
             \/ CountPlayable(c) \/ CountClosed(c) \/ EndWatch(c)
      PROVE  Goal
  BY <1>8 DEF RereadPlayback, CheckSave, WritePosition, CountPlayable, CountClosed, EndWatch, shelf
<1>9. ASSUME ConsumeSeries(c) PROVE Goal
  BY <1>9 DEF ConsumeSeries, shelf
<1> HIDE DEF Goal
<1>10. Goal
  BY <1>1, <1>2, <1>3, <1>4, <1>5, <1>6, <1>7, <1>8, <1>9 DEF Handles
<1> QED BY <1>10 DEF Goal

\* Whatever a step does: tickets stay, and only stop being ACTIVE; the new ones are
\* stamped now.
TicketsGoOn ==
  /\ now' \in {now, now + 1} /\ now' \in 0..MaxTime
  /\ \A r \in DOMAIN ent :
       /\ r \in DOMAIN ent' /\ ent'[r].user = ent[r].user
       /\ ent'[r].createdAt = ent[r].createdAt
       /\ ent'[r].status = "ACTIVE" => ent[r].status = "ACTIVE"
  /\ \A s \in DOMAIN ent' \ DOMAIN ent : ent'[s].createdAt = now

\* A purchase of the series keeps the tickets in order: there is no other in use.
LEMMA BuyKeepsTickets ==
  ASSUME SeriesInv, NEW u \in Viewers, NEW r \in Tickets, BuyWithCoins(u, r)
  PROVE  TicketsGoOn /\ SeriesTickets'
<1> DEFINE t == NewTicket(u, Series, Never)
<1>0. SeriesTickets /\ now \in 0..MaxTime /\ MaxTime \in Nat
  BY EntitlementConstants DEF SeriesInv
<1>1. /\ r \notin DOMAIN ent /\ DOMAIN ent' = DOMAIN ent \cup {r}
      /\ ent'[r] = t /\ \A s \in DOMAIN ent : ent'[s] = ent[s]
      /\ now' = now + 1 /\ now' \in 0..MaxTime
  BY <1>0 DEF BuyWithCoins, Granted, Stamp
<1>2. /\ t.user = u /\ t.title = Series /\ t.status = "ACTIVE" /\ t.createdAt = now
      /\ t.expiresAt = Never
  BY DEF NewTicket
<1>3. t \in Ticket
  BY <1>0, SeriesConstants, EntitlementConstants DEF NewTicket, Ticket, Times
<1>4. \A s \in DOMAIN ent : ent[s].user = u => ent[s].status # "ACTIVE"
  BY <1>0 DEF BuyWithCoins, Usable, TicketsOf, Elapsed, SeriesTickets
<1> HIDE DEF t
<1>5. TicketsGoOn
  BY <1>1, <1>2 DEF TicketsGoOn
<1>6. \A s \in DOMAIN ent : ent[s].createdAt \in Int /\ ent[s].createdAt < now
  BY <1>0, EntitlementConstants DEF SeriesTickets, Ticket, Times
<1>7. \A s \in DOMAIN ent' : /\ ent'[s] \in Ticket /\ ent'[s].title = Series
                             /\ ent'[s].expiresAt = Never /\ ent'[s].createdAt < now'
  <2>1. ASSUME NEW s \in DOMAIN ent PROVE ent'[s].createdAt < now'
    BY <1>0, <1>1, <1>6
  <2>2. ent'[r].createdAt < now'
    BY <1>0, <1>1, <1>2
  <2> QED BY <1>0, <1>1, <1>2, <1>3, <2>1, <2>2 DEF SeriesTickets
<1>8. \A s, q \in DOMAIN ent' : ent'[s].createdAt = ent'[q].createdAt => s = q
  <2> SUFFICES ASSUME NEW s \in DOMAIN ent', NEW q \in DOMAIN ent',
                      ent'[s].createdAt = ent'[q].createdAt
               PROVE  s = q
    OBVIOUS
  <2>1. CASE s \in DOMAIN ent /\ q \in DOMAIN ent
    BY <1>0, <1>1, <2>1 DEF SeriesTickets
  <2>2. CASE s = r /\ q \in DOMAIN ent
    BY <1>1, <1>2, <1>6, <2>2
  <2>3. CASE q = r /\ s \in DOMAIN ent
    BY <1>1, <1>2, <1>6, <2>3
  <2> QED BY <1>1, <2>1, <2>2, <2>3
<1>9. \A s, q \in DOMAIN ent' :
        ent'[s].status = "ACTIVE" /\ ent'[q].user = ent'[s].user
          => ent'[q].createdAt <= ent'[s].createdAt
  <2> SUFFICES ASSUME NEW s \in DOMAIN ent', NEW q \in DOMAIN ent',
                      ent'[s].status = "ACTIVE", ent'[q].user = ent'[s].user
               PROVE  ent'[q].createdAt <= ent'[s].createdAt
    OBVIOUS
  <2>1. CASE s \in DOMAIN ent /\ q \in DOMAIN ent
    BY <1>0, <1>1, <2>1 DEF SeriesTickets
  <2>2. CASE s = r /\ q \in DOMAIN ent
    BY <1>0, <1>1, <1>2, <1>6, <2>2
  <2>3. CASE q = r /\ s \in DOMAIN ent
    BY <1>1, <1>2, <1>4, <2>3
  <2>4. CASE s = r /\ q = r
    BY <1>0, <1>1, <1>2, <2>4
  <2> QED BY <1>1, <2>1, <2>2, <2>3, <2>4
<1>10. DOMAIN ent' \subseteq Tickets
  BY <1>0, <1>1 DEF SeriesTickets
<1> QED BY <1>5, <1>7, <1>8, <1>9, <1>10 DEF SeriesTickets

\* Every step keeps the tickets in order.
LEMMA TicketsStep ==
  ASSUME SeriesInv, [SeriesNext]_<<entVars, seriesVars>>
  PROVE  TicketsGoOn /\ SeriesTickets'
<1>0. SeriesTickets /\ now \in 0..MaxTime /\ MaxTime \in Nat
  BY EntitlementConstants DEF SeriesInv
<1>1. ASSUME UNCHANGED ent, now' \in {now, now + 1}, now' \in 0..MaxTime
      PROVE  TicketsGoOn /\ SeriesTickets'
  <2>1. \A s \in DOMAIN ent : ent[s].createdAt \in Int /\ ent[s].createdAt < now
    BY <1>0, EntitlementConstants DEF SeriesTickets, Ticket, Times
  <2>2. \A s \in DOMAIN ent : ent[s].createdAt < now'
    BY <1>0, <1>1, <2>1
  <2> QED BY <1>0, <1>1, <2>2 DEF TicketsGoOn, SeriesTickets
<1>2. ASSUME NEW c \in Watches, ConsumeSeries(c), UNCHANGED now
      PROVE  TicketsGoOn /\ SeriesTickets'
  <2> DEFINE r == watch[c].ref
  <2>1. r \in DOMAIN ent
    BY <1>2 DEF SeriesInv, RequestOK, ConsumeSeries
  <2>2. \/ ent' = ent
        \/ ent' = [ent EXCEPT ![r].status = "CONSUMED"]
    BY <1>2 DEF ConsumeSeries, Consumed
  <2> HIDE DEF r
  <2>3. /\ DOMAIN ent' = DOMAIN ent
        /\ \A s \in DOMAIN ent :
             /\ ent'[s] \in Ticket /\ ent'[s].user = ent[s].user /\ ent'[s].title = ent[s].title
             /\ ent'[s].createdAt = ent[s].createdAt /\ ent'[s].expiresAt = ent[s].expiresAt
             /\ ent'[s].status = "ACTIVE" => ent[s].status = "ACTIVE"
    BY <1>0, <2>1, <2>2 DEF SeriesTickets, Ticket
  <2> QED BY <1>0, <1>2, <2>3 DEF TicketsGoOn, SeriesTickets
<1>3. UNCHANGED entVars => TicketsGoOn /\ SeriesTickets'
  BY <1>0, <1>1 DEF entVars
<1>4. Tick => TicketsGoOn /\ SeriesTickets'
  BY <1>0, <1>1 DEF Tick
<1>5. UNCHANGED ent /\ Stamp => TicketsGoOn /\ SeriesTickets'
  BY <1>0, <1>1 DEF Stamp
<1>6. Restocks \/ Deletes => UNCHANGED entVars
  BY CatalogueMoves DEF SeriesInv
<1> QED BY <1>2, <1>3, <1>4, <1>5, <1>6, BuyKeepsTickets, SeriesKinds, RequestMoves

\* A row is replaced by a new window only for a ticket bought since the old one began.
Reopened(u, e) ==
  LET old == playback[u][e]
      new == playback'[u][e]
  IN  /\ \/ old = NoPlay
         \/ \E r \in DOMAIN ent : /\ ent[r].user = u /\ old.startedAt < ent[r].createdAt
                                  /\ ent[r].createdAt <= new.startedAt
      /\ new \in PlayRow /\ new.startedAt < now /\ new.consumed = FALSE

\* It is closed for good under the ticket its window is of, with an end reported there.
Finished(u, e) ==
  /\ playback'[u][e] = [playback[u][e] EXCEPT !.consumed = TRUE]
  /\ \E r \in DOMAIN ent : /\ ent[r].user = u /\ OwnedBy(playback[u][e], r)
                           /\ <<r, e>> \in ended

\* It goes with its episode.
Dropped(u, e) == playback'[u][e] = NoPlay /\ e \in deleted'

\* Every write to a row is one of the three.
LEMMA RowsMove ==
  ASSUME SeriesInv, [SeriesNext]_<<entVars, seriesVars>>
  PROVE  /\ playback' \in [Viewers -> [Episodes -> PlayRow]]
         /\ \A u \in Viewers, e \in Episodes :
              \/ playback'[u][e] = playback[u][e]
              \/ UNCHANGED entVars /\ (Reopened(u, e) \/ Finished(u, e) \/ Dropped(u, e))
<1> DEFINE Goal == /\ playback' \in [Viewers -> [Episodes -> PlayRow]]
                   /\ \A u \in Viewers, e \in Episodes :
                        \/ playback'[u][e] = playback[u][e]
                        \/ UNCHANGED entVars /\ (Reopened(u, e) \/ Finished(u, e) \/ Dropped(u, e))
<1>0. RowsOK /\ SeriesTickets /\ now \in 0..MaxTime
  BY DEF SeriesInv
<1>1. UNCHANGED playback => Goal
  BY <1>0 DEF RowsOK
<1>2. ASSUME NEW c \in Watches, UNCHANGED entVars,
             \/ UpsertPlayback(c) /\ RowNow(c) = NoPlay
             \/ ResetPlayback(c) /\ RowNow(c).startedAt = watch[c].seen
             \/ CompleteEpisode(c)
      PROVE  Goal
  <2> DEFINE u == watch[c].user
             e == watch[c].episode
             r == watch[c].ref
             old == playback[u][e]
             stamp == watch[c].stamp
  <2>1. watch[c].op \in {"upserting", "resetting", "completing"} /\ RequestOK(c)
    BY <1>2 DEF SeriesInv, UpsertPlayback, ResetPlayback, CompleteEpisode
  <2>2. /\ r \in DOMAIN ent /\ u = ent[r].user /\ e \in Episodes /\ u \in Viewers
        /\ ent[r].createdAt \in Int
    BY <1>0, <2>1, EntitlementConstants DEF RequestOK, OnEpisode, SeriesTickets, Ticket, Times
  <2>3. old \in PlayRow /\ RowNow(c) = old
    BY <1>0, <2>2 DEF RowsOK, RowNow
  <2>4. ASSUME NEW new, WriteRow(c, new), new \in PlayRow, RowsOK,
               playback'[u][e] = new => Reopened(u, e) \/ Finished(u, e)
        PROVE  Goal
    <3>1. playback' = [playback EXCEPT ![u][e] = new]
      BY <2>4 DEF WriteRow
    <3> HIDE DEF u, e, r, old, stamp
    <3>2. /\ playback' \in [Viewers -> [Episodes -> PlayRow]]
          /\ playback'[u][e] = new
          /\ \A v \in Viewers, d \in Episodes :
               (v = u /\ d = e) \/ playback'[v][d] = playback[v][d]
      BY <1>0, <2>2, <2>4, <3>1 DEF RowsOK
    <3> QED BY <1>2, <2>4, <3>2
  <2>5. ASSUME watch[c].op \in {"upserting", "resetting"}
        PROVE  /\ stamp \in 0..MaxTime /\ stamp < now /\ ent[r].createdAt <= stamp
               /\ Fresh(stamp) \in PlayRow /\ Fresh(stamp).startedAt = stamp
               /\ Fresh(stamp).consumed = FALSE
    <3>1. stamp \in 0..MaxTime /\ stamp < now /\ ent[r].createdAt <= stamp
      BY <2>1, <2>5 DEF RequestOK
    <3>2. stamp \in Times /\ stamp + Window \in Times
      BY <3>1, EntitlementConstants DEF Times
    <3> QED BY <3>1, <3>2 DEF Fresh, PlayRow
  <2>6. CASE UpsertPlayback(c) /\ RowNow(c) = NoPlay
    <3>1. watch[c].op = "upserting" /\ WriteRow(c, Fresh(stamp))
      BY <2>6 DEF UpsertPlayback
    <3>2. playback'[u][e] = Fresh(stamp) => Reopened(u, e)
      BY <2>3, <2>5, <2>6, <3>1 DEF Reopened
    <3> QED BY <1>0, <2>4, <2>5, <3>1, <3>2
  <2>7. CASE ResetPlayback(c) /\ RowNow(c).startedAt = watch[c].seen
    <3>1. watch[c].op = "resetting" /\ WriteRow(c, Fresh(stamp))
      BY <2>7 DEF ResetPlayback
    <3>2. old.startedAt < ent[r].createdAt
      BY <2>1, <2>3, <2>7, <3>1 DEF RequestOK
    <3>3. playback'[u][e] = Fresh(stamp) => Reopened(u, e)
      BY <2>2, <2>5, <3>1, <3>2 DEF Reopened
    <3> QED BY <1>0, <2>4, <2>5, <3>1, <3>3
  <2>8. CASE CompleteEpisode(c)
    <3> DEFINE new == [old EXCEPT !.consumed = TRUE]
    <3>1. /\ watch[c].op = "completing" /\ WriteRow(c, new)
          /\ old.startedAt = watch[c].row.startedAt
      BY <2>3, <2>8 DEF CompleteEpisode, SameWindow
    <3>2. new \in PlayRow
      BY <2>3 DEF PlayRow
    <3>3. OwnedBy(watch[c].row, r) /\ <<r, e>> \in ended
      BY <2>1, <3>1 DEF RequestOK, OnWindow
    <3>4. OwnedBy(old, r)
      BY <3>1, <3>3 DEF OwnedBy, Belongs
    <3>e. \E q \in DOMAIN ent : /\ ent[q].user = u /\ OwnedBy(old, q) /\ <<q, e>> \in ended
      <4> HIDE DEF u, e, r, old
      <4> QED BY <2>2, <3>3, <3>4
    <3>5. playback'[u][e] = new => Finished(u, e)
      BY <3>e DEF Finished
    <3> HIDE DEF new
    <3> QED BY <1>0, <2>4, <3>1, <3>2, <3>5
  <2> QED BY <1>2, <2>6, <2>7, <2>8
<1>c. ASSUME Restocks \/ Deletes PROVE Goal
  <2>1. CASE UNCHANGED playback
    BY <1>1, <2>1
  <2>2. CASE \E es \in SUBSET Episodes :
               /\ es \subseteq deleted'
               /\ playback' = [u \in Viewers |-> [e \in Episodes |->
                                IF e \in es THEN NoPlay ELSE playback[u][e]]]
    <3>1. NoPlay \in PlayRow
      BY DEF NoPlay, PlayRow
    <3> QED BY <1>0, <1>c, <2>2, <3>1, CatalogueMoves DEF Dropped, RowsOK, SeriesInv
  <2> QED BY <1>c, <2>1, <2>2, CatalogueMoves DEF SeriesInv
<1> HIDE DEF Goal
<1>3. Goal
  <2>2. ASSUME NEW u \in Viewers, NEW r \in Tickets, BuyWithCoins(u, r) PROVE UNCHANGED playback
    BY <2>2 DEF BuyWithCoins, seriesVars
  <2>3. UNCHANGED seriesVars => UNCHANGED playback
    BY DEF seriesVars
  <2> QED BY <1>1, <1>2, <1>c, <2>2, <2>3, SeriesKinds, RequestMoves
<1> QED BY <1>3 DEF Goal

\* Under the ticket in use a closed episode stays closed.
LEMMA ClosedStays ==
  ASSUME SeriesInv, [SeriesNext]_<<entVars, seriesVars>>, NEW u \in Viewers, NEW e \in Episodes,
         NEW r \in DOMAIN ent, ent[r].status = "ACTIVE", ent[r].user = u, ClosedUnder(u, e, r)
  PROVE  Done(u, e, r)'
<1>0. /\ RowsOK /\ SeriesTickets /\ now \in 0..MaxTime /\ now' \in {now, now + 1}
      /\ r \in DOMAIN ent' /\ ent'[r].createdAt = ent[r].createdAt
  BY TicketsStep DEF SeriesInv, TicketsGoOn
<1> DEFINE old == playback[u][e]
           new == playback'[u][e]
<1>1. /\ old \in PlayRow /\ old.startedAt # Never /\ old.startedAt >= ent[r].createdAt
      /\ old.consumed \/ Elapsed(old.expiresAt)
  BY <1>0 DEF ClosedUnder, Belongs, EpisodeClosed, RowsOK
<1>2. old.startedAt \in Int /\ old.expiresAt \in Int /\ now \in Int /\ ent[r].createdAt \in Int
  BY <1>0, <1>1, EntitlementConstants DEF PlayRow, Times, Never, SeriesTickets, Ticket
<1>3. CASE new = old
  <2>1. Elapsed(old.expiresAt) => old.expiresAt # Never /\ old.expiresAt <= now'
    BY <1>0, <1>2 DEF Elapsed
  <2> QED BY <1>0, <1>1, <1>3, <2>1 DEF Done, ClosedUnder, Belongs, EpisodeClosed, Elapsed
<1>4. CASE Reopened(u, e)
  <2>1. old # NoPlay
    BY <1>1 DEF NoPlay
  <2>2. PICK q \in DOMAIN ent : ent[q].user = u /\ old.startedAt < ent[q].createdAt
    BY <1>4, <2>1 DEF Reopened
  <2>3. ent[q].createdAt <= ent[r].createdAt /\ ent[q].createdAt \in Int
    BY <1>0, <2>2, EntitlementConstants DEF SeriesTickets, Ticket, Times
  <2> QED BY <1>1, <1>2, <2>2, <2>3
<1>5. CASE Finished(u, e)
  <2>1. new = [old EXCEPT !.consumed = TRUE]
    BY <1>5 DEF Finished
  <2>2. new.startedAt = old.startedAt /\ new.consumed = TRUE
    BY <1>1, <2>1 DEF PlayRow
  <2> QED BY <1>0, <1>1, <2>2 DEF Done, ClosedUnder, Belongs, EpisodeClosed
<1>6. CASE Dropped(u, e)
  BY <1>6 DEF Dropped, Done
<1> QED BY <1>3, <1>4, <1>5, <1>6, RowsMove

\* An episode once deleted stays so.
LEMMA DeletedStays ==
  ASSUME SeriesInv, [SeriesNext]_<<entVars, seriesVars>>
  PROVE  deleted \subseteq deleted'
<1>1. Restocks \/ Deletes => deleted \subseteq deleted'
  BY CatalogueMoves DEF SeriesInv
<1>2. \A u, r : BuyWithCoins(u, r) => UNCHANGED deleted
  BY DEF BuyWithCoins, seriesVars, shelf
<1>3. UNCHANGED seriesVars => UNCHANGED deleted
  BY DEF seriesVars, shelf
<1> QED BY <1>1, <1>2, <1>3, SeriesKinds, RequestMoves

\* Under the ticket in use what is done stays done.
LEMMA DoneStays ==
  ASSUME SeriesInv, [SeriesNext]_<<entVars, seriesVars>>, NEW u \in Viewers, NEW e \in Episodes,
         NEW r \in DOMAIN ent, ent[r].status = "ACTIVE", ent[r].user = u, Done(u, e, r)
  PROVE  Done(u, e, r)'
BY ClosedStays, DeletedStays DEF Done

\* Every step keeps the rows well typed, and what was watched a viewing of its own ticket.
LEMMA RowsStep ==
  ASSUME SeriesInv, [SeriesNext]_<<entVars, seriesVars>>
  PROVE  RowsOK' /\ \A u \in Viewers, e \in Episodes : WatchedRow(u, e)'
<1>0. /\ RowsOK /\ SeriesTickets /\ SeriesTickets' /\ TicketsGoOn /\ now \in Int
      /\ now' \in {now, now + 1}
      /\ playback' \in [Viewers -> [Episodes -> PlayRow]]
  BY TicketsStep, RowsMove DEF SeriesInv, TicketsGoOn
<1>e. ended \subseteq ended'
  <2>1. Restocks \/ Deletes => UNCHANGED ended
    BY CatalogueMoves DEF SeriesInv
  <2>2. \A u, r : BuyWithCoins(u, r) => UNCHANGED ended
    BY DEF BuyWithCoins, seriesVars
  <2>3. UNCHANGED seriesVars => UNCHANGED ended
    BY DEF seriesVars
  <2> QED BY <2>1, <2>2, <2>3, SeriesKinds, RequestMoves
<1>1. ASSUME NEW u \in Viewers, NEW e \in Episodes
      PROVE  playback'[u][e].startedAt < now' /\ WatchedRow(u, e)'
  <2> DEFINE old == playback[u][e]
             new == playback'[u][e]
  <2>1. old \in PlayRow /\ new \in PlayRow /\ old.startedAt < now
    BY <1>0 DEF RowsOK
  <2>2. old.startedAt \in Int /\ new.startedAt \in Int
    BY <2>1, EntitlementConstants DEF PlayRow, Times, Never
  <2>3. \A r \in DOMAIN ent : ent[r].createdAt \in Int
    BY <1>0, EntitlementConstants DEF SeriesTickets, Ticket, Times
  <2>4. ASSUME NEW r \in Owners(u, playback[u][e])', new.startedAt < now
        PROVE  /\ r \in DOMAIN ent /\ ent[r].user = u
               /\ new.startedAt # Never /\ new.startedAt >= ent[r].createdAt
               /\ \A s \in DOMAIN ent : ent[s].user = u /\ new.startedAt >= ent[s].createdAt
                                          => ent[s].createdAt <= ent[r].createdAt
    <3>1. /\ r \in DOMAIN ent' /\ ent'[r].user = u
          /\ new.startedAt # Never /\ new.startedAt >= ent'[r].createdAt
          /\ \A s \in DOMAIN ent' :
               ent'[s].user = u /\ ent'[s].title = Series /\ new.startedAt >= ent'[s].createdAt
                 => ent'[s].createdAt <= ent'[r].createdAt
      BY <2>4 DEF Owners, TicketsOf, Belongs
    <3>2. r \in DOMAIN ent
      BY <1>0, <2>2, <2>4, <3>1 DEF TicketsGoOn
    <3>3. \A s \in DOMAIN ent : /\ s \in DOMAIN ent' /\ ent'[s].user = ent[s].user
                                /\ ent'[s].title = Series
                                /\ ent'[s].createdAt = ent[s].createdAt
      BY <1>0 DEF TicketsGoOn, SeriesTickets
    <3> QED BY <3>1, <3>2, <3>3
  <2>5. CASE new = old
    <3>1. new.startedAt < now'
      BY <1>0, <2>1, <2>2, <2>5
    <3>2. ASSUME new.consumed, NEW r \in Owners(u, playback[u][e])' PROVE <<r, e>> \in ended'
      <4>1. r \in Owners(u, playback[u][e])
        BY <1>0, <2>1, <2>4, <2>5, <3>2 DEF Owners, TicketsOf, Belongs, SeriesTickets
      <4> QED BY <1>e, <2>5, <3>2, <4>1 DEF SeriesInv, WatchedRow
    <3> QED BY <3>1, <3>2 DEF WatchedRow
  <2>6. CASE UNCHANGED entVars /\ Reopened(u, e)
    BY <2>6 DEF Reopened, WatchedRow, entVars
  <2>7. CASE UNCHANGED entVars /\ Finished(u, e)
    <3>1. PICK q \in DOMAIN ent : /\ ent[q].user = u /\ OwnedBy(old, q) /\ <<q, e>> \in ended
      BY <2>7 DEF Finished
    <3>2. new = [old EXCEPT !.consumed = TRUE]
      BY <2>7 DEF Finished
    <3>3. new.startedAt = old.startedAt
      BY <2>1, <3>2 DEF PlayRow
    <3>4. ASSUME NEW r \in Owners(u, playback[u][e])' PROVE <<r, e>> \in ended'
      <4>1. /\ r \in DOMAIN ent /\ ent[r].user = u /\ old.startedAt >= ent[r].createdAt
            /\ \A s \in DOMAIN ent : ent[s].user = u /\ old.startedAt >= ent[s].createdAt
                                       => ent[s].createdAt <= ent[r].createdAt
        BY <2>1, <2>4, <3>3, <3>4
      <4>2. /\ old.startedAt # Never /\ old.startedAt >= ent[q].createdAt
            /\ \A s \in DOMAIN ent : ent[s].user = u /\ old.startedAt >= ent[s].createdAt
                                       => ent[s].createdAt <= ent[q].createdAt
        BY <3>1, <4>1 DEF OwnedBy, Belongs
      <4>3. ent[r].createdAt <= ent[q].createdAt /\ ent[q].createdAt <= ent[r].createdAt
        BY <3>1, <4>1, <4>2
      <4>4. ent[r].createdAt = ent[q].createdAt
        BY <2>3, <3>1, <4>1, <4>3
      <4>5. r = q
        BY <1>0, <3>1, <4>1, <4>4 DEF SeriesTickets
      <4> QED BY <1>e, <3>1, <4>5
    <3>5. new.startedAt < now'
      BY <2>1, <2>7, <3>3 DEF entVars
    <3> QED BY <3>4, <3>5 DEF WatchedRow
  <2>8. CASE Dropped(u, e)
    <3>1. new.startedAt = -1 /\ new.consumed = FALSE /\ now' >= 0
      BY <1>0, <2>8 DEF Dropped, NoPlay, Never, SeriesInv
    <3>2. new.startedAt < now'
      BY <1>0, <3>1
    <3> QED BY <3>1, <3>2 DEF WatchedRow
  <2> QED BY <2>5, <2>6, <2>7, <2>8, RowsMove
<1> QED BY <1>0, <1>1 DEF RowsOK

\* No end that was reported is forgotten.
LEMMA EndsKept ==
  ASSUME SeriesInv, [SeriesNext]_<<entVars, seriesVars>>
  PROVE  ended \subseteq ended'
<1>1. Restocks \/ Deletes => UNCHANGED ended
  BY CatalogueMoves DEF SeriesInv
<1>2. \A u, r : BuyWithCoins(u, r) => UNCHANGED ended
  BY DEF BuyWithCoins, seriesVars
<1>3. UNCHANGED seriesVars => UNCHANGED ended
  BY DEF seriesVars
<1> QED BY <1>1, <1>2, <1>3, SeriesKinds, RequestMoves

\* What a request rests on is not taken away by the steps of others.
LEMMA RequestKept ==
  ASSUME SeriesInv, [SeriesNext]_<<entVars, seriesVars>>, NEW c \in Watches,
         watch'[c] = watch[c]
  PROVE  RequestOK(c)'
<1> DEFINE w == watch[c]
<1>0. /\ RequestOK(c) /\ SeriesTickets /\ SeriesTickets' /\ TicketsGoOn
      /\ now \in Int /\ now' \in {now, now + 1} /\ ended \subseteq ended'
  BY TicketsStep, EndsKept DEF SeriesInv, TicketsGoOn
<1>1. \A r \in DOMAIN ent : ent[r].createdAt \in Int
  BY <1>0, EntitlementConstants DEF SeriesTickets, Ticket, Times
<1>2. ASSUME w.op \in {"upserting", "resetting"} PROVE w.stamp < now'
  <2>1. w.stamp \in Int /\ w.stamp < now
    BY <1>0, <1>2 DEF RequestOK
  <2> QED BY <1>0, <2>1
<1>3. ASSUME w.op \in OnWindow PROVE w.row.startedAt < now'
  <2>1. w.row.startedAt \in Int /\ w.row.startedAt < now
    BY <1>0, <1>3, EntitlementConstants DEF RequestOK, PlayRow, Times, Never
  <2> QED BY <1>0, <2>1
<1>4. ASSUME w.op \in {"saving", "completing"} PROVE OwnedBy(watch[c].row, watch[c].ref)'
  <2>1. /\ OwnedBy(w.row, w.ref) /\ w.row \in PlayRow /\ w.row.startedAt < now
        /\ w.ref \in DOMAIN ent
    BY <1>0, <1>4 DEF RequestOK, OnWindow
  <2>2. w.row.startedAt \in Int
    BY <2>1, EntitlementConstants DEF PlayRow, Times, Never
  <2>3. \A s \in DOMAIN ent' : w.row.startedAt >= ent'[s].createdAt => s \in DOMAIN ent
    BY <1>0, <2>1, <2>2 DEF TicketsGoOn
  <2> QED BY <1>0, <2>1, <2>3 DEF OwnedBy, Belongs, TicketsGoOn
<1>5. CountsOK(c)'
  <2>1. ASSUME NEW e \in Episodes, w.op # "idle", ent'[w.ref].status = "ACTIVE",
               Done(ent[w.ref].user, e, w.ref)
        PROVE  Done(ent[watch[c].ref].user, e, watch[c].ref)'
    <3>1. PICK r \in DOMAIN ent : r = w.ref
      BY <1>0, <2>1 DEF RequestOK
    <3>2. PICK u \in Viewers : u = ent[r].user
      BY <1>0 DEF SeriesTickets, Ticket
    <3>3. Done(u, e, r)'
      BY <1>0, <2>1, <3>1, <3>2, DoneStays DEF TicketsGoOn
    <3>4. watch'[c].ref = r /\ ent'[r].user = u
      BY <1>0, <3>1, <3>2 DEF TicketsGoOn
    <3> QED BY <3>3, <3>4 DEF Done, ClosedUnder
  <2>2. w.op # "idle" /\ ent'[w.ref].status = "ACTIVE" => ent[w.ref].status = "ACTIVE"
    BY <1>0 DEF RequestOK, TicketsGoOn
  <2>3. CountsOK(c) /\ watch'[c] = w
    BY <1>0 DEF RequestOK
  <2> HIDE DEF w
  <2>4. CASE w.op = "closedCounted"
    <3>1. /\ w.closed \subseteq Episodes /\ w.op # "idle"
          /\ ent[w.ref].status = "ACTIVE" => \A e \in w.closed : Done(ent[w.ref].user, e, w.ref)
      BY <2>3, <2>4 DEF CountsOK, w
    <3>2. ASSUME ent'[w.ref].status = "ACTIVE"
          PROVE  \A e \in w.closed : Done(ent[watch[c].ref].user, e, watch[c].ref)'
      BY <2>1, <2>2, <3>1, <3>2
    <3>3. {"among", "closed"} \subseteq DOMAIN w /\ w.closed \subseteq w.among /\ w.among \subseteq Episodes
      BY <2>3, <2>4 DEF CountsOK, w
    <3> QED BY <2>3, <2>4, <3>2, <3>3 DEF CountsOK
  <2>5. CASE w.op = "consuming"
    <3>1. /\ w.counted \subseteq Episodes /\ w.counted # {} /\ w.op # "idle"
          /\ {"counted", "among"} \subseteq DOMAIN w
          /\ ent[w.ref].status = "ACTIVE" /\ w.among \subseteq w.counted =>
               \A e \in w.counted : Done(ent[w.ref].user, e, w.ref)
      BY <2>3, <2>5 DEF CountsOK, w
    <3>2. ASSUME ent'[w.ref].status = "ACTIVE", w.among \subseteq w.counted
          PROVE  \A e \in w.counted : Done(ent[watch[c].ref].user, e, watch[c].ref)'
      BY <2>1, <2>2, <3>1, <3>2
    <3> QED BY <2>3, <2>5, <3>1, <3>2 DEF CountsOK
  <2>6. CASE w.op \notin {"closedCounted", "consuming"}
    BY <2>3, <2>6 DEF CountsOK, w
  <2> QED BY <2>4, <2>5, <2>6
<1>6. w.op # "idle" => /\ w.ref \in DOMAIN ent' /\ ent'[w.ref].user = ent[w.ref].user
                       /\ ent'[w.ref].createdAt = ent[w.ref].createdAt
  BY <1>0 DEF RequestOK, TicketsGoOn
<1>7. watch'[c] = w
  OBVIOUS
<1> HIDE DEF w
<1>8. w.op \in {"saving", "completing"} => OwnedBy(watch[c].row, watch[c].ref)'
  BY <1>4
<1> QED BY <1>0, <1>2, <1>3, <1>5, <1>6, <1>7, <1>8 DEF w, RequestOK, OnEpisode, OnWindow, Settling

\* A request that ended, or never began, holds nothing.
LEMMA IdleOK ==
  ASSUME NEW c \in Watches, watch'[c] = WatchIdle
  PROVE  RequestOK(c)'
BY DEF RequestOK, WatchIdle, OnEpisode, OnWindow, Settling, CountsOK

\* A request that goes on keeps its fields.
LEMMA GoesOn ==
  ASSUME NEW c \in Watches, RequestOK(c), watch = [d \in Watches |-> watch[d]],
         NEW op, Goto(c, op)
  PROVE  /\ watch'[c].op = op /\ DOMAIN watch'[c] = DOMAIN watch[c]
         /\ \A f \in DOMAIN watch[c] : f # "op" => watch'[c][f] = watch[c][f]
<1>1. watch'[c] = [watch[c] EXCEPT !.op = op] /\ "op" \in DOMAIN watch[c]
  BY DEF Goto, RequestOK
<1> QED BY <1>1

\* The two counts of settleSeries.  When no episode is counted among the closed that is
\* not counted as playable, enough closed ones are all the playable ones.
LEMMA CountsMove ==
  ASSUME SeriesInv, NEW c \in Watches, CountPlayable(c) \/ CountClosed(c)
  PROVE  RequestOK(c)' /\ \E w : watch' = [watch EXCEPT ![c] = w]
<1> DEFINE Goal == RequestOK(c)' /\ \E w : watch' = [watch EXCEPT ![c] = w]
<1>0. /\ RequestOK(c) /\ SeriesTickets /\ playable \subseteq Episodes
      /\ watch = [d \in Watches |-> watch[d]]
      /\ watch[c].op \in Settling /\ UNCHANGED <<entVars, shelf, playback>>
  BY DEF SeriesInv, CountPlayable, CountClosed, Settling
<1>1. PICK r \in DOMAIN ent : r = watch[c].ref
  BY <1>0 DEF RequestOK, Settling
<1>2. PICK u \in Viewers : u = watch[c].user /\ u = ent[r].user
  BY <1>0, <1>1 DEF RequestOK, Settling, SeriesTickets, Ticket
<1>3. /\ ent' = ent /\ deleted' = deleted
      /\ \A e \in Episodes : Done(u, e, r)' <=> Done(u, e, r)
  <2>1. UNCHANGED <<ent, now, playback, deleted>>
    BY <1>0 DEF entVars, shelf
  <2> QED BY <2>1 DEF Done, ClosedUnder, Belongs, EpisodeClosed, Elapsed
<1>4. ClosedOf(c) \subseteq playable /\ \A e \in ClosedOf(c) : Done(u, e, r)
  BY <1>1, <1>2 DEF ClosedOf, Done
<1>5. ASSUME NEW w, watch' = [watch EXCEPT ![c] = w],
             "op" \in DOMAIN w, w.op \in {"playableCounted", "closedCounted", "consuming"},
             "ref" \in DOMAIN w, w.ref = r,
             w.op \in Settling => "user" \in DOMAIN w /\ w.user = u,
             w.op = "playableCounted" => "counted" \in DOMAIN w /\ w.counted \subseteq Episodes,
             w.op = "closedCounted" =>
               /\ {"among", "closed"} \subseteq DOMAIN w /\ w.closed \subseteq w.among
               /\ w.among \subseteq Episodes
               /\ ent[r].status = "ACTIVE" => \A e \in w.closed : Done(u, e, r),
             w.op = "consuming" =>
               /\ {"counted", "among"} \subseteq DOMAIN w
               /\ w.counted \subseteq Episodes /\ w.counted # {}
               /\ ent[r].status = "ACTIVE" /\ w.among \subseteq w.counted =>
                    \A e \in w.counted : Done(u, e, r)
      PROVE  Goal
  <2>1. watch'[c] = w
    BY <1>0, <1>5
  <2>2. r \in DOMAIN ent' /\ ent'[r].user = u
    BY <1>2, <1>3
  <2>3. ASSUME NEW e \in Episodes, Done(u, e, r)
        PROVE  Done(ent[watch[c].ref].user, e, watch[c].ref)'
    <3>1. Done(u, e, r)' /\ watch'[c].ref = r
      BY <1>3, <1>5, <2>1, <2>3
    <3> QED BY <2>2, <3>1 DEF Done, ClosedUnder
  <2>4. CountsOK(c)'
    <3>1. CASE w.op = "playableCounted"
      BY <1>5, <2>1, <3>1 DEF CountsOK
    <3>2. CASE w.op = "closedCounted"
      <4>1. w.closed \subseteq Episodes
        BY <1>5, <3>2
      <4>2. ent'[w.ref].status = "ACTIVE" =>
              \A e \in w.closed : Done(ent[watch[c].ref].user, e, watch[c].ref)'
        BY <1>3, <1>5, <2>3, <3>2, <4>1
      <4> QED BY <1>5, <2>1, <3>2, <4>2 DEF CountsOK
    <3>3. CASE w.op = "consuming"
      <4>1. ent'[w.ref].status = "ACTIVE" /\ w.among \subseteq w.counted =>
              \A e \in w.counted : Done(ent[watch[c].ref].user, e, watch[c].ref)'
        BY <1>3, <1>5, <2>3, <3>3
      <4> QED BY <1>5, <2>1, <3>3, <4>1 DEF CountsOK
    <3> QED BY <1>5, <3>1, <3>2, <3>3
  <2>5. RequestOK(c)'
    BY <1>5, <2>1, <2>2, <2>4 DEF RequestOK, OnEpisode, OnWindow, Settling
  <2> QED BY <1>5, <2>5
<1>6. ASSUME NEW counted, NEW among, NEW closed, Decided(c, counted, among, closed),
             counted \subseteq Episodes, among \subseteq Episodes, closed \subseteq among,
             ent[r].status = "ACTIVE" => \A e \in closed : Done(u, e, r)
      PROVE  Goal
  <2>1. CASE watch' = [watch EXCEPT ![c] = WatchIdle]
    <3>1. watch'[c] = WatchIdle
      BY <1>0, <2>1
    <3> QED BY <2>1, <3>1, IdleOK
  <2>2. CASE /\ counted # {} /\ Cardinality(closed) >= Cardinality(counted)
             /\ watch' = [watch EXCEPT ![c] = [op |-> "consuming", ref |-> @.ref,
                                              counted |-> counted, among |-> among]]
    <3> DEFINE w == [op |-> "consuming", ref |-> r, counted |-> counted, among |-> among]
    <3>1. watch' = [watch EXCEPT ![c] = w]
      BY <1>1, <2>2
    <3>2. among \subseteq counted => closed = counted
      <4>1. IsFiniteSet(counted)
        BY <1>6, SeriesConstants, FS_Subset
      <4>2. ASSUME among \subseteq counted PROVE closed = counted
        <5>1. closed \in SUBSET counted
          BY <1>6, <4>2
        <5>2. /\ IsFiniteSet(closed) /\ Cardinality(closed) <= Cardinality(counted)
              /\ Cardinality(counted) = Cardinality(closed) => counted = closed
          BY <4>1, <5>1, FS_Subset
        <5>3. Cardinality(counted) \in Nat /\ Cardinality(closed) \in Nat
          BY <4>1, <5>2, FS_CardinalityType
        <5> QED BY <2>2, <5>2, <5>3
      <4> QED BY <4>2
    <3>3. ent[r].status = "ACTIVE" /\ among \subseteq counted =>
            \A e \in counted : Done(u, e, r)
      BY <1>6, <3>2
    <3>4. /\ w.op = "consuming" /\ w.ref = r /\ w.counted = counted /\ w.among = among
          /\ {"op", "ref", "counted", "among"} \subseteq DOMAIN w
      OBVIOUS
    <3> HIDE DEF w
    <3> QED BY <1>5, <1>6, <2>2, <3>1, <3>3, <3>4 DEF Settling
  <2> QED BY <1>6, <2>1, <2>2 DEF Decided
<1>7. CASE CountPlayable(c)
  <2>1. CASE /\ watch[c].op = "settling"
             /\ watch' = [watch EXCEPT ![c] = [op |-> "playableCounted", user |-> @.user,
                                              ref |-> @.ref, counted |-> playable]]
    <3> DEFINE w == [op |-> "playableCounted", user |-> u, ref |-> r, counted |-> playable]
    <3>1. watch' = [watch EXCEPT ![c] = w]
      BY <1>1, <1>2, <2>1
    <3>2. /\ w.op = "playableCounted" /\ w.user = u /\ w.ref = r /\ w.counted = playable
          /\ {"op", "user", "ref", "counted"} \subseteq DOMAIN w
      OBVIOUS
    <3> HIDE DEF w
    <3> QED BY <1>0, <1>5, <3>1, <3>2
  <2>2. CASE watch[c].op = "closedCounted" /\ Decided(c, playable, watch[c].among, watch[c].closed)
    <3>1. /\ watch[c].closed \subseteq watch[c].among /\ watch[c].among \subseteq Episodes
          /\ ent[r].status = "ACTIVE" => \A e \in watch[c].closed : Done(u, e, r)
      BY <1>0, <1>1, <1>2, <2>2 DEF RequestOK, CountsOK
    <3> QED BY <1>0, <1>6, <2>2, <3>1
  <2> QED BY <1>7, <2>1, <2>2 DEF CountPlayable
<1>8. CASE CountClosed(c)
  <2>1. CASE /\ watch[c].op = "settling"
             /\ watch' = [watch EXCEPT ![c] =
                    [op |-> "closedCounted", user |-> @.user, ref |-> @.ref,
                     among |-> playable, closed |-> ClosedOf(c)]]
    <3> DEFINE w == [op |-> "closedCounted", user |-> u, ref |-> r,
                     among |-> playable, closed |-> ClosedOf(c)]
    <3>1. watch' = [watch EXCEPT ![c] = w]
      BY <1>1, <1>2, <2>1
    <3>2. /\ w.op = "closedCounted" /\ w.user = u /\ w.ref = r
          /\ w.among = playable /\ w.closed = ClosedOf(c)
          /\ {"op", "user", "ref", "among", "closed"} \subseteq DOMAIN w
      OBVIOUS
    <3> HIDE DEF w
    <3> QED BY <1>0, <1>4, <1>5, <3>1, <3>2
  <2>2. CASE watch[c].op = "playableCounted" /\ Decided(c, watch[c].counted, playable, ClosedOf(c))
    <3>1. watch[c].counted \subseteq Episodes
      BY <1>0, <2>2 DEF RequestOK, CountsOK
    <3> QED BY <1>0, <1>4, <1>6, <2>2, <3>1
  <2> QED BY <1>8, <2>1, <2>2 DEF CountClosed
<1> QED BY <1>7, <1>8

\* Each handler leaves its request resting on what it has just read or written, and
\* the other requests alone.
LEMMA RequestStep ==
  ASSUME SeriesInv, NEW c \in Watches, Handles(c)
  PROVE  /\ watch' = [d \in Watches |-> watch'[d]]
         /\ \A d \in Watches : d # c => watch'[d] = watch[d]
         /\ RequestOK(c)'
<1>0. /\ RequestOK(c) /\ SeriesTickets /\ RowsOK /\ now \in 0..MaxTime
      /\ watch = [d \in Watches |-> watch[d]] /\ playable \subseteq Episodes
  BY DEF SeriesInv
<1>t. \A r \in DOMAIN ent : /\ ent[r].createdAt \in Nat /\ ent[r].createdAt < now
                            /\ ent[r].title = Series
  BY <1>0, EntitlementConstants DEF SeriesTickets, Ticket, Times
<1>1. ASSUME NEW w, watch' = [watch EXCEPT ![c] = w], RequestOK(c)'
      PROVE  /\ watch' = [d \in Watches |-> watch'[d]]
             /\ \A d \in Watches : d # c => watch'[d] = watch[d]
             /\ RequestOK(c)'
  BY <1>0, <1>1
<1>2. ASSUME watch' = [watch EXCEPT ![c] = WatchIdle] PROVE RequestOK(c)'
  <2>1. watch'[c] = WatchIdle
    BY <1>0, <1>2
  <2> QED BY <2>1, IdleOK
<1> DEFINE Goal == RequestOK(c)' /\ \E w : watch' = [watch EXCEPT ![c] = w]
<1>3. ASSUME NEW op, Goto(c, op) PROVE \E w : watch' = [watch EXCEPT ![c] = w]
  BY <1>3 DEF Goto
<1>g. ASSUME NEW op \in {"settling", "playing", "rereading"}, watch[c].op \in OnEpisode,
             UNCHANGED ent, Goto(c, op)
      PROVE  RequestOK(c)'
  <2> DEFINE w == watch[c]
  <2>1. /\ watch'[c].op = op /\ DOMAIN watch'[c] = DOMAIN w
        /\ \A f \in DOMAIN w : f # "op" => watch'[c][f] = w[f]
    BY <1>0, <1>g, GoesOn
  <2>2. /\ {"op", "ref", "user", "episode"} \subseteq DOMAIN w /\ w.ref \in DOMAIN ent
        /\ w.user = ent[w.ref].user /\ w.episode \in Episodes
    BY <1>0, <1>g DEF RequestOK, OnEpisode
  <2>3. watch'[c].ref = w.ref /\ watch'[c].user = w.user /\ watch'[c].episode = w.episode
    BY <2>1, <2>2
  <2> HIDE DEF w
  <2> QED BY <1>g, <2>1, <2>2, <2>3 DEF RequestOK, OnEpisode, OnWindow, Settling, CountsOK
<1>4. ASSUME NEW u \in Viewers, AskStatus(c, u) PROVE Goal
  <2>1. PICK r \in FindUsable(u, Series) :
          watch' = [watch EXCEPT ![c] = [op |-> "settling", user |-> u, ref |-> r]]
    BY <1>4 DEF AskStatus
  <2>2. watch'[c] = [op |-> "settling", user |-> u, ref |-> r]
    BY <1>0, <2>1
  <2>3. r \in DOMAIN ent' /\ ent'[r].user = u
    BY <1>4 DEF AskStatus, entVars, FindUsable, Usable, TicketsOf
  <2>4. RequestOK(c)'
    BY <2>2, <2>3 DEF RequestOK, OnEpisode, OnWindow, Settling, CountsOK
  <2> QED BY <2>1, <2>4
<1>5. ASSUME NEW u \in Viewers, NEW e \in Episodes, BeginEpisode(c, u, e) PROVE Goal
  <2>1. PICK r \in FindUsable(u, Series) :
          watch' = [watch EXCEPT ![c] = [op |-> "opening", user |-> u, episode |-> e, ref |-> r]]
    BY <1>5 DEF BeginEpisode
  <2>2. watch'[c] = [op |-> "opening", user |-> u, episode |-> e, ref |-> r]
    BY <1>0, <2>1
  <2>3. r \in DOMAIN ent' /\ ent'[r].user = u
    BY <1>5 DEF BeginEpisode, entVars, FindUsable, Usable, TicketsOf
  <2>4. RequestOK(c)'
    BY <2>2, <2>3 DEF RequestOK, OnEpisode, OnWindow, Settling, CountsOK
  <2> QED BY <2>1, <2>4
<1>6. ASSUME NEW u \in Viewers, NEW e \in Episodes, NEW session \in Tickets, NEW atEnd \in BOOLEAN,
             ReadRow(c, u, e, session, atEnd)
      PROVE  Goal
  <2> DEFINE w == [op |-> "checking", user |-> u, episode |-> e, ref |-> session,
                   atEnd |-> atEnd, row |-> playback[u][e]]
  <2>1. watch' = [watch EXCEPT ![c] = w]
    BY <1>6 DEF ReadRow
  <2>2. watch'[c] = w
    BY <1>0, <2>1
  <2>3. session \in DOMAIN ent' /\ ent'[session].user = u /\ now' = now
    BY <1>6 DEF ReadRow, entVars, TicketsOf
  <2>4. playback[u][e] \in PlayRow /\ playback[u][e].startedAt < now
    BY <1>0 DEF RowsOK
  <2>5. atEnd = TRUE => <<session, e>> \in ended'
    BY <1>6 DEF ReadRow
  <2>6. RequestOK(c)'
    BY <2>2, <2>3, <2>4, <2>5 DEF RequestOK, OnEpisode, OnWindow, Settling, CountsOK
  <2> QED BY <2>1, <2>6
<1>7. ASSUME ReadPlayback(c) PROVE Goal
  <2>0. watch[c].op = "opening" /\ UNCHANGED ent
    BY <1>7 DEF ReadPlayback
  <2>1. ASSUME NEW op \in {"settling", "playing"}, Goto(c, op) PROVE Goal
    <3>1. RequestOK(c)'
      BY <1>g, <2>0, <2>1 DEF OnEpisode
    <3> QED BY <1>3, <2>1, <3>1
  <2>2. ASSUME watch' = [watch EXCEPT ![c] =
                 [op |-> "upserting", user |-> @.user, episode |-> @.episode,
                  ref |-> @.ref, stamp |-> now]], Stamp
        PROVE  Goal
    <3>1. watch'[c] = [op |-> "upserting", user |-> watch[c].user, episode |-> watch[c].episode,
                       ref |-> watch[c].ref, stamp |-> now]
      BY <1>0, <2>2
    <3>2. now < now'
      BY <1>0, <2>2 DEF Stamp
    <3>3. ent[watch[c].ref].createdAt <= now
      BY <1>0, <1>t, <2>0 DEF RequestOK
    <3>4. RequestOK(c)'
      BY <1>0, <2>0, <3>1, <3>2, <3>3 DEF RequestOK, OnEpisode, OnWindow, Settling, CountsOK
    <3> QED BY <2>2, <3>4
  <2> QED BY <1>7, <2>1, <2>2 DEF ReadPlayback
<1>8. ASSUME UpsertPlayback(c) PROVE Goal
  <2>0. watch[c].op = "upserting" /\ UNCHANGED entVars
    BY <1>8 DEF UpsertPlayback
  <2>1. ASSUME Goto(c, "rereading") PROVE Goal
    <3>1. RequestOK(c)'
      BY <1>g, <2>0, <2>1 DEF OnEpisode, entVars
    <3> QED BY <1>3, <2>1, <3>1
  <2>2. ASSUME ~Belongs(RowNow(c), watch[c].ref),
               watch' = [watch EXCEPT ![c] =
                 [op |-> "resetting", user |-> @.user, episode |-> @.episode,
                  ref |-> @.ref, stamp |-> @.stamp, seen |-> RowNow(c).startedAt]]
        PROVE  Goal
    <3>1. watch'[c] = [op |-> "resetting", user |-> watch[c].user, episode |-> watch[c].episode,
                       ref |-> watch[c].ref, stamp |-> watch[c].stamp,
                       seen |-> RowNow(c).startedAt]
      BY <1>0, <2>2
    <3>2. watch[c].ref \in DOMAIN ent /\ watch[c].user \in Viewers /\ watch[c].episode \in Episodes
      BY <1>0, <2>0 DEF RequestOK, OnEpisode, SeriesTickets, Ticket
    <3>3. RowNow(c).startedAt \in Int
      BY <1>0, <3>2, EntitlementConstants DEF RowNow, RowsOK, PlayRow, Times, Never
    <3>4. RowNow(c).startedAt < ent[watch[c].ref].createdAt
      BY <1>t, <2>2, <3>2, <3>3 DEF Belongs, Never
    <3>5. RequestOK(c)'
      BY <1>0, <2>0, <3>1, <3>4 DEF RequestOK, OnEpisode, OnWindow, Settling, CountsOK, entVars
    <3> QED BY <2>2, <3>5
  <2> QED BY <1>8, <2>1, <2>2 DEF UpsertPlayback
<1>9. ASSUME ResetPlayback(c) PROVE Goal
  <2>0. watch[c].op = "resetting" /\ UNCHANGED entVars /\ Goto(c, "rereading")
    BY <1>9 DEF ResetPlayback
  <2>1. RequestOK(c)'
    BY <1>g, <2>0 DEF OnEpisode, entVars
  <2> QED BY <1>3, <2>0, <2>1
<1>10. ASSUME RereadPlayback(c) PROVE Goal
  <2>0. PICK op \in {"playing", "settling"} :
          watch[c].op = "rereading" /\ UNCHANGED entVars /\ Goto(c, op)
    BY <1>10 DEF RereadPlayback
  <2>1. RequestOK(c)'
    BY <1>g, <2>0 DEF OnEpisode, entVars
  <2> QED BY <1>3, <2>0, <2>1
<1>11. ASSUME CheckSave(c) PROVE Goal
  <2> DEFINE r == watch[c].ref
             row == watch[c].row
  <2>0. /\ watch[c].op = "checking" /\ UNCHANGED <<entVars, ended>> /\ Goto(c, "saving")
        /\ Belongs(row, r) /\ r \in FindUsable(watch[c].user, Series)
    BY <1>11 DEF CheckSave
  <2>1. r \in DOMAIN ent /\ ent[r].status = "ACTIVE"
    BY <2>0 DEF FindUsable, Usable, TicketsOf
  <2>2. OwnedBy(row, r)
    BY <1>0, <2>0, <2>1 DEF OwnedBy, SeriesTickets
  <2>3. /\ watch'[c].op = "saving" /\ DOMAIN watch'[c] = DOMAIN watch[c]
        /\ \A f \in DOMAIN watch[c] : f # "op" => watch'[c][f] = watch[c][f]
    BY <1>0, <2>0, GoesOn
  <2>4. watch'[c].ref = r /\ watch'[c].row = row
    BY <1>0, <2>0, <2>3 DEF RequestOK, OnWindow
  <2>5. OwnedBy(watch[c].row, watch[c].ref)'
    BY <2>0, <2>2, <2>4 DEF OwnedBy, Belongs, entVars
  <2>6. RequestOK(c)'
    BY <1>0, <2>0, <2>3, <2>5 DEF RequestOK, OnEpisode, OnWindow, Settling, CountsOK, entVars
  <2> QED BY <1>3, <2>0, <2>6
<1>12. ASSUME WritePosition(c) PROVE Goal
  <2>0. watch[c].op = "saving" /\ UNCHANGED <<entVars, ended>>
    BY <1>12 DEF WritePosition
  <2>1. CASE watch' = [watch EXCEPT ![c] = WatchIdle]
    BY <1>2, <2>1
  <2>2. CASE watch[c].atEnd /\ Goto(c, "completing")
    <3>1. /\ watch'[c].op = "completing" /\ DOMAIN watch'[c] = DOMAIN watch[c]
          /\ \A f \in DOMAIN watch[c] : f # "op" => watch'[c][f] = watch[c][f]
      BY <1>0, <2>2, GoesOn
    <3>2. /\ watch'[c].ref = watch[c].ref /\ watch'[c].row = watch[c].row
          /\ OwnedBy(watch[c].row, watch[c].ref)
      BY <1>0, <2>0, <3>1 DEF RequestOK, OnWindow
    <3>3. OwnedBy(watch[c].row, watch[c].ref)'
      BY <2>0, <3>2 DEF OwnedBy, Belongs, entVars
    <3>4. RequestOK(c)'
      BY <1>0, <2>0, <2>2, <3>1, <3>3 DEF RequestOK, OnEpisode, OnWindow, Settling, CountsOK, entVars
    <3> QED BY <1>3, <2>2, <3>4
  <2> QED BY <1>12, <2>1, <2>2 DEF WritePosition
<1>13. ASSUME CompleteEpisode(c) PROVE Goal
  <2>0. watch[c].op = "completing" /\ UNCHANGED entVars /\ Goto(c, "settling")
    BY <1>13 DEF CompleteEpisode
  <2>1. RequestOK(c)'
    BY <1>g, <2>0 DEF OnEpisode, entVars
  <2> QED BY <1>3, <2>0, <2>1
<1>14. ASSUME CountPlayable(c) \/ CountClosed(c) PROVE Goal
  BY <1>14, CountsMove
<1>15. ASSUME ConsumeSeries(c) \/ EndWatch(c) PROVE Goal
  BY <1>2, <1>15 DEF ConsumeSeries, EndWatch
<1> HIDE DEF Goal
<1>16. Goal
  BY <1>4, <1>5, <1>6, <1>7, <1>8, <1>9, <1>10, <1>11, <1>12, <1>13, <1>14, <1>15 DEF Handles
<1> QED BY <1>1, <1>16 DEF Goal

\* Every step of the series keeps the invariant.
LEMMA SeriesInvStep ==
  ASSUME SeriesInv, [SeriesNext]_<<entVars, seriesVars>>
  PROVE  SeriesInv'
<1>1. /\ TicketsGoOn /\ SeriesTickets' /\ RowsOK'
      /\ \A u \in Viewers, e \in Episodes : WatchedRow(u, e)'
  BY TicketsStep, RowsStep
<1>2. UNCHANGED watch => /\ watch' = [c \in Watches |-> watch'[c]]
                         /\ \A c \in Watches : RequestOK(c)'
  BY RequestKept DEF SeriesInv
<1>3. ASSUME NEW c \in Watches, Handles(c)
      PROVE  /\ watch' = [d \in Watches |-> watch'[d]] /\ \A d \in Watches : RequestOK(d)'
             /\ UNCHANGED <<playable, deleted>>
             /\ ended' \subseteq Tickets \X Episodes
  BY <1>3, RequestStep, RequestKept, RequestMoves DEF SeriesInv
<1>4. Restocks \/ Deletes => /\ UNCHANGED <<watch, ended>>
                           /\ playable' \subseteq Episodes /\ deleted' \subseteq Episodes
  BY CatalogueMoves DEF SeriesInv
<1>5. ASSUME NEW u \in Viewers, NEW r \in Tickets, BuyWithCoins(u, r)
      PROVE  UNCHANGED <<watch, ended, playable, deleted>>
  BY <1>5 DEF BuyWithCoins, seriesVars, shelf
<1>6. UNCHANGED seriesVars => UNCHANGED <<watch, ended, playable, deleted>>
  BY DEF seriesVars, shelf
<1>7. /\ watch' = [d \in Watches |-> watch'[d]] /\ \A d \in Watches : RequestOK(d)'
      /\ playable' \subseteq Episodes /\ deleted' \subseteq Episodes
      /\ ended' \subseteq Tickets \X Episodes
  BY <1>2, <1>3, <1>4, <1>5, <1>6, SeriesKinds DEF SeriesInv
<1>8. now' \in 0..MaxTime
  BY <1>1 DEF TicketsGoOn
<1> QED BY <1>1, <1>7, <1>8 DEF SeriesInv

\* A watched episode was watched with the ticket its window was opened for, for any number
\* of viewers, episodes, tickets and requests: a viewer who bought the series again never
\* loses an episode to a heartbeat of the old player (saveEpisodeProgress).
THEOREM EpisodesWatchedWithTheirTicket == SeriesSpec => []WatchedWithItsTicket
<1>1. SeriesInv => WatchedWithItsTicket
  <2> SUFFICES ASSUME SeriesInv PROVE WatchedWithItsTicket
    OBVIOUS
  <2>1. SeriesTypeOK
    BY DEF SeriesInv, SeriesTypeOK, SeriesTickets, RowsOK, RequestOK, EntitlementsTypeOK
  <2> QED BY <2>1 DEF SeriesInv, WatchedRow, WatchedWithItsTicket
<1> QED BY <1>1, SeriesInvInit, SeriesInvStep, PTL DEF SeriesSpec

\* Under one ticket an episode has one window and one viewing, however starts, heartbeats
\* and purchases race (openEpisodeWindow, saveEpisodeProgress), until it is deleted.
THEOREM EpisodesAreOncePerTicket == SeriesSpec => EpisodeOncePerTicket
<1>1. ASSUME SeriesInv, [SeriesNext]_<<entVars, seriesVars>>, NEW u \in Viewers, NEW e \in Episodes,
             playback[u][e] # NoPlay,
             \/ playback'[u][e].startedAt # playback[u][e].startedAt
             \/ playback[u][e].consumed # playback'[u][e].consumed
      PROVE  \/ \E r \in TicketsOf(u, Series) :
                  /\ playback[u][e].startedAt < ent[r].createdAt
                  /\ ent[r].createdAt <= playback'[u][e].startedAt
             \/ playback'[u][e] = [playback[u][e] EXCEPT !.consumed = TRUE]
             \/ playback'[u][e] = NoPlay /\ e \in deleted'
  <2>1. Reopened(u, e) \/ Finished(u, e) \/ Dropped(u, e)
    BY <1>1, RowsMove
  <2> QED BY <1>1, <2>1 DEF Reopened, Finished, Dropped, TicketsOf, SeriesInv, SeriesTickets
<1>2. SeriesInv /\ [SeriesNext]_<<entVars, seriesVars>> =>
        [\A u \in Viewers, e \in Episodes :
           LET old == playback[u][e]
               new == playback'[u][e]
           IN  old # NoPlay /\ (new.startedAt # old.startedAt \/ old.consumed # new.consumed)
                 => \/ \E r \in TicketsOf(u, Series) :
                         old.startedAt < ent[r].createdAt /\ ent[r].createdAt <= new.startedAt
                    \/ new = [old EXCEPT !.consumed = TRUE]
                    \/ new = NoPlay /\ e \in deleted']_playback
  BY <1>1
<1> QED BY <1>2, SeriesInvInit, SeriesInvStep, PTL DEF SeriesSpec, EpisodeOncePerTicket

\* A ticket of the series is used up only when each episode counted as playable has been
\* watched or has run out under it, or is gone, whichever request settles the series and
\* whatever the studio does between its two counts, unless an episode was counted among the
\* closed that was not playable at the other count (settleSeries).
THEOREM SeriesTicketsAreUsedUp == SeriesSpec => TicketUsedUp
<1>1. ASSUME SeriesInv, [SeriesNext]_<<entVars, seriesVars>>, NEW r \in DOMAIN ent,
             ent[r].status = "ACTIVE", ent'[r].status = "CONSUMED"
      PROVE  \E c \in Watches :
               /\ watch[c].op = "consuming" /\ watch[c].ref = r /\ watch'[c] # watch[c]
               /\ watch[c].counted # {}
               /\ watch[c].among \subseteq watch[c].counted =>
                    \A e \in watch[c].counted \ deleted : ClosedUnder(ent[r].user, e, r)
  <2>1. ASSUME NEW u \in Viewers, NEW s \in Tickets, BuyWithCoins(u, s) PROVE ent'[r] = ent[r]
    BY <2>1 DEF BuyWithCoins, Granted
  <2>2. ASSUME NEW c \in Watches, ConsumeSeries(c)
        PROVE  ent'[r] = ent[r] \/ watch[c].ref = r
    BY <2>2 DEF ConsumeSeries, Consumed
  <2>3. ent' # ent => (\E u \in Viewers, s \in Tickets : BuyWithCoins(u, s))
                      \/ \E c \in Watches : ConsumeSeries(c)
    <3>1. Restocks \/ Deletes => ent' = ent
      BY <1>1, CatalogueMoves DEF entVars, SeriesInv
    <3>2. Tick \/ UNCHANGED entVars => ent' = ent
      BY DEF Tick, entVars
    <3> QED BY <1>1, <3>1, <3>2, SeriesKinds, RequestMoves DEF entVars
  <2>4. PICK c \in Watches : ConsumeSeries(c) /\ watch[c].ref = r
    BY <1>1, <2>1, <2>2, <2>3
  <2>5. watch[c].op = "consuming" /\ watch'[c] = WatchIdle
    BY <1>1, <2>4 DEF ConsumeSeries, SeriesInv
  <2>6. watch'[c] # watch[c]
    BY <2>5 DEF WatchIdle
  <2>7. /\ watch[c].counted # {}
        /\ watch[c].among \subseteq watch[c].counted =>
             \A e \in watch[c].counted : Done(ent[r].user, e, r)
    BY <1>1, <2>4, <2>5 DEF SeriesInv, RequestOK, CountsOK
  <2> QED BY <2>4, <2>5, <2>6, <2>7 DEF Done
<1>2. SeriesInv /\ [SeriesNext]_<<entVars, seriesVars>> =>
        [\A r \in DOMAIN ent :
           ent[r].title = Series /\ ent[r].status = "ACTIVE" /\ ent'[r].status = "CONSUMED" =>
             \E c \in Watches :
               /\ watch[c].op = "consuming" /\ watch[c].ref = r /\ watch'[c] # watch[c]
               /\ watch[c].counted # {}
               /\ watch[c].among \subseteq watch[c].counted =>
                    \A e \in watch[c].counted \ deleted : ClosedUnder(ent[r].user, e, r)]_ent
  BY <1>1
<1> QED BY <1>2, SeriesInvInit, SeriesInvStep, PTL DEF SeriesSpec, TicketUsedUp

-----------------------------------------------------------------------------
(* The television's heartbeats.                                            *)

BeatFields == {"player", "n", "pos", "ref", "named", "late"}
IsBeat(b) == DOMAIN b = BeatFields /\ b.n \in Nat /\ b.late \in BOOLEAN

\* What a player has queued or waits for, and what it has given up on.
Has(x, p) == x # NoBeat /\ x.player = p
BeatsOf(p) == {b \in mail : b.player = p /\ ~b.late}
Serves(c, p) == Has(serving[c], p) /\ ~serving[c].late
LateBefore(p, n) ==
  /\ \A b \in mail : Has(b, p) /\ b.late => b.n < n
  /\ \A c \in Views : Has(serving[c], p) /\ serving[c].late => serving[c].n < n

\* An open player has sent no later heartbeat than it says; one that was never open none.
OpenRecord == {"step", "ref", "at", "sent", "ended"}
SentInv(p) ==
  /\ player[p].step = "open" =>
       /\ written[p] <= player[p].sent
       /\ \A b \in mail : Has(b, p) => b.n <= player[p].sent
       /\ \A c \in Views : Has(serving[c], p) => serving[c].n <= player[p].sent
  /\ player[p].step \notin {"open", "closed"} =>
       /\ written[p] = 0 /\ \A b \in mail : ~Has(b, p)
       /\ \A c \in Views : ~Has(serving[c], p)

\* The heartbeat that is waited for is the only one, those that are queued are later,
\* and those that were given up on are earlier.
InOrderInv(p) ==
  /\ written[p] \in Nat
  /\ \A b \in BeatsOf(p) : written[p] <= b.n /\ LateBefore(p, b.n)
  /\ \A b, x \in BeatsOf(p) : b.n = x.n => b = x
  /\ \A c \in Views : Serves(c, p) =>
       /\ written[p] <= serving[c].n /\ LateBefore(p, serving[c].n)
       /\ \A b \in BeatsOf(p) : serving[c].n < b.n
       /\ \A d \in Views : Serves(d, p) => d = c

BeatTypes ==
  /\ player = [p \in AllPlayers |-> player[p]]
  /\ \A p \in AllPlayers : player[p].step = "open" =>
       DOMAIN player[p] = OpenRecord /\ player[p].sent \in Nat
  /\ written = [p \in AllPlayers |-> written[p]]
  /\ serving = [c \in Views |-> serving[c]]
  /\ \A b \in mail : IsBeat(b)
  /\ \A c \in Views : serving[c] # NoBeat => IsBeat(serving[c])

BeatsInv == BeatTypes /\ \A p \in TvPlayers : SentInv(p) /\ InOrderInv(p)

\* Only one that was given up on is saved after a newer one.
OnlyLateGoesBack ==
  \A p \in TvPlayers :
    written'[p] < written[p] =>
      \E c \in Views : /\ serving[c] # NoBeat /\ serving[c].player = p /\ serving[c].late
                      /\ written'[p] = serving[c].n

\* A heartbeat is not an empty slot (serving).
LEMMA BeatsAreNot == \A b : IsBeat(b) => b # NoBeat
BY DEF IsBeat, BeatFields, NoBeat

LEMMA BeatsInvInit == PlayersStart => BeatsInv
BY DEF PlayersStart, BeatsInv, BeatTypes, SentInv, InOrderInv, BeatsOf, Serves, Has, LateBefore, PlayerOff,
       AllPlayers

\* Steps of players alone: what was sent and saved stays.
LEMMA PlayerKeepsBeats ==
  ASSUME BeatsInv, NEW q \in AllPlayers, UNCHANGED <<mail, serving, written>>,
         NEW r, PlayerIs(q, r),
         r.step = "open" => /\ DOMAIN r = OpenRecord /\ r.sent \in Nat
                            /\ \/ player[q].step \notin {"open", "closed"}
                               \/ player[q].step = "open" /\ r.sent = player[q].sent,
         r.step # "open" => r.step # "closed" /\ player[q].step \notin {"open", "closed"}
  PROVE  BeatsInv'
<1>1. player' = [p \in AllPlayers |-> IF p = q THEN r ELSE player[p]]
  BY DEF PlayerIs, BeatsInv, BeatTypes
<1>2. BeatTypes'
  BY <1>1 DEF BeatsInv, BeatTypes
<1>3. ASSUME NEW p \in TvPlayers
      PROVE  SentInv(p)' /\ InOrderInv(p)'
  <2>0. UNCHANGED <<mail, serving, written>>
    OBVIOUS
  <2>1. InOrderInv(p)'
    BY <2>0 DEF BeatsInv, InOrderInv, BeatsOf, Serves, Has, LateBefore
  <2>2. CASE p # q
    <3>1. player'[p] = player[p]
      BY <1>1, <2>2 DEF AllPlayers
    <3> QED BY <2>0, <2>1, <3>1 DEF BeatsInv, SentInv, Has
  <2>3. CASE p = q
    <3>1. player'[p] = r /\ SentInv(p)
      BY <1>1, <2>3 DEF AllPlayers, BeatsInv
    <3>5. written[p] \in Nat
      BY DEF BeatsInv, InOrderInv
    <3>2. CASE r.step # "open"
      BY <2>0, <2>1, <2>3, <3>1, <3>2 DEF SentInv, Has
    <3>3. CASE r.step = "open" /\ player[q].step \notin {"open", "closed"}
      BY <2>0, <2>1, <2>3, <3>1, <3>3 DEF SentInv, Has
    <3>4. CASE r.step = "open" /\ player[q].step = "open" /\ r.sent = player[q].sent
      BY <2>0, <2>1, <2>3, <3>1, <3>4 DEF SentInv, Has
    <3> QED BY <3>2, <3>3, <3>4
  <2> QED BY <2>1, <2>2, <2>3
<1> QED BY <1>2, <1>3 DEF BeatsInv

\* A heartbeat is numbered after all that were sent before it.
LEMMA SendKeepsBeats ==
  ASSUME BeatsInv, NEW q \in AllPlayers, SendBeat(q)
  PROVE  BeatsInv'
<1>1. /\ player[q].step = "open" /\ UNCHANGED <<serving, written>>
      /\ mail' = mail \cup {Beat(q)}
  BY DEF SendBeat
<1>2. PICK r : /\ player' = [p \in AllPlayers |-> IF p = q THEN r ELSE player[p]]
               /\ \/ r = [player[q] EXCEPT !.sent = player[q].sent + 1,
                                           !.ended = player[q].ended \/ player[q].at = "end"]
                  \/ r = [step |-> "closed"]
  BY DEF SendBeat, PlayerIs, BeatsInv, BeatTypes
<1>3. PICK b : b = Beat(q)
  OBVIOUS
<1>4. /\ b.player = q /\ DOMAIN b = BeatFields /\ b.n = player[q].sent + 1
      /\ b.late = FALSE /\ b.late \in BOOLEAN
  BY <1>3 DEF Beat, BeatFields
<1>5. player[q].sent \in Nat /\ DOMAIN player[q] = OpenRecord
  BY <1>1 DEF BeatsInv, BeatTypes
<1>6. r.step = "closed" \/
        (r.step = "open" /\ DOMAIN r = OpenRecord /\ r.sent = player[q].sent + 1)
  <2>1. ASSUME NEW s, NEW m, NEW k, DOMAIN s = OpenRecord,
               s.step = "open", r = [s EXCEPT !.sent = m, !.ended = k]
        PROVE  r.step = "open" /\ DOMAIN r = OpenRecord /\ r.sent = m
    BY <2>1 DEF OpenRecord
  <2>2. CASE r = [step |-> "closed"]
    BY <2>2
  <2>3. CASE r = [player[q] EXCEPT !.sent = player[q].sent + 1,
                                   !.ended = player[q].ended \/ player[q].at = "end"]
    BY <1>1, <1>5, <2>1, <2>3, Zenon
  <2> QED BY <1>2, <2>2, <2>3
<1>7. \A x \in mail : x.n \in Nat
  BY DEF BeatsInv, BeatTypes, IsBeat
<1>8. BeatTypes'
  <2>1. IsBeat(b) /\ mail' = mail \cup {b}
    BY <1>1, <1>3, <1>4, <1>5 DEF IsBeat
  <2>2. \A p \in AllPlayers : player'[p] = IF p = q THEN r ELSE player[p]
    BY <1>2
  <2>3. \A p \in AllPlayers : player'[p].step = "open" =>
           DOMAIN player'[p] = OpenRecord /\ player'[p].sent \in Nat
    BY <1>5, <1>6, <2>2 DEF BeatsInv, BeatTypes
  <2> QED BY <1>1, <1>2, <2>1, <2>3 DEF BeatsInv, BeatTypes
<1>9. ASSUME NEW p \in TvPlayers
      PROVE  SentInv(p)' /\ InOrderInv(p)'
  <2>0. serving' = serving /\ written' = written /\ mail' = mail \cup {b} /\ b # NoBeat
    BY <1>1, <1>3, <1>4, <1>5, BeatsAreNot DEF IsBeat
  <2>1. SentInv(p) /\ InOrderInv(p)
    BY DEF BeatsInv
  <2>2. CASE p # q
    <3>1. player'[p] = player[p] /\ BeatsOf(p)' = BeatsOf(p) /\ ~Has(b, p)
      BY <1>2, <1>4, <2>0, <2>2 DEF AllPlayers, BeatsOf, Has
    <3>2. SentInv(p)'
      BY <2>0, <2>1, <3>1 DEF SentInv, Has
    <3>3. \A n : LateBefore(p, n) => LateBefore(p, n)'
      BY <2>0, <3>1 DEF LateBefore, Has
    <3>4. \A c \in Views : Serves(c, p)' <=> Serves(c, p)
      BY <2>0 DEF Serves, Has
    <3> QED BY <2>0, <2>1, <3>1, <3>2, <3>3, <3>4 DEF InOrderInv
  <2>3. CASE p = q
    <3>1. /\ BeatsOf(p)' = BeatsOf(p) \cup {b} /\ player'[p] = r
          /\ \A c \in Views : Serves(c, p)' <=> Serves(c, p)
      BY <1>2, <1>4, <2>0, <2>3 DEF AllPlayers, BeatsOf, Serves, Has
    <3>2. /\ \A x \in mail : x.n \in Nat
          /\ \A c \in Views : Has(serving[c], p) => serving[c].n \in Nat
          /\ BeatsOf(p) \subseteq mail /\ \A x \in BeatsOf(p) : Has(x, p)
      BY BeatsAreNot DEF BeatsInv, BeatTypes, IsBeat, Has, BeatsOf
    <3>3. /\ written[p] \in Nat /\ written[p] <= player[p].sent
          /\ \A x \in mail : Has(x, p) => x.n <= player[p].sent
          /\ \A c \in Views : Has(serving[c], p) => serving[c].n <= player[p].sent
      BY <1>1, <2>1, <2>3 DEF SentInv, InOrderInv
    <3>4. SentInv(p)'
      BY <1>4, <1>5, <1>6, <2>0, <2>3, <3>1, <3>2, <3>3 DEF SentInv, Has
    <3>5. \A n : LateBefore(p, n) => LateBefore(p, n)'
      BY <1>4, <2>0 DEF LateBefore, Has
    <3>6. LateBefore(p, b.n)'
      BY <1>4, <1>5, <2>0, <2>3, <3>2, <3>3 DEF LateBefore, Has
    <3>7. \A c \in Views : Serves(c, p) => Has(serving[c], p)
      BY DEF Serves
    <3>8. InOrderInv(p)'
      BY <1>4, <1>5, <2>0, <2>1, <2>3, <3>1, <3>2, <3>3, <3>5, <3>6, <3>7 DEF InOrderInv
    <3> QED BY <3>4, <3>8
  <2> QED BY <2>2, <2>3
<1> QED BY <1>8, <1>9 DEF BeatsInv

\* A heartbeat that a television player waits for is worked on when no other is.
LEMMA ServedInTurn ==
  ASSUME BeatsInv, NEW b \in mail, b.player \in TvPlayers, ~b.late, Turn(b),
         TvPlayers \cap WebPlayers = {}
  PROVE  /\ \A c \in Views : ~Serves(c, b.player)
         /\ \A x \in BeatsOf(b.player) : x # b => b.n < x.n
<1>1. /\ \A x \in BeatsOf(b.player) : b.n <= x.n
      /\ \A c \in Views : Serves(c, b.player) => b.n <= serving[c].n
  BY DEF Turn, Outstanding, BeatsOf, Serves, Has
<1>2. InOrderInv(b.player) /\ b \in BeatsOf(b.player)
  BY DEF BeatsInv, BeatsOf
<1>3. \A x \in mail : x.n \in Nat
  BY DEF BeatsInv, BeatTypes, IsBeat
<1>4. \A c \in Views : Serves(c, b.player) => serving[c].n \in Nat
  BY DEF BeatsInv, BeatTypes, IsBeat, Serves, Has
<1> QED BY <1>1, <1>2, <1>3, <1>4 DEF InOrderInv, BeatsOf

\* Fewer heartbeats wait, or fewer are worked on: what was sent and saved stays in order.
LEMMA FewerBeats ==
  ASSUME BeatsInv, UNCHANGED <<player, written>>, mail' \subseteq mail,
         serving' = [c \in Views |-> serving'[c]],
         \A c \in Views : serving'[c] \in {serving[c], NoBeat}
  PROVE  BeatsInv'
<1>1. BeatTypes'
  BY DEF BeatsInv, BeatTypes
<1>2. ASSUME NEW p \in TvPlayers
      PROVE  SentInv(p)' /\ InOrderInv(p)'
  <2>1. /\ BeatsOf(p)' \subseteq BeatsOf(p) /\ written'[p] = written[p] /\ player'[p] = player[p]
        /\ \A c \in Views : /\ Serves(c, p)' => Serves(c, p) /\ serving'[c] = serving[c]
                            /\ Has(serving[c], p)' => Has(serving[c], p) /\ serving'[c] = serving[c]
        /\ \A n : LateBefore(p, n) => LateBefore(p, n)'
    BY DEF BeatsOf, Serves, Has, LateBefore
  <2>2. SentInv(p) /\ InOrderInv(p)
    BY DEF BeatsInv
  <2>3. SentInv(p)'
    BY <2>1, <2>2 DEF SentInv, Has
  <2>4. InOrderInv(p)'
    BY <2>1, <2>2 DEF InOrderInv
  <2> QED BY <2>3, <2>4
<1> QED BY <1>1, <1>2 DEF BeatsInv

\* A heartbeat is worked on in its turn, or after it was given up on.
LEMMA DeliverKeepsBeats ==
  ASSUME BeatsInv, TvPlayers \cap WebPlayers = {},
         NEW b \in mail, NEW c \in Views, Deliver(b, c)
  PROVE  BeatsInv'
<1>1. /\ Turn(b) /\ serving[c] = NoBeat /\ UNCHANGED <<player, written>>
      /\ mail' = mail \ {b}
      /\ serving' = [d \in Views |-> IF d = c THEN b ELSE serving[d]]
  BY DEF Deliver, BeatsInv, BeatTypes
<1>2. IsBeat(b) /\ b # NoBeat
  BY BeatsAreNot DEF BeatsInv, BeatTypes
<1>3. BeatTypes'
  BY <1>1, <1>2 DEF BeatsInv, BeatTypes
<1>4. ASSUME NEW p \in TvPlayers
      PROVE  SentInv(p)' /\ InOrderInv(p)'
  <2>1. SentInv(p) /\ InOrderInv(p)
    BY DEF BeatsInv
  <2>2. /\ written'[p] = written[p] /\ player'[p] = player[p]
        /\ BeatsOf(p)' = BeatsOf(p) \ {b}
        /\ \A d \in Views : d # c => Serves(d, p)' = Serves(d, p) /\ serving'[d] = serving[d]
        /\ serving'[c] = b /\ Serves(c, p)' = (b.player = p /\ ~b.late)
        /\ ~Serves(c, p)
    BY <1>1, <1>2 DEF BeatsOf, Serves, Has
  <2>3. \A n : LateBefore(p, n) => LateBefore(p, n)'
    BY <1>1, <1>2, <2>2 DEF LateBefore, Has
  <2>4. SentInv(p)'
    BY <1>1, <1>2, <2>1, <2>2 DEF SentInv, Has
  <2>5. CASE b.player # p \/ b.late
    BY <2>1, <2>2, <2>3, <2>4, <2>5 DEF InOrderInv
  <2>6. CASE b.player = p /\ ~b.late
    <3>1. /\ \A d \in Views : ~Serves(d, p)
          /\ \A x \in BeatsOf(p) : x # b => b.n < x.n
      BY <1>1, <2>6, ServedInTurn
    <3>2. b \in BeatsOf(p)
      BY <2>6 DEF BeatsOf
    <3> QED BY <2>1, <2>2, <2>3, <2>4, <2>6, <3>1, <3>2 DEF InOrderInv
  <2> QED BY <2>5, <2>6
<1> QED BY <1>3, <1>4 DEF BeatsInv

\* ontimeout: what is given up on comes before everything that is still to be sent.
LEMMA TimeOutKeepsBeats ==
  ASSUME BeatsInv, TvPlayers \cap WebPlayers = {}, NEW b, TimeOut(b)
  PROVE  BeatsInv'
<1>1. PICK late : late = [b EXCEPT !.late = TRUE]
  OBVIOUS
<1>2. /\ b.player \in TvPlayers /\ b \in Outstanding(b.player) /\ Turn(b)
      /\ mail' = IF b \in mail THEN (mail \ {b}) \cup {late} ELSE mail
      /\ serving' = [c \in Views |-> IF serving[c] = b THEN late ELSE serving[c]]
      /\ player' = player /\ written' = written
  BY <1>1 DEF TimeOut
<1>3. IsBeat(b) /\ b # NoBeat /\ ~b.late
  BY <1>2, BeatsAreNot DEF Outstanding, BeatsInv, BeatTypes
<1>4. /\ IsBeat(late) /\ late # NoBeat /\ late.late = TRUE /\ late.n = b.n
      /\ late.player = b.player
  <2>1. IsBeat(late) /\ late.late = TRUE /\ late.n = b.n /\ late.player = b.player
    BY <1>1, <1>3 DEF IsBeat, BeatFields
  <2> QED BY <2>1, BeatsAreNot
<1>5. BeatTypes'
  BY <1>2, <1>4 DEF BeatsInv, BeatTypes
<1>6. ASSUME NEW p \in TvPlayers
      PROVE  SentInv(p)' /\ InOrderInv(p)'
  <2>1. SentInv(p) /\ InOrderInv(p)
    BY DEF BeatsInv
  <2>2. SentInv(p)'
    BY <1>2, <1>3, <1>4, <2>1 DEF SentInv, Has, Outstanding
  <2>3. /\ BeatsOf(p)' = BeatsOf(p) \ {b}
        /\ \A c \in Views : Serves(c, p)' <=> Serves(c, p) /\ serving[c] # b
        /\ \A c \in Views : serving[c] # b => serving'[c] = serving[c]
    BY <1>2, <1>3, <1>4 DEF BeatsOf, Serves, Has
  <2>4. CASE p # b.player
    <3>1. \A n : LateBefore(p, n) => LateBefore(p, n)'
      BY <1>2, <1>4, <2>4 DEF LateBefore, Has
    <3>2. BeatsOf(p)' = BeatsOf(p) /\ \A c \in Views : Serves(c, p)' => serving'[c] = serving[c]
      BY <1>2, <2>3, <2>4 DEF BeatsOf
    <3> QED BY <1>2, <2>1, <2>2, <2>3, <3>1, <3>2 DEF InOrderInv
  <2>5. CASE p = b.player
    <3>1. \A n \in Nat : LateBefore(p, n) /\ b.n < n => LateBefore(p, n)'
      BY <1>2, <1>4 DEF LateBefore, Has
    <3>2. /\ \A x \in BeatsOf(p) : b.n <= x.n /\ x.n \in Nat
          /\ \A c \in Views : Serves(c, p) => b.n <= serving[c].n /\ serving[c].n \in Nat
      <4>1. \A x \in Outstanding(p) : b.n <= x.n
        BY <1>2, <1>3, <2>5 DEF Turn
      <4>2. /\ \A x \in BeatsOf(p) : x \in Outstanding(p) /\ IsBeat(x)
            /\ \A c \in Views : Serves(c, p) => serving[c] \in Outstanding(p) /\ IsBeat(serving[c])
        BY DEF Outstanding, BeatsOf, Serves, Has, BeatsInv, BeatTypes
      <4> QED BY <4>1, <4>2 DEF IsBeat
    <3>3. b.n \in Nat
      BY <1>3 DEF IsBeat
    <3>4. b \in BeatsOf(p) \/ \E c \in Views : Serves(c, p) /\ serving[c] = b
      BY <1>2, <1>3, <2>5 DEF Outstanding, BeatsOf, Serves, Has
    <3>5. /\ \A x \in BeatsOf(p) \ {b} : b.n < x.n
          /\ \A c \in Views : Serves(c, p) => serving[c] = b \/ b.n < serving[c].n
      BY <2>1, <3>2, <3>3, <3>4 DEF InOrderInv
    <3>6. written'[p] = written[p] /\ written[p] \in Nat
      BY <1>2, <2>1 DEF InOrderInv
    <3>7. \A x \in BeatsOf(p)' : written'[p] <= x.n /\ LateBefore(p, x.n)'
      BY <2>1, <2>3, <3>1, <3>2, <3>5, <3>6 DEF InOrderInv
    <3>8. \A c \in Views : Serves(c, p)' =>
            /\ serving'[c] = serving[c] /\ Serves(c, p) /\ b.n < serving[c].n
      BY <2>3, <3>5
    <3> HIDE DEF BeatsOf
    <3>9. \A c \in Views : Serves(c, p)' =>
            /\ written'[p] <= serving'[c].n /\ LateBefore(p, serving[c].n)'
            /\ \A x \in BeatsOf(p)' : serving'[c].n < x.n
            /\ \A d \in Views : Serves(d, p)' => d = c
      BY <2>1, <2>3, <3>1, <3>2, <3>6, <3>8 DEF InOrderInv
    <3> QED BY <2>1, <2>2, <2>3, <3>6, <3>7, <3>9 DEF InOrderInv
  <2> QED BY <2>4, <2>5
<1> QED BY <1>5, <1>6 DEF BeatsInv

\* saveProgress: the heartbeat that is saved is the one that is worked on.
LEMMA SavedBeat ==
  ASSUME BeatsInv, NEW c \in Views, serving[c] # NoBeat, UNCHANGED <<player, mail>>,
         serving' = [d \in Views |-> serving'[d]],
         \A d \in Views : serving'[d] \in {serving[d], NoBeat},
         written' = [written EXCEPT ![serving[c].player] = serving[c].n]
  PROVE  BeatsInv' /\ OnlyLateGoesBack
<1>1. /\ written' = [p \in AllPlayers |-> IF p = serving[c].player THEN serving[c].n
                                          ELSE written[p]]
      /\ serving[c].n \in Nat
  BY DEF BeatsInv, BeatTypes, IsBeat
<1>2. BeatTypes'
  BY <1>1 DEF BeatsInv, BeatTypes
<1>3. ASSUME NEW p \in TvPlayers
      PROVE  /\ SentInv(p)' /\ InOrderInv(p)'
             /\ written'[p] >= written[p] \/ (Has(serving[c], p) /\ serving[c].late
                                             /\ written'[p] = serving[c].n)
  <2>1. SentInv(p) /\ InOrderInv(p) /\ written[p] \in Nat
    BY DEF BeatsInv, InOrderInv
  <2>2. /\ BeatsOf(p)' = BeatsOf(p) /\ player'[p] = player[p]
        /\ \A d \in Views : /\ Serves(d, p)' => Serves(d, p) /\ serving'[d] = serving[d]
                            /\ Has(serving[d], p)' => Has(serving[d], p) /\ serving'[d] = serving[d]
        /\ \A n : LateBefore(p, n) => LateBefore(p, n)'
    BY DEF BeatsOf, Serves, Has, LateBefore
  <2>3. \A x \in BeatsOf(p) : x.n \in Nat
    BY DEF BeatsInv, BeatTypes, IsBeat, BeatsOf
  <2>6. \A d \in Views : Serves(d, p) => serving[d].n \in Nat
    BY DEF BeatsInv, BeatTypes, IsBeat, Serves, Has
  <2>4. CASE ~Has(serving[c], p)
    <3>1. written'[p] = written[p]
      BY <1>1, <2>4 DEF AllPlayers, Has
    <3>2. SentInv(p)'
      BY <2>1, <2>2, <3>1 DEF SentInv, Has
    <3>3. InOrderInv(p)'
      BY <2>1, <2>2, <3>1 DEF InOrderInv
    <3> QED BY <2>1, <3>1, <3>2, <3>3
  <2>5. CASE Has(serving[c], p)
    <3>1. written'[p] = serving[c].n
      BY <1>1, <2>5 DEF AllPlayers, Has
    <3>2. SentInv(p)'
      BY <1>1, <2>1, <2>2, <2>5, <3>1 DEF SentInv, Has
    <3>3. CASE serving[c].late
      <4>1. \A n \in Nat : LateBefore(p, n) => serving[c].n <= n
        BY <1>1, <2>5, <3>3 DEF LateBefore
      <4>2. InOrderInv(p)'
        BY <1>1, <2>1, <2>2, <2>3, <2>6, <3>1, <4>1 DEF InOrderInv
      <4> QED BY <2>5, <3>1, <3>2, <3>3, <4>2
    <3>4. CASE ~serving[c].late
      <4>1. Serves(c, p)
        BY <2>5, <3>4 DEF Serves
      <4>2. written[p] <= serving[c].n /\ \A d \in Views : Serves(d, p) => d = c
        BY <2>1, <4>1 DEF InOrderInv
      <4>3. InOrderInv(p)'
        BY <1>1, <2>1, <2>2, <2>3, <3>1, <4>1, <4>2 DEF InOrderInv
      <4> QED BY <3>1, <3>2, <4>2, <4>3
    <3> QED BY <3>3, <3>4
  <2> QED BY <2>4, <2>5
<1>4. OnlyLateGoesBack
  <2> SUFFICES ASSUME NEW p \in TvPlayers, written'[p] < written[p]
               PROVE  \E d \in Views : /\ serving[d] # NoBeat /\ serving[d].player = p
                                      /\ serving[d].late /\ written'[p] = serving[d].n
    BY DEF OnlyLateGoesBack
  <2>1. written[p] \in Nat /\ written'[p] \in Nat
    BY <1>3 DEF BeatsInv, InOrderInv
  <2>2. Has(serving[c], p) /\ serving[c].late /\ written'[p] = serving[c].n
    BY <1>3, <2>1
  <2> QED BY <2>2 DEF Has
<1> QED BY <1>2, <1>3, <1>4 DEF BeatsInv

\* Every step of the players keeps the order, and what is saved goes back only by a
\* heartbeat that was given up on.
LEMMA BeatsInvStep ==
  ASSUME BeatsInv, [PlayersNext]_playersAll
  PROVE  BeatsInv' /\ OnlyLateGoesBack
<1>0. UNCHANGED written => OnlyLateGoesBack
  BY DEF BeatsInv, InOrderInv, OnlyLateGoesBack
<1>1. ASSUME UNCHANGED playerVars
      PROVE  BeatsInv' /\ UNCHANGED written
  <2>1. UNCHANGED <<player, serving, written>> /\ mail' \subseteq mail
    BY <1>1 DEF playerVars
  <2>2. /\ serving' = [c \in Views |-> serving'[c]]
        /\ \A c \in Views : serving'[c] \in {serving[c], NoBeat}
    BY <2>1 DEF BeatsInv, BeatTypes
  <2> QED BY <2>1, <2>2, FewerBeats
<1>2. ASSUME NEW p \in AllPlayers, NEW c \in Views, NEW u \in Viewers, NEW t \in Titles,
             AskForFilm(p, c, u, t)
      PROVE  BeatsInv' /\ UNCHANGED written
  <2>1. /\ player[p].step = "off" /\ PlayerIs(p, [step |-> "asking", on |-> c])
        /\ UNCHANGED <<mail, serving, written>>
    BY <1>2 DEF AskForFilm, PlayerOff
  <2>2. PICK r : r = [step |-> "asking", on |-> c]
    OBVIOUS
  <2> QED BY <2>1, <2>2, PlayerKeepsBeats
<1>3. ASSUME NEW p \in AllPlayers, ShowFilm(p)
      PROVE  BeatsInv' /\ UNCHANGED written
  <2>1. PICK r : /\ r = [step |-> "open", ref |-> view[player[p].on].ref, at |-> "middle",
                         sent |-> 0, ended |-> FALSE]
                 /\ PlayerIs(p, r)
    BY <1>3 DEF ShowFilm
  <2>2. player[p].step = "asking" /\ UNCHANGED <<mail, serving, written>>
    BY <1>3 DEF ShowFilm
  <2>3. r.step = "open" /\ DOMAIN r = OpenRecord /\ r.sent \in Nat
    BY <2>1 DEF OpenRecord
  <2> QED BY <2>1, <2>2, <2>3, PlayerKeepsBeats
<1>4. ASSUME NEW p \in AllPlayers, StartRefused(p)
      PROVE  BeatsInv' /\ UNCHANGED written
  <2>1. /\ player[p].step = "asking" /\ PlayerIs(p, [step |-> "off"])
        /\ UNCHANGED <<mail, serving, written>>
    BY <1>4 DEF StartRefused, PlayerOff
  <2>2. PICK r : r = [step |-> "off"]
    OBVIOUS
  <2> QED BY <2>1, <2>2, PlayerKeepsBeats
<1>5. ASSUME NEW p \in AllPlayers, Play(p)
      PROVE  BeatsInv' /\ UNCHANGED written
  <2>1. player[p].step = "open" /\ UNCHANGED <<mail, serving, written>>
    BY <1>5 DEF Play
  <2>2. PICK a, r : r = [player[p] EXCEPT !.at = a] /\ PlayerIs(p, r)
    BY <1>5 DEF Play
  <2>3. DOMAIN player[p] = OpenRecord /\ player[p].sent \in Nat
    BY <2>1 DEF BeatsInv, BeatTypes
  <2>4. r.step = "open" /\ DOMAIN r = OpenRecord /\ r.sent = player[p].sent
    BY <2>1, <2>2, <2>3 DEF OpenRecord
  <2> QED BY <2>1, <2>2, <2>3, <2>4, PlayerKeepsBeats
<1>6. ASSUME NEW p \in AllPlayers, SendBeat(p)
      PROVE  BeatsInv' /\ UNCHANGED written
  <2>1. UNCHANGED written
    BY <1>6 DEF SendBeat
  <2>2. BeatsInv'
    BY <1>6, SendKeepsBeats
  <2> QED BY <2>1, <2>2
<1>7. ASSUME NEW b \in mail, Refuse(b) \/ LoseBeat(b)
      PROVE  BeatsInv' /\ UNCHANGED written
  <2>1. UNCHANGED <<player, serving, written>> /\ mail' \subseteq mail
    BY <1>7 DEF Refuse, LoseBeat
  <2>2. /\ serving' = [c \in Views |-> serving'[c]]
        /\ \A c \in Views : serving'[c] \in {serving[c], NoBeat}
    BY <2>1 DEF BeatsInv, BeatTypes
  <2> QED BY <2>1, <2>2, FewerBeats
<1>8. ASSUME NEW b \in mail, NEW c \in Views, Deliver(b, c)
      PROVE  BeatsInv' /\ UNCHANGED written
  BY <1>8, DeliverKeepsBeats, PlayersApart DEF Deliver
<1>9. ASSUME NEW c \in Views, WriteBeat(c)
      PROVE  BeatsInv' /\ OnlyLateGoesBack
  <2>1. /\ serving' = [d \in Views |-> serving'[d]]
        /\ \A d \in Views : serving'[d] \in {serving[d], NoBeat}
    BY <1>9 DEF WriteBeat, BeatsInv, BeatTypes
  <2>2. serving[c] # NoBeat /\ UNCHANGED <<player, mail>>
    BY <1>9 DEF WriteBeat
  <2>3. CASE written' = [written EXCEPT ![serving[c].player] = serving[c].n]
    BY <2>1, <2>2, <2>3, SavedBeat
  <2>4. CASE UNCHANGED written
    BY <1>0, <2>1, <2>2, <2>4, FewerBeats
  <2> QED BY <1>9, <2>3, <2>4 DEF WriteBeat
<1>9b. ASSUME NEW p \in TvPlayers, NEW b \in Outstanding(p), TimeOut(b)
       PROVE  BeatsInv' /\ UNCHANGED written
  <2>1. UNCHANGED written
    BY <1>9b DEF TimeOut
  <2> QED BY <1>9b, <2>1, TimeOutKeepsBeats, PlayersApart
<1>10. ASSUME NEW u \in Viewers, NEW t \in Titles, BuyTicketFor(u, t)
       PROVE  UNCHANGED playerVars
  BY <1>10 DEF BuyTicketFor
<1>11. ASSUME NEW c \in Views, ServeStart(c) PROVE UNCHANGED playerVars
  BY <1>11 DEF ServeStart
<1>12. CASE UNCHANGED playersAll
  BY <1>0, <1>1, <1>12 DEF playersAll
<1>13. CASE PlayersNext
  BY <1>0, <1>1, <1>2, <1>3, <1>4, <1>5, <1>6, <1>7, <1>8, <1>9, <1>9b, <1>10, <1>11, <1>13
     DEF PlayersNext
<1> QED BY <1>12, <1>13

\* What a television player reported last is saved last, however many players, heartbeats
\* and request slots there are and however the requests race: its queue keeps the order,
\* and only a request it had given up on may land late (saveProgress, progressQueue,
\* xhr.timeout).
THEOREM BeatsStayInOrder == PlayersSpec => BeatsInOrder
<1>1. BeatsInv /\ [PlayersNext]_playersAll => BeatsInv'
  BY BeatsInvStep
<1>2. BeatsInv /\ [PlayersNext]_playersAll
        => [\A p \in TvPlayers :
              written'[p] < written[p] =>
                \E c \in Views : /\ serving[c] # NoBeat /\ serving[c].player = p /\ serving[c].late
                                /\ written'[p] = serving[c].n]_playersAll
  BY BeatsInvStep DEF OnlyLateGoesBack
<1> QED BY <1>1, <1>2, BeatsInvInit, PTL DEF PlayersSpec, BeatsInOrder

=============================================================================
