----------------------------- MODULE Withdrawals ----------------------------
(***************************************************************************)
(* ProducerService: earnings from ticket sales and their withdrawal.  A    *)
(* request reserves an amount under a lock on the producer's row, an       *)
(* emailed code confirms it, an admin pays or rejects it.  Several tabs    *)
(* of one producer and several admins work at once.                        *)
(***************************************************************************)
EXTENDS Integers, FiniteSets, Functions

CONSTANTS Producers, Films,
          RevenueShares,  \* shares an admin may set, in ten-thousandths
          Stores,         \* where a ticket is sold
          TicketMinor,    \* kobo a ticket brings at each store
          Commission,     \* what the store keeps, in ten-thousandths
          Withdrawals,    \* ids of withdrawals
          Amounts,        \* kobo a producer may ask for
          MaxAttempts,    \* wrong codes a withdrawal survives, plus one
          CodeTTL,        \* life of a code, in instants
          MaxTime,        \* bound: the last instant of the clock
          MaxSales,       \* bound: tickets sold of a film at a store
          Tabs            \* slots for requests in flight

Unlinked == [producer |-> "nobody"]  \* a film of no producer

BPS == 10000

ASSUME WithdrawalConstants ==
  /\ IsFiniteSet(Stores) /\ Unlinked.producer \notin Producers
  /\ RevenueShares \subseteq 0..BPS
  /\ TicketMinor \in [Stores -> Nat] /\ Commission \in [Stores -> 0..BPS]
  /\ Amounts \subseteq Nat \ {0}
  /\ MaxAttempts \in Nat \ {0} /\ CodeTTL \in Nat \ {0}
  /\ MaxTime \in Nat /\ MaxSales \in Nat

VARIABLES link,        \* producer_titles: producer and share of each film
          sold,        \* PAID purchases of each film at each store
          withdrawal,  \* producer_withdrawals
          transferred, \* rows of it that hold the reference of a bank transfer
          clock,
          tab          \* requests in flight

producerVars == <<link, sold, withdrawal, transferred, clock, tab>>

NoWithdrawal == [status |-> "NONE"]
TabIdle      == [op |-> "idle"]

WithdrawalsInit ==
  /\ link = [f \in Films |-> Unlinked]
  /\ sold = [f \in Films |-> [s \in Stores |-> 0]]
  /\ withdrawal = [w \in Withdrawals |-> NoWithdrawal] /\ transferred = {}
  /\ clock = 0
  /\ tab = [c \in Tabs |-> TabIdle]

-----------------------------------------------------------------------------
(* Earnings, each sale floored to whole kobo.                              *)

NetOfStore(amount, commission) == (amount * (BPS - commission)) \div BPS

ProducerShare(amount, commission, share) == (NetOfStore(amount, commission) * share) \div BPS

FilmEarns(f) ==
  SumFunction([s \in Stores |->
    sold[f][s] * ProducerShare(TicketMinor[s], Commission[s], link[f].share)])

FilmsOf(p) == {f \in Films : link[f].producer = p}

Earned(p) == SumFunction([f \in FilmsOf(p) |-> FilmEarns(f)])

Amount(ws) == SumFunction([w \in ws |-> withdrawal[w].amount])

WithStatus(p, statuses) ==
  {w \in Withdrawals : /\ withdrawal[w].status \in statuses
                       /\ withdrawal[w].producer = p}

Late(w) == withdrawal[w].expiresAt <= clock

Awaiting(p) == WithStatus(p, {"AWAITING_CONFIRMATION"})

\* What counts against the earnings: confirmed, paid, or waiting for a code.
Locked(p) ==
  WithStatus(p, {"REQUESTED", "PAID"}) \cup {w \in Awaiting(p) : ~Late(w)}

Available(p, released) ==
  LET free == Earned(p) - Amount(Locked(p) \ released)
  IN  IF free > 0 THEN free ELSE 0

-----------------------------------------------------------------------------

\* External to this module: a ticket of the film is paid for.
Sell(f, s) ==
  /\ sold[f][s] < MaxSales
  /\ sold' = [sold EXCEPT ![f][s] = @ + 1]
  /\ UNCHANGED <<link, withdrawal, transferred, clock, tab>>

\* assign: attaches a film, or moves it with all its past sales.
Assign(f, p, share) ==
  /\ link' = [link EXCEPT ![f] = [producer |-> p, share |-> share]]
  /\ UNCHANGED <<sold, withdrawal, transferred, clock, tab>>

InRequest(c) == tab[c].op \in {"counting", "creating"}

\* Mutant: the producer's row is not locked.
ProducerLockedNever(p) == FALSE

\* The row lock on the producer, and those on the withdrawals it expired.
ProducerLocked(p) == \E c \in Tabs : InRequest(c) /\ tab[c].producer = p
RowLocked(w)      == \E c \in Tabs : InRequest(c) /\ w \in tab[c].expired

\* requestWithdrawal: lock the producer, expire the codes that ran out.
BeginRequest(c, p, n) ==
  /\ tab[c] = TabIdle
  /\ ~ProducerLocked(p)
  /\ tab' = [tab EXCEPT ![c] =
       [op |-> "counting", producer |-> p, amount |-> n,
        expired |-> {w \in Awaiting(p) : Late(w)}]]
  /\ UNCHANGED <<link, sold, withdrawal, transferred, clock>>

\* availableInTx: it reads the clock again.
CountHolds(c) ==
  /\ tab[c].op = "counting"
  /\ tab[c].amount <= Available(tab[c].producer, tab[c].expired)
  /\ tab' = [tab EXCEPT ![c].op = "creating"]
  /\ UNCHANGED <<link, sold, withdrawal, transferred, clock>>

CommitRequest(c, id) ==
  /\ tab[c].op = "creating"
  /\ withdrawal[id] = NoWithdrawal
  /\ withdrawal' = [w \in Withdrawals |->
       IF w = id
       THEN [status |-> "AWAITING_CONFIRMATION", producer |-> tab[c].producer,
             amount |-> tab[c].amount, expiresAt |-> clock + CodeTTL, attempts |-> 0]
       ELSE IF w \in tab[c].expired THEN [withdrawal[w] EXCEPT !.status = "EXPIRED"]
       ELSE withdrawal[w]]
  /\ tab' = [tab EXCEPT ![c] = TabIdle]
  /\ UNCHANGED <<link, sold, transferred, clock>>

\* confirmWithdrawal: what it decides to write from the row it has read.
BeginConfirm(c, w, right) ==
  /\ tab[c] = TabIdle
  /\ withdrawal[w].status = "AWAITING_CONFIRMATION"
  /\ \/ /\ Late(w)
        /\ tab' = [tab EXCEPT ![c] = [op |-> "expire", id |-> w]]
     \/ /\ ~Late(w) /\ right
        /\ withdrawal[w].attempts < MaxAttempts
        /\ tab' = [tab EXCEPT ![c] = [op |-> "confirm", id |-> w]]
     \/ /\ ~Late(w) /\ ~right
        /\ withdrawal[w].attempts < MaxAttempts
        /\ tab' = [tab EXCEPT ![c] =
             [op |-> "wrong", id |-> w, attempts |-> withdrawal[w].attempts + 1]]
  /\ UNCHANGED <<link, sold, withdrawal, transferred, clock>>

\* Mutant: an update by id instead of a conditional one.
WriteConfirmAnyway(c) ==
  /\ tab[c].op \in {"confirm", "expire"}
  /\ ~RowLocked(tab[c].id)
  /\ withdrawal' = [withdrawal EXCEPT ![tab[c].id].status =
                      IF tab[c].op = "confirm" THEN "REQUESTED" ELSE "EXPIRED"]
  /\ tab' = [tab EXCEPT ![c] = TabIdle]
  /\ UNCHANGED <<link, sold, transferred, clock>>

\* The two conditional updates: only a row still waiting moves.
WriteConfirm(c) ==
  /\ tab[c].op \in {"confirm", "expire"}
  /\ LET w == tab[c].id
     IN  /\ ~RowLocked(w)
         /\ withdrawal' =
              IF withdrawal[w].status = "AWAITING_CONFIRMATION"
              THEN [withdrawal EXCEPT ![w].status =
                      IF tab[c].op = "confirm" THEN "REQUESTED" ELSE "EXPIRED"]
              ELSE withdrawal
  /\ tab' = [tab EXCEPT ![c] = TabIdle]
  /\ UNCHANGED <<link, sold, transferred, clock>>

\* A wrong code: an update by id, whatever the row has become.
WriteWrongCode(c) ==
  /\ tab[c].op = "wrong"
  /\ LET w == tab[c].id
         n == tab[c].attempts
     IN  /\ ~RowLocked(w)
         /\ withdrawal' = [withdrawal EXCEPT
              ![w].attempts = n,
              ![w].status = IF n >= MaxAttempts THEN "EXPIRED" ELSE @]
  /\ tab' = [tab EXCEPT ![c] = TabIdle]
  /\ UNCHANGED <<link, sold, transferred, clock>>

\* review: markPaid and reject take a REQUESTED row only.  The money has left the bank
\* when an admin marks it paid, and nothing takes the transfer's reference off the row.
Review(w, verdict) ==
  /\ withdrawal[w].status = "REQUESTED"
  /\ withdrawal' = [withdrawal EXCEPT ![w].status = verdict]
  /\ transferred' = IF verdict = "PAID" THEN transferred \cup {w} ELSE transferred
  /\ UNCHANGED <<link, sold, clock, tab>>

\* A refused amount, a rollback, or a dead process.
EndTab(c) ==
  /\ tab[c] # TabIdle
  /\ tab' = [tab EXCEPT ![c] = TabIdle]
  /\ UNCHANGED <<link, sold, withdrawal, transferred, clock>>

PassTime ==
  /\ clock < MaxTime
  /\ clock' = clock + 1
  /\ UNCHANGED <<link, sold, withdrawal, transferred, tab>>

WithdrawalsNext ==
  \/ \E f \in Films :
       \/ \E s \in Stores : Sell(f, s)
       \/ \E p \in Producers, share \in RevenueShares : Assign(f, p, share)
  \/ \E c \in Tabs :
       \/ \E p \in Producers, n \in Amounts : BeginRequest(c, p, n)
       \/ \E w \in Withdrawals : CommitRequest(c, w) \/ \E right \in BOOLEAN : BeginConfirm(c, w, right)
       \/ CountHolds(c) \/ WriteConfirm(c) \/ WriteWrongCode(c) \/ EndTab(c)
  \/ \E w \in Withdrawals, verdict \in {"PAID", "REJECTED"} : Review(w, verdict)
  \/ PassTime

WithdrawalsSpec == WithdrawalsInit /\ [][WithdrawalsNext]_producerVars

-----------------------------------------------------------------------------
(* Properties.                                                             *)

WithdrawalRow ==
  [status : {"AWAITING_CONFIRMATION", "REQUESTED", "PAID", "REJECTED", "EXPIRED"},
   producer : Producers, amount : Amounts, expiresAt : Nat, attempts : 0..MaxAttempts]

WithdrawalsTypeOK ==
  /\ link \in [Films -> {Unlinked} \cup [producer : Producers, share : RevenueShares]]
  /\ sold \in [Films -> [Stores -> 0..MaxSales]]
  /\ withdrawal \in [Withdrawals -> {NoWithdrawal} \cup WithdrawalRow]
  /\ transferred \subseteq Withdrawals
  /\ clock \in 0..MaxTime
  /\ \A c \in Tabs : tab[c].op \in {"expire", "confirm", "wrong"} =>
                       withdrawal[tab[c].id] # NoWithdrawal

\* What a producer was paid or is to be paid: every transfer counts, whatever became
\* of its row.
Charged(p) ==
  WithStatus(p, {"REQUESTED", "PAID"}) \cup {w \in transferred : withdrawal[w].producer = p}

\* Payments that no longer count against the earnings.
StruckOut(p) ==
  {w \in transferred : withdrawal[w].producer = p /\ withdrawal[w].status # "PAID"}

\* "Requests are serialised per producer with a row lock so two tabs can't overdraw":
\* as long as no code has run out, all that was ever paid and is still to be paid stays
\* within what was earned (the producer's row lock, availableInTx), but for the payments
\* whose row the last wrong code wrote over.  confirmWithdrawal writes a wrong code by
\* id: one that was read before the right one was confirmed and paid makes the row
\* EXPIRED, and the same kobo can be asked for again.  The excess is never more than
\* these payments.
OverdrawnOnlyAfterExpiry ==
  \/ \A p \in Producers : Amount(Charged(p)) <= Earned(p) + Amount(StruckOut(p))
  \/ \E w \in Withdrawals : withdrawal[w] # NoWithdrawal /\ Late(w)

\* A hold that was given back to the balance is never claimed again: no late confirmation
\* and no second admin turns a rejected or expired withdrawal into one to be paid.  One
\* that was confirmed or paid is released by a rejection, before it is paid, or by the
\* last of the wrong codes, written over it by id, and by nothing else: neither the
\* expiry of its code nor a rejection undoes a payment (confirmWithdrawal,
\* requestWithdrawal, review).
ReleasedStaysReleased ==
  [][\A w \in Withdrawals :
       LET old == withdrawal[w].status
           new == withdrawal'[w].status
       IN  /\ old \in {"REJECTED", "EXPIRED"} => new \in {"REJECTED", "EXPIRED"}
           /\ old \in {"REQUESTED", "PAID"} =>
                \/ new = old
                \/ old = "REQUESTED" /\ new \in {"PAID", "REJECTED"}
                \/ new = "EXPIRED" /\ withdrawal'[w].attempts = MaxAttempts]_withdrawal

=============================================================================
