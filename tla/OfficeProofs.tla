---------------------------- MODULE OfficeProofs ----------------------------
(***************************************************************************)
(* The back office, for any number of admins and producers.                *)
(* ProducerService: the rows stay well formed, money given back to the     *)
(* balance is never claimed again, nothing is overdrawn until a code runs  *)
(* out, and what the pages of producers and admins say of it is so.        *)
(* AdminSeriesService: the lock on the title row keeps the last video of a *)
(* published series, and requests that come one after the other keep its   *)
(* season count.  AdminService and ClassificationService: the mirrored     *)
(* columns of a title and its links agree.  HomeService: the rows that are *)
(* kept hold what was written a minute ago, and an admin's own writes.     *)
(* MovieEditor and ClassificationPanel: a drawer writes what was changed.  *)
(* RulesDrawer: its tabs show the same rules.                              *)
(***************************************************************************)
EXTENDS ProducerDesk, SeriesPublishing, Homepage, StudioForms, RuleEditor, SumLemmas

-----------------------------------------------------------------------------
(* ProducerService.                                                        *)

\* The assumptions about sets and bounds, without the shares.
LEMMA WithdrawalBounds ==
  /\ IsFiniteSet(Stores) /\ Unlinked.producer \notin Producers
  /\ Amounts \subseteq Nat \ {0}
  /\ MaxAttempts \in Nat \ {0} /\ CodeTTL \in Nat \ {0}
  /\ MaxTime \in Nat /\ MaxSales \in Nat
BY WithdrawalConstants, Zenon

Known(w) == w \in Withdrawals /\ withdrawal[w] # NoWithdrawal

\* Amounts that can be asked for: any number of kobo (requestWithdrawal).
Positive == Nat \ {0}

PayoutRow ==
  [status : {"AWAITING_CONFIRMATION", "REQUESTED", "PAID", "REJECTED", "EXPIRED"},
   producer : Producers, amount : Positive, expiresAt : Nat, attempts : 0..MaxAttempts]

\* The steps of the service, whatever amounts are asked for.
ServiceNext ==
  \/ \E f \in Films :
       \/ \E s \in Stores : Sell(f, s)
       \/ \E p \in Producers, share \in RevenueShares : Assign(f, p, share)
  \/ \E c \in Tabs :
       \/ \E p \in Producers, n \in Positive : BeginRequest(c, p, n)
       \/ \E w \in Withdrawals : CommitRequest(c, w) \/ \E right \in BOOLEAN : BeginConfirm(c, w, right)
       \/ CountHolds(c) \/ WriteConfirm(c) \/ WriteWrongCode(c) \/ EndTab(c)
  \/ \E w \in Withdrawals, verdict \in {"PAID", "REJECTED"} : Review(w, verdict)
  \/ PassTime

\* They hold those with the amounts of the specification.
LEMMA ServiceIsWider == WithdrawalsNext => ServiceNext
<1>1. Amounts \subseteq Positive
  BY WithdrawalBounds DEF Positive
<1> QED BY <1>1, Zenon DEF WithdrawalsNext, ServiceNext

\* What a request in flight remembers is about rows that exist.
TabsRemember ==
  /\ tab = [c \in Tabs |-> tab[c]]
  /\ \A c \in Tabs :
       /\ InRequest(c) => /\ tab[c].producer \in Producers /\ tab[c].amount \in Positive
                          /\ \A w \in tab[c].expired : Known(w)
       /\ tab[c].op \in {"expire", "confirm", "wrong"} => Known(tab[c].id)
       /\ tab[c].op = "wrong" => tab[c].attempts \in 1..MaxAttempts

RowsInv ==
  /\ withdrawal \in [Withdrawals -> {NoWithdrawal} \cup PayoutRow]
  /\ link \in [Films -> {Unlinked} \cup [producer : Producers, share : RevenueShares]]
  /\ sold \in [Films -> [Stores -> 0..MaxSales]]
  /\ clock \in 0..MaxTime

WithdrawalsInv == RowsInv /\ TabsRemember

\* A withdrawal row that exists has its fields, and so does the row after its
\* status or its attempts were written.
LEMMA RowFields ==
  ASSUME RowsInv, NEW w, Known(w)
  PROVE  /\ withdrawal[w] \in PayoutRow
         /\ \A s \in {"REQUESTED", "PAID", "REJECTED", "EXPIRED"} :
              /\ [withdrawal[w] EXCEPT !.status = s] \in PayoutRow
              /\ [withdrawal[w] EXCEPT !.status = s].status = s
BY DEF RowsInv, Known, PayoutRow

\* No row of the table is the missing one.
LEMMA RowsAreNotMissing == \A row \in PayoutRow : row # NoWithdrawal /\ row.status # "NONE"
BY DEF PayoutRow, NoWithdrawal

\* Nothing is sold, asked for or in flight at first.
LEMMA WithdrawalsInvInit == WithdrawalsInit => WithdrawalsInv
BY WithdrawalBounds
   DEF WithdrawalsInit, WithdrawalsInv, RowsInv, TabsRemember, InRequest, TabIdle

\* A step that only rewrites rows that exist, into rows that exist, keeps what
\* every tab remembers.
LEMMA RowsRewritten ==
  ASSUME WithdrawalsInv,
         withdrawal' \in [Withdrawals -> {NoWithdrawal} \cup PayoutRow],
         \A w \in Withdrawals : withdrawal[w] # NoWithdrawal => withdrawal'[w] # NoWithdrawal
  PROVE  \A w : Known(w) => Known(w)'
BY DEF Known

\* The write of a wrong code leaves a row of the table.
LEMMA WrongCodeRow ==
  ASSUME WithdrawalsInv, NEW c \in Tabs, WriteWrongCode(c)
  PROVE  LET w == tab[c].id
         IN  /\ w \in Withdrawals
             /\ withdrawal' = [withdrawal EXCEPT ![w] = withdrawal'[w]]
             /\ withdrawal'[w] \in PayoutRow
             /\ withdrawal'[w].status \in {"EXPIRED", withdrawal[w].status}
<1> DEFINE w == tab[c].id
           n == tab[c].attempts
           s == IF n >= MaxAttempts THEN "EXPIRED" ELSE withdrawal[w].status
<1>1. Known(w) /\ w \in Withdrawals /\ n \in 0..MaxAttempts
  BY DEF WriteWrongCode, WithdrawalsInv, TabsRemember, Known
<1>2. withdrawal[w] \in PayoutRow
  BY <1>1, RowFields DEF WithdrawalsInv
<1>3. withdrawal' = [withdrawal EXCEPT ![w] = [withdrawal[w] EXCEPT !.attempts = n, !.status = s]]
  BY <1>1, <1>2 DEF WriteWrongCode, WithdrawalsInv, RowsInv, PayoutRow
<1>4. [withdrawal[w] EXCEPT !.attempts = n, !.status = s] \in PayoutRow
  BY <1>1, <1>2 DEF PayoutRow
<1>5. [withdrawal[w] EXCEPT !.attempts = n, !.status = s].status = s
  BY <1>2 DEF PayoutRow
<1>6. withdrawal'[w] = [withdrawal[w] EXCEPT !.attempts = n, !.status = s]
  BY <1>1, <1>3 DEF WithdrawalsInv, RowsInv
<1> QED BY <1>1, <1>3, <1>4, <1>5, <1>6

\* A row of the table that is rewritten in place.
LEMMA RowWritten ==
  ASSUME WithdrawalsInv, NEW w \in Withdrawals, NEW row \in PayoutRow,
         withdrawal' = [withdrawal EXCEPT ![w] = row]
  PROVE  /\ withdrawal' \in [Withdrawals -> {NoWithdrawal} \cup PayoutRow]
         /\ \A v : Known(v) => v \in Withdrawals /\ withdrawal'[v] # NoWithdrawal
BY RowsAreNotMissing DEF WithdrawalsInv, RowsInv, Known

\* What the tabs remember survives a step that frees one of them and rewrites rows.
LEMMA TabFreed ==
  ASSUME WithdrawalsInv, NEW c \in Tabs, tab' = [tab EXCEPT ![c] = TabIdle],
         \A v : Known(v) => v \in Withdrawals /\ withdrawal'[v] # NoWithdrawal
  PROVE  TabsRemember'
<1>1. \A d \in Tabs : tab'[d] = tab[d] \/ tab'[d] = TabIdle
  BY DEF WithdrawalsInv, TabsRemember
<1>2. tab' = [d \in Tabs |-> tab'[d]]
  BY DEF WithdrawalsInv, TabsRemember
<1>3. \A v : Known(v) => Known(v)'
  BY DEF Known
<1>4. ASSUME NEW d \in Tabs
      PROVE  /\ InRequest(d)' => /\ tab'[d].producer \in Producers /\ tab'[d].amount \in Positive
                                 /\ \A w \in tab'[d].expired : Known(w)'
             /\ tab'[d].op \in {"expire", "confirm", "wrong"} =>
                  tab'[d].id \in Withdrawals /\ withdrawal'[tab'[d].id] # NoWithdrawal
             /\ tab'[d].op = "wrong" => tab'[d].attempts \in 1..MaxAttempts
  <2>1. CASE tab'[d] = tab[d]
    BY <1>3, <2>1 DEF WithdrawalsInv, TabsRemember, InRequest, Known
  <2>2. CASE tab'[d] = TabIdle
    BY <2>2 DEF TabIdle, InRequest
  <2> QED BY <1>1, <2>1, <2>2
<1> QED BY <1>2, <1>4 DEF TabsRemember, Known

\* Every step keeps the rows and what the tabs remember of them.
LEMMA WithdrawalsInvStep == WithdrawalsInv /\ [ServiceNext]_producerVars => WithdrawalsInv'
<1> SUFFICES ASSUME WithdrawalsInv, [ServiceNext]_producerVars
             PROVE  WithdrawalsInv'
  OBVIOUS
<1> USE DEF WithdrawalsInv
<1>1. ASSUME NEW f \in Films, NEW s \in Stores, Sell(f, s)
      PROVE  WithdrawalsInv'
  <2>1. sold' \in [Films -> [Stores -> 0..MaxSales]]
    <3>1. MaxSales \in Nat
      BY WithdrawalBounds
    <3>2. sold[f] \in [Stores -> 0..MaxSales] /\ sold[f][s] \in 0..MaxSales
      BY DEF RowsInv
    <3>3. sold[f][s] + 1 \in 0..MaxSales
      BY <1>1, <3>1, <3>2 DEF Sell
    <3>4. [sold[f] EXCEPT ![s] = sold[f][s] + 1] \in [Stores -> 0..MaxSales]
      BY <3>2, <3>3
    <3>5. sold' = [sold EXCEPT ![f] = [sold[f] EXCEPT ![s] = sold[f][s] + 1]]
      BY <1>1 DEF Sell
    <3> QED BY <3>4, <3>5 DEF RowsInv
  <2> QED BY <1>1, <2>1 DEF Sell, RowsInv, TabsRemember, InRequest, Known
<1>2. ASSUME NEW f \in Films, NEW p \in Producers, NEW share \in RevenueShares, Assign(f, p, share)
      PROVE  WithdrawalsInv'
  BY <1>2 DEF Assign, RowsInv, TabsRemember, InRequest, Known
<1>3. ASSUME NEW c \in Tabs, NEW p \in Producers, NEW n \in Positive, BeginRequest(c, p, n)
      PROVE  WithdrawalsInv'
  <2>1. \A w \in Awaiting(p) : Known(w)
    BY DEF Awaiting, WithStatus, Known, NoWithdrawal
  <2> QED BY <1>3, <2>1 DEF BeginRequest, RowsInv, TabsRemember, InRequest, Known
<1>4. ASSUME NEW c \in Tabs, CountHolds(c)
      PROVE  WithdrawalsInv'
  BY <1>4 DEF CountHolds, RowsInv, TabsRemember, InRequest, Known
<1>5. ASSUME NEW c \in Tabs, NEW id \in Withdrawals, CommitRequest(c, id)
      PROVE  WithdrawalsInv'
  <2> DEFINE new == [status |-> "AWAITING_CONFIRMATION", producer |-> tab[c].producer,
                     amount |-> tab[c].amount, expiresAt |-> clock + CodeTTL, attempts |-> 0]
  <2>1. tab[c].producer \in Producers /\ tab[c].amount \in Positive
        /\ \A w \in tab[c].expired : Known(w)
    BY <1>5 DEF CommitRequest, TabsRemember, InRequest
  <2>2. new \in PayoutRow
    <3>1. clock \in Nat /\ CodeTTL \in Nat /\ MaxAttempts \in Nat
      BY WithdrawalBounds DEF RowsInv
    <3>2. clock + CodeTTL \in Nat /\ 0 \in 0..MaxAttempts
      BY <3>1
    <3> HIDE DEF WithdrawalsInv
    <3> QED BY <2>1, <3>2 DEF PayoutRow
  <2>3. ASSUME NEW w \in Withdrawals
        PROVE  /\ withdrawal'[w] \in {NoWithdrawal} \cup PayoutRow
               /\ Known(w) => withdrawal'[w] # NoWithdrawal
    <3>1. CASE w = id
      <4>1. withdrawal'[w] = new
        BY <1>5, <3>1 DEF CommitRequest
      <4> QED BY <2>2, <4>1, RowsAreNotMissing
    <3>2. CASE w # id /\ w \in tab[c].expired
      <4>1. withdrawal'[w] = [withdrawal[w] EXCEPT !.status = "EXPIRED"]
        BY <1>5, <3>2 DEF CommitRequest
      <4>2. withdrawal'[w] \in PayoutRow
        BY <2>1, <3>2, <4>1, RowFields
      <4> QED BY <4>2, RowsAreNotMissing
    <3>3. CASE w # id /\ w \notin tab[c].expired
      <4>1. withdrawal'[w] = withdrawal[w]
        BY <1>5, <3>3 DEF CommitRequest
      <4> QED BY <4>1 DEF RowsInv, Known
    <3> QED BY <3>1, <3>2, <3>3
  <2>4. withdrawal' \in [Withdrawals -> {NoWithdrawal} \cup PayoutRow]
    <3>1. withdrawal' = [w \in Withdrawals |-> withdrawal'[w]]
      BY <1>5 DEF CommitRequest
    <3> QED BY <2>3, <3>1
  <2>5. \A v : Known(v) => v \in Withdrawals /\ withdrawal'[v] # NoWithdrawal
    BY <2>3 DEF Known
  <2>6. TabsRemember'
    BY <1>5, <2>5, TabFreed DEF CommitRequest
  <2> QED BY <1>5, <2>4, <2>6 DEF CommitRequest, RowsInv
<1>6. ASSUME NEW c \in Tabs, NEW w \in Withdrawals, NEW right \in BOOLEAN, BeginConfirm(c, w, right)
      PROVE  WithdrawalsInv'
  <2>1. Known(w)
    BY <1>6 DEF BeginConfirm, Known, NoWithdrawal
  <2>2. withdrawal[w].attempts \in 0..MaxAttempts
    BY <2>1, RowFields DEF PayoutRow
  <2>3. \A a \in 0..MaxAttempts : a < MaxAttempts => a + 1 \in 1..MaxAttempts
    <3>1. MaxAttempts \in Nat
      BY WithdrawalBounds
    <3> QED BY <3>1
  <2>4. PICK next : /\ tab' = [tab EXCEPT ![c] = next]
                    /\ \/ next = [op |-> "expire", id |-> w]
                       \/ next = [op |-> "confirm", id |-> w]
                       \/ /\ next = [op |-> "wrong", id |-> w, attempts |-> withdrawal[w].attempts + 1]
                          /\ withdrawal[w].attempts < MaxAttempts
    BY <1>6 DEF BeginConfirm
  <2>5. /\ next.id = w /\ next.op \in {"expire", "confirm", "wrong"}
        /\ next.op = "wrong" => next.attempts \in 1..MaxAttempts
    BY <2>2, <2>3, <2>4
  <2>6. UNCHANGED <<link, sold, withdrawal, clock>>
    BY <1>6 DEF BeginConfirm
  <2> QED BY <2>1, <2>4, <2>5, <2>6 DEF RowsInv, TabsRemember, InRequest, Known
<1>7. ASSUME NEW c \in Tabs, WriteConfirm(c)
      PROVE  WithdrawalsInv'
  <2> DEFINE w == tab[c].id
             s == IF tab[c].op = "confirm" THEN "REQUESTED" ELSE "EXPIRED"
  <2>1. Known(w)
    BY <1>7 DEF WriteConfirm, TabsRemember
  <2>2. CASE withdrawal[w].status = "AWAITING_CONFIRMATION"
    <3>1. [withdrawal[w] EXCEPT !.status = s] \in PayoutRow
      BY <2>1, RowFields
    <3>2. withdrawal' = [withdrawal EXCEPT ![w] = [withdrawal[w] EXCEPT !.status = s]]
      BY <1>7, <2>2 DEF WriteConfirm
    <3>3. /\ withdrawal' \in [Withdrawals -> {NoWithdrawal} \cup PayoutRow]
          /\ \A v : Known(v) => v \in Withdrawals /\ withdrawal'[v] # NoWithdrawal
      BY <2>1, <3>1, <3>2, RowWritten DEF Known
    <3>4. TabsRemember'
      BY <1>7, <3>3, TabFreed DEF WriteConfirm
    <3> QED BY <1>7, <3>3, <3>4 DEF WriteConfirm, RowsInv
  <2>3. CASE withdrawal[w].status # "AWAITING_CONFIRMATION"
    <3>1. withdrawal' = withdrawal
      BY <1>7, <2>3 DEF WriteConfirm
    <3>2. TabsRemember'
      BY <1>7, <3>1, TabFreed DEF WriteConfirm, Known
    <3> QED BY <1>7, <3>1, <3>2 DEF WriteConfirm, RowsInv
  <2> QED BY <2>2, <2>3
<1>8. ASSUME NEW c \in Tabs, WriteWrongCode(c)
      PROVE  WithdrawalsInv'
  <2>1. /\ withdrawal' \in [Withdrawals -> {NoWithdrawal} \cup PayoutRow]
        /\ \A v : Known(v) => v \in Withdrawals /\ withdrawal'[v] # NoWithdrawal
    BY <1>8, WrongCodeRow, RowWritten
  <2>2. TabsRemember'
    BY <1>8, <2>1, TabFreed DEF WriteWrongCode
  <2> QED BY <1>8, <2>1, <2>2 DEF WriteWrongCode, RowsInv
<1>9. ASSUME NEW c \in Tabs, EndTab(c)
      PROVE  WithdrawalsInv'
  <2>1. TabsRemember'
    BY <1>9, TabFreed DEF EndTab, Known
  <2> QED BY <1>9, <2>1 DEF EndTab, RowsInv
<1>10. ASSUME NEW w \in Withdrawals, NEW verdict \in {"PAID", "REJECTED"}, Review(w, verdict)
       PROVE  WithdrawalsInv'
  <2>1. Known(w)
    BY <1>10 DEF Review, Known, NoWithdrawal
  <2>2. [withdrawal[w] EXCEPT !.status = verdict] \in PayoutRow
    BY <2>1, RowFields
  <2>3. withdrawal' = [withdrawal EXCEPT ![w] = [withdrawal[w] EXCEPT !.status = verdict]]
    BY <1>10 DEF Review
  <2>4. /\ withdrawal' \in [Withdrawals -> {NoWithdrawal} \cup PayoutRow]
        /\ \A v : Known(v) => v \in Withdrawals /\ withdrawal'[v] # NoWithdrawal
    BY <2>2, <2>3, RowWritten
  <2>5. \A v : Known(v) => Known(v)'
    BY <2>4 DEF Known
  <2> QED BY <1>10, <2>4, <2>5 DEF Review, RowsInv, TabsRemember, InRequest, Known
<1>11. CASE PassTime
  <2>1. clock' \in 0..MaxTime
    BY <1>11, WithdrawalBounds DEF PassTime, RowsInv
  <2> QED BY <1>11, <2>1 DEF PassTime, RowsInv, TabsRemember, InRequest, Known
<1>12. CASE UNCHANGED producerVars
  BY <1>12 DEF producerVars, RowsInv, TabsRemember, InRequest, Known
<1> QED BY <1>1, <1>2, <1>3, <1>4, <1>5, <1>6, <1>7, <1>8, <1>9, <1>10, <1>11, <1>12
        DEF ServiceNext

\* Rows and requests are about amounts that were asked for.
AskedInv ==
  /\ \A w \in Withdrawals : withdrawal[w] # NoWithdrawal => withdrawal[w].amount \in Amounts
  /\ \A c \in Tabs : InRequest(c) => tab[c].amount \in Amounts

\* A row keeps its amount, and a new one has the amount of its request.
LEMMA AskedInvStep ==
  ASSUME WithdrawalsInv, AskedInv, [WithdrawalsNext]_producerVars
  PROVE  AskedInv'
<1>0. tab = [c \in Tabs |-> tab[c]] /\ RowsInv /\ TabsRemember
  BY DEF WithdrawalsInv, TabsRemember
<1>1. ASSUME UNCHANGED <<withdrawal, tab>> PROVE AskedInv'
  BY <1>1 DEF AskedInv, InRequest
<1>2. ASSUME NEW c \in Tabs, NEW p \in Producers, NEW n \in Amounts, BeginRequest(c, p, n)
      PROVE  AskedInv'
  BY <1>0, <1>2 DEF BeginRequest, AskedInv, InRequest
<1>3. ASSUME NEW c \in Tabs, CountHolds(c)
      PROVE  AskedInv'
  <2>1. tab[c].amount \in Amounts
    BY <1>3 DEF CountHolds, AskedInv, InRequest
  <2>2. \A d \in Tabs : tab'[d].amount = tab[d].amount /\ (d # c => tab'[d] = tab[d])
    BY <1>0, <1>3 DEF CountHolds
  <2> QED BY <1>3, <2>1, <2>2 DEF CountHolds, AskedInv, InRequest
<1>4. ASSUME NEW c \in Tabs, NEW w \in Withdrawals, NEW right \in BOOLEAN, BeginConfirm(c, w, right)
      PROVE  AskedInv'
  <2>1. tab' = [tab EXCEPT ![c] = tab'[c]] /\ tab'[c].op \in {"expire", "confirm", "wrong"}
        /\ withdrawal' = withdrawal
    BY <1>0, <1>4 DEF BeginConfirm
  <2> QED BY <1>0, <2>1 DEF AskedInv, InRequest
<1>5. ASSUME NEW c \in Tabs, tab' = [tab EXCEPT ![c] = TabIdle]
      PROVE  \A d \in Tabs : InRequest(d)' => InRequest(d) /\ tab'[d] = tab[d]
  BY <1>0, <1>5 DEF InRequest, TabIdle
<1>6. ASSUME NEW c \in Tabs, NEW id \in Withdrawals, CommitRequest(c, id)
      PROVE  AskedInv'
  <2>1. ASSUME NEW w \in Withdrawals, withdrawal'[w] # NoWithdrawal
        PROVE  withdrawal'[w].amount \in Amounts
    <3>1. CASE w = id
      BY <1>6, <3>1 DEF CommitRequest, AskedInv, InRequest
    <3>2. CASE w # id /\ w \in tab[c].expired
      <4>1. Known(w)
        BY <1>0, <1>6, <3>2 DEF CommitRequest, TabsRemember, InRequest
      <4>2. withdrawal'[w] = [withdrawal[w] EXCEPT !.status = "EXPIRED"]
        BY <1>6, <3>2 DEF CommitRequest
      <4>3. withdrawal'[w].amount = withdrawal[w].amount
        BY <1>0, <4>1, <4>2, RowFields DEF PayoutRow
      <4> QED BY <4>1, <4>3 DEF AskedInv, Known
    <3>3. CASE w # id /\ w \notin tab[c].expired
      BY <1>6, <2>1, <3>3 DEF CommitRequest, AskedInv
    <3> QED BY <3>1, <3>2, <3>3
  <2> QED BY <1>5, <1>6, <2>1 DEF CommitRequest, AskedInv
<1>7. ASSUME NEW c \in Tabs, WriteConfirm(c) \/ WriteWrongCode(c) \/ EndTab(c)
      PROVE  AskedInv'
  <2>1. tab' = [tab EXCEPT ![c] = TabIdle]
    BY <1>7 DEF WriteConfirm, WriteWrongCode, EndTab
  <2>2. ASSUME NEW w \in Withdrawals
        PROVE  withdrawal'[w] # NoWithdrawal =>
                 withdrawal[w] # NoWithdrawal /\ withdrawal'[w].amount = withdrawal[w].amount
    <3>1. CASE WriteConfirm(c)
      <4>1. Known(tab[c].id)
        BY <1>0, <3>1 DEF WriteConfirm, TabsRemember
      <4> QED BY <1>0, <3>1, <4>1 DEF WriteConfirm, RowsInv, Known
    <3>2. CASE WriteWrongCode(c)
      <4>1. Known(tab[c].id)
        BY <1>0, <3>2 DEF WriteWrongCode, TabsRemember
      <4> QED BY <1>0, <3>2, <4>1 DEF WriteWrongCode, RowsInv, Known
    <3>3. CASE EndTab(c)
      BY <3>3 DEF EndTab
    <3> QED BY <1>7, <3>1, <3>2, <3>3
  <2> QED BY <1>5, <2>1, <2>2 DEF AskedInv
<1>8. ASSUME NEW v \in Withdrawals, NEW verdict \in {"PAID", "REJECTED"}, Review(v, verdict)
      PROVE  AskedInv'
  <2>1. Known(v)
    BY <1>8 DEF Review, Known, NoWithdrawal
  <2>2. \A w \in Withdrawals : withdrawal'[w] # NoWithdrawal =>
          withdrawal[w] # NoWithdrawal /\ withdrawal'[w].amount = withdrawal[w].amount
    BY <1>0, <1>8, <2>1 DEF Review, RowsInv, Known
  <2> QED BY <1>8, <2>2 DEF Review, AskedInv, InRequest
<1>9. ASSUME NEW f \in Films,
             \/ \E s \in Stores : Sell(f, s)
             \/ \E p \in Producers, share \in RevenueShares : Assign(f, p, share)
      PROVE  UNCHANGED <<withdrawal, tab>>
  BY <1>9 DEF Sell, Assign
<1>10. PassTime \/ UNCHANGED producerVars => UNCHANGED <<withdrawal, tab>>
  BY DEF PassTime, producerVars
<1> QED BY <1>1, <1>2, <1>3, <1>4, <1>6, <1>7, <1>8, <1>9, <1>10 DEF WithdrawalsNext

\* Transfers were made for rows that exist.
TransfersKnown == \A w \in transferred : Known(w)

\* A row that exists is never taken away, whatever is written to it.
LEMMA KnownStays ==
  ASSUME WithdrawalsInv, [ServiceNext]_producerVars, NEW v, Known(v)
  PROVE  Known(v)'
<1>0. RowsInv /\ TabsRemember /\ v \in Withdrawals /\ withdrawal[v] \in PayoutRow
  BY RowFields DEF WithdrawalsInv, Known
<1>1. \A st \in {"REQUESTED", "PAID", "REJECTED", "EXPIRED"} :
        [withdrawal[v] EXCEPT !.status = st] \in PayoutRow
  BY <1>0, RowFields
<1>2. ASSUME NEW row \in PayoutRow, withdrawal'[v] = row PROVE Known(v)'
  BY <1>0, <1>2, RowsAreNotMissing DEF Known
<1>3. CASE withdrawal' = withdrawal
  BY <1>0, <1>2, <1>3
<1>4. ASSUME NEW c \in Tabs, NEW id \in Withdrawals, CommitRequest(c, id) PROVE Known(v)'
  <2>1. v # id
    BY <1>4 DEF CommitRequest, Known
  <2>2. withdrawal'[v] \in {withdrawal[v], [withdrawal[v] EXCEPT !.status = "EXPIRED"]}
    BY <1>0, <1>4, <2>1 DEF CommitRequest
  <2> QED BY <1>0, <1>1, <1>2, <2>2
<1>5. ASSUME NEW c \in Tabs, WriteConfirm(c) PROVE Known(v)'
  <2>1. withdrawal'[v] \in {withdrawal[v], [withdrawal[v] EXCEPT !.status = "REQUESTED"],
                            [withdrawal[v] EXCEPT !.status = "EXPIRED"]}
    BY <1>0, <1>5 DEF WriteConfirm, RowsInv
  <2> QED BY <1>0, <1>1, <1>2, <2>1
<1>6. ASSUME NEW c \in Tabs, WriteWrongCode(c) PROVE Known(v)'
  <2>1. withdrawal' = [withdrawal EXCEPT ![tab[c].id] = withdrawal'[tab[c].id]]
        /\ withdrawal'[tab[c].id] \in PayoutRow
    BY <1>6, WrongCodeRow
  <2>2. withdrawal'[v] \in PayoutRow
    BY <1>0, <2>1 DEF RowsInv
  <2> QED BY <1>2, <2>2
<1>7. ASSUME NEW w \in Withdrawals, NEW verdict \in {"PAID", "REJECTED"}, Review(w, verdict)
      PROVE  Known(v)'
  <2>1. withdrawal'[v] \in {withdrawal[v], [withdrawal[v] EXCEPT !.status = verdict]}
    BY <1>0, <1>7 DEF Review, RowsInv
  <2> QED BY <1>0, <1>1, <1>2, <2>1
<1>8. ASSUME NEW f \in Films,
             \/ \E st \in Stores : Sell(f, st)
             \/ \E p \in Producers, share \in RevenueShares : Assign(f, p, share)
      PROVE  withdrawal' = withdrawal
  BY <1>8 DEF Sell, Assign
<1>9. ASSUME NEW c \in Tabs,
             \/ \E p \in Producers, n \in Positive : BeginRequest(c, p, n)
             \/ \E w \in Withdrawals, right \in BOOLEAN : BeginConfirm(c, w, right)
             \/ CountHolds(c) \/ EndTab(c)
      PROVE  withdrawal' = withdrawal
  BY <1>9 DEF BeginRequest, BeginConfirm, CountHolds, EndTab
<1>10. PassTime \/ UNCHANGED producerVars => withdrawal' = withdrawal
  BY DEF PassTime, producerVars
<1> QED BY <1>3, <1>4, <1>5, <1>6, <1>7, <1>8, <1>9, <1>10 DEF ServiceNext

\* Only the review of a row adds a transfer.
LEMMA TransfersStep ==
  ASSUME WithdrawalsInv, TransfersKnown, [ServiceNext]_producerVars
  PROVE  TransfersKnown'
<1>1. ASSUME NEW w \in transferred' PROVE w \in transferred \/ Known(w)
  <2>1. ASSUME NEW v \in Withdrawals, NEW verdict \in {"PAID", "REJECTED"}, Review(v, verdict)
        PROVE  transferred' \subseteq transferred \cup {v} /\ Known(v)
    BY <2>1 DEF Review, Known, NoWithdrawal
  <2>2. ASSUME NEW f \in Films,
               \/ \E st \in Stores : Sell(f, st)
               \/ \E p \in Producers, share \in RevenueShares : Assign(f, p, share)
        PROVE  transferred' = transferred
    BY <2>2 DEF Sell, Assign
  <2>3. ASSUME NEW c \in Tabs,
               \/ \E p \in Producers, n \in Positive : BeginRequest(c, p, n)
               \/ \E v \in Withdrawals : CommitRequest(c, v)
               \/ \E v \in Withdrawals, right \in BOOLEAN : BeginConfirm(c, v, right)
               \/ CountHolds(c) \/ WriteConfirm(c) \/ WriteWrongCode(c) \/ EndTab(c)
        PROVE  transferred' = transferred
    BY <2>3 DEF BeginRequest, CommitRequest, BeginConfirm, CountHolds, WriteConfirm,
                WriteWrongCode, EndTab
  <2>4. PassTime \/ UNCHANGED producerVars => transferred' = transferred
    BY DEF PassTime, producerVars
  <2> QED BY <1>1, <2>1, <2>2, <2>3, <2>4 DEF ServiceNext
<1>2. \A w \in transferred' : Known(w)
  BY <1>1 DEF TransfersKnown
<1>3. \A w \in transferred' : Known(w)'
  BY <1>2, KnownStays
<1> QED BY <1>3 DEF TransfersKnown

\* The withdrawal rows keep their types: attempts never pass their limit.
THEOREM WithdrawalTypes == WithdrawalsSpec => []WithdrawalsTypeOK
<1>1. WithdrawalsInit => WithdrawalsInv /\ AskedInv /\ TransfersKnown
  BY WithdrawalsInvInit DEF WithdrawalsInit, AskedInv, TransfersKnown, InRequest, TabIdle
<1>2. WithdrawalsInv /\ AskedInv /\ TransfersKnown /\ [WithdrawalsNext]_producerVars
        => (WithdrawalsInv /\ AskedInv /\ TransfersKnown)'
  BY WithdrawalsInvStep, ServiceIsWider, AskedInvStep, TransfersStep
<1>3. WithdrawalsInv /\ AskedInv /\ TransfersKnown => WithdrawalsTypeOK
  <2> SUFFICES ASSUME WithdrawalsInv, AskedInv, TransfersKnown PROVE WithdrawalsTypeOK
    OBVIOUS
  <2>1. ASSUME NEW w \in Withdrawals, withdrawal[w] # NoWithdrawal
        PROVE  withdrawal[w] \in WithdrawalRow
    <3>1. withdrawal[w] \in PayoutRow /\ withdrawal[w].amount \in Amounts
      BY <2>1 DEF WithdrawalsInv, RowsInv, AskedInv
    <3> QED BY <3>1 DEF PayoutRow, WithdrawalRow
  <2>2. withdrawal \in [Withdrawals -> {NoWithdrawal} \cup WithdrawalRow]
    BY <2>1 DEF WithdrawalsInv, RowsInv
  <2>3. transferred \subseteq Withdrawals
    BY DEF TransfersKnown, Known
  <2> QED BY <2>2, <2>3 DEF WithdrawalsInv, RowsInv, TabsRemember, Known, WithdrawalsTypeOK
<1> QED BY <1>1, <1>2, <1>3, PTL DEF WithdrawalsSpec

-----------------------------------------------------------------------------
(* ProducerService: tabs that work at once overdraw nothing.               *)

Existing == {w \in Withdrawals : withdrawal[w] # NoWithdrawal}
Linked   == {f \in Films : link[f] # Unlinked}

Held == {"AWAITING_CONFIRMATION", "REQUESTED", "PAID"}

Holds(p) == WithStatus(p, Held)

CodeRanOut == \E w \in Withdrawals : withdrawal[w] # NoWithdrawal /\ Late(w)

\* Of the films and the rows there are finitely many at any time.
FiniteRows == IsFiniteSet(Existing) /\ IsFiniteSet(Linked)

\* Until a code has run out, what a producer holds was earned, and so is what the
\* one request at a time has counted and is about to add.
HoldsInv ==
  /\ \A c \in Tabs : InRequest(c) => /\ {"op", "producer", "amount", "expired"} \subseteq DOMAIN tab[c]
                                     /\ \A w \in tab[c].expired : Late(w)
  /\ \A c, d \in Tabs :
       InRequest(c) /\ InRequest(d) /\ tab[c].producer = tab[d].producer => c = d
  /\ CodeRanOut
     \/ \A p \in Producers :
          /\ Amount(Holds(p)) <= Earned(p)
          /\ \A c \in Tabs : tab[c].op = "creating" /\ tab[c].producer = p =>
               Amount(Holds(p)) + tab[c].amount <= Earned(p)

OverdraftInv == WithdrawalsInv /\ FiniteRows /\ HoldsInv

\* An admin may move a film with its past sales to another producer, or lower its
\* share (assign): what was paid for it is then no longer earned.  Elsewhere earnings
\* only grow.
FilmsStay ==
  \A f \in Films : link[f] # Unlinked =>
    link'[f].producer = link[f].producer /\ link[f].share <= link'[f].share

-----------------------------------------------------------------------------
(* Earnings.                                                               *)

\* Commissions and shares.
Parts == 0..BPS

\* Whole numbers: parts of ten thousand of a natural are naturals, and a larger part
\* is not less.
LEMMA PartsOfTenThousand ==
  ASSUME NEW a \in Nat, NEW s \in Nat, NEW t \in Nat, s <= t
  PROVE  /\ (a * s) \div BPS \in Nat /\ (a * t) \div BPS \in Nat
         /\ (a * s) \div BPS <= (a * t) \div BPS
<1>1. PICK x : x = a * s
  OBVIOUS
<1>2. PICK y : y = a * t
  OBVIOUS
<1>3. x \in Nat /\ y \in Nat /\ x <= y
  BY <1>1, <1>2
<1>4. x \div 10000 \in Nat /\ y \div 10000 \in Nat /\ x \div 10000 <= y \div 10000
  BY <1>3
<1> QED BY <1>1, <1>2, <1>4 DEF BPS

\* What a sale brings its producer does not fall with the share.
LEMMA ShareGrows ==
  ASSUME NEW a \in Nat, NEW c \in Parts, NEW s \in Parts, NEW t \in Parts, s <= t
  PROVE  /\ ProducerShare(a, c, s) \in Nat /\ ProducerShare(a, c, t) \in Nat
         /\ ProducerShare(a, c, s) <= ProducerShare(a, c, t)
<1>1. BPS - c \in Nat /\ s \in Nat /\ t \in Nat
  <2>1. BPS \in Nat
    BY DEF BPS
  <2> QED BY <2>1 DEF Parts
<1>2. PICK k : k = BPS - c
  OBVIOUS
<1>3. PICK n : n = (a * k) \div BPS
  OBVIOUS
<1>4. n \in Nat
  <2>1. k \in Nat /\ k <= k
    BY <1>1, <1>2
  <2> QED BY <1>3, <2>1, PartsOfTenThousand, Zenon
<1>5. /\ (n * s) \div BPS \in Nat /\ (n * t) \div BPS \in Nat
      /\ (n * s) \div BPS <= (n * t) \div BPS
  BY <1>1, <1>4, PartsOfTenThousand, Zenon
<1> QED BY <1>2, <1>3, <1>5, Zenon DEF ProducerShare, NetOfStore

\* More sales of the same ticket, or as many of a dearer one, bring no less.
LEMMA SalesGrow ==
  ASSUME NEW m \in Nat, NEW n \in Nat, NEW a \in Nat, NEW b \in Nat, m <= n, a <= b
  PROVE  m * a \in Nat /\ n * b \in Nat /\ m * a <= n * b
<1>1. m * a <= n * a /\ n * a <= n * b
  OBVIOUS
<1>2. m * a \in Nat /\ n * b \in Nat /\ n * a \in Nat
  OBVIOUS
<1> QED BY <1>1, <1>2

\* The assumptions about shares.
LEMMA SharesAreParts ==
  /\ RevenueShares \subseteq Parts /\ MaxSales \in Nat
  /\ TicketMinor \in [Stores -> Nat] /\ Commission \in [Stores -> Parts]
BY WithdrawalConstants, Zenon DEF Parts

\* What a film earns with so many sales and such a share.
Brings(sales, share) ==
  SumFunction([s \in Stores |->
    sales[s] * ProducerShare(TicketMinor[s], Commission[s], share)])

\* It does not fall while neither does.
LEMMA BringsMore ==
  ASSUME NEW m \in [Stores -> Nat], NEW n \in [Stores -> Nat], \A s \in Stores : m[s] <= n[s],
         NEW share \in Parts, NEW higher \in Parts, share <= higher
  PROVE  /\ Brings(m, share) \in Nat /\ Brings(n, higher) \in Nat
         /\ Brings(m, share) <= Brings(n, higher)
<1> DEFINE a == [s \in Stores |-> m[s] * ProducerShare(TicketMinor[s], Commission[s], share)]
           b == [s \in Stores |-> n[s] * ProducerShare(TicketMinor[s], Commission[s], higher)]
<1>1. ASSUME NEW s \in Stores
      PROVE  a[s] \in Nat /\ b[s] \in Nat /\ a[s] <= b[s]
  <2>1. /\ TicketMinor[s] \in Nat /\ Commission[s] \in Parts
        /\ m[s] \in Nat /\ n[s] \in Nat /\ m[s] <= n[s]
    BY SharesAreParts
  <2>4a. /\ ProducerShare(TicketMinor[s], Commission[s], share) \in Nat
        /\ ProducerShare(TicketMinor[s], Commission[s], higher) \in Nat
        /\ ProducerShare(TicketMinor[s], Commission[s], share)
             <= ProducerShare(TicketMinor[s], Commission[s], higher)
    BY <2>1, ShareGrows, Zenon
  <2>2. PICK x : x = ProducerShare(TicketMinor[s], Commission[s], share)
    OBVIOUS
  <2>3. PICK y : y = ProducerShare(TicketMinor[s], Commission[s], higher)
    OBVIOUS
  <2>4. x \in Nat /\ y \in Nat /\ x <= y
    BY <2>2, <2>3, <2>4a
  <2>5. m[s] * x \in Nat /\ n[s] * y \in Nat /\ m[s] * x <= n[s] * y
    BY <2>1, <2>4, SalesGrow
  <2>6. a[s] = m[s] * x /\ b[s] = n[s] * y
    BY <2>2, <2>3
  <2> QED BY <2>5, <2>6
<1>2. a \in [Stores -> Nat] /\ b \in [Stores -> Nat]
  BY <1>1
<1>3. Brings(m, share) = SumFunction(a) /\ Brings(n, higher) = SumFunction(b)
  BY DEF Brings
<1>4. IsFiniteSet(Stores)
  BY WithdrawalBounds
<1> HIDE DEF a, b
<1>5. /\ SumFunction(a) \in Nat /\ SumFunction(b) \in Nat
      /\ SumFunction(a) <= SumFunction(b)
  <2>1. Stores \in SUBSET Stores /\ \A s \in Stores : a[s] <= b[s]
    BY <1>1
  <2> QED BY <1>2, <1>4, <2>1, SumOfPart, Zenon
<1> QED BY <1>3, <1>5

\* A linked film has a producer and a share, and is sold so often at each store.
LinkedFilm(f) ==
  /\ link[f].producer \in Producers /\ link[f].share \in Parts
  /\ sold[f] \in [Stores -> Nat]

LEMMA LinkedFilms ==
  ASSUME RowsInv, NEW f \in Films, link[f] # Unlinked
  PROVE  LinkedFilm(f)
<1>1. link[f] \in [producer : Producers, share : RevenueShares]
  BY DEF RowsInv
<1>2. RevenueShares \subseteq Parts /\ MaxSales \in Nat
  BY SharesAreParts, Zenon
<1>3. sold[f] \in [Stores -> 0..MaxSales] /\ 0..MaxSales \subseteq Nat
  BY <1>2 DEF RowsInv
<1>4. link[f].producer \in Producers /\ link[f].share \in Parts
  BY <1>1, <1>2
<1>5. sold[f] \in [Stores -> Nat]
  BY <1>3
<1> QED BY <1>4, <1>5 DEF LinkedFilm

\* It earns a number.
LEMMA LinkedNow ==
  ASSUME RowsInv, NEW f \in Films, link[f] # Unlinked
  PROVE  FilmEarns(f) \in Nat
<1>1. PICK m \in [Stores -> Nat] : m = sold[f]
  BY LinkedFilms DEF LinkedFilm
<1>2. PICK share \in Parts : share = link[f].share
  BY LinkedFilms DEF LinkedFilm
<1>3. share <= share /\ \A s \in Stores : m[s] <= m[s]
  BY DEF Parts
<1>4. Brings(m, share) \in Nat
  BY <1>3, BringsMore, Zenon
<1> QED BY <1>1, <1>2, <1>4 DEF FilmEarns, Brings

\* So it is after a step.
LEMMA LinkedThen ==
  ASSUME RowsInv', NEW f \in Films, link'[f] # Unlinked
  PROVE  LinkedFilm(f)' /\ FilmEarns(f)' \in Nat
<1>1. link'[f] \in [producer : Producers, share : RevenueShares]
  BY DEF RowsInv
<1>2. RevenueShares \subseteq Parts /\ MaxSales \in Nat
  BY SharesAreParts, Zenon
<1>3. sold'[f] \in [Stores -> 0..MaxSales] /\ 0..MaxSales \subseteq Nat
  BY <1>2 DEF RowsInv
<1>a. link'[f].producer \in Producers /\ link'[f].share \in Parts
  BY <1>1, <1>2
<1>b. sold'[f] \in [Stores -> Nat]
  BY <1>3
<1>4. LinkedFilm(f)'
  BY <1>a, <1>b DEF LinkedFilm
<1>5. FilmEarns(f)' = Brings(sold'[f], link'[f].share)
  BY DEF FilmEarns, Brings
<1>6. Brings(sold'[f], link'[f].share) \in Nat
  <2>1. PICK m \in [Stores -> Nat] : m = sold'[f]
    BY <1>b
  <2>2. PICK share \in Parts : share = link'[f].share
    BY <1>a
  <2>3. share <= share /\ \A s \in Stores : m[s] <= m[s]
    BY DEF Parts
  <2>4. Brings(m, share) \in Nat
    BY <2>3, BringsMore, Zenon
  <2> QED BY <2>1, <2>2, <2>4
<1> QED BY <1>4, <1>5, <1>6

\* What a film earns does not fall while its share does not and its sales grow.
LEMMA FilmEarnsMore ==
  ASSUME RowsInv, RowsInv', NEW f \in Films, link[f] # Unlinked, FilmsStay,
         \A s \in Stores : sold[f][s] <= sold'[f][s]
  PROVE  /\ link'[f].producer = link[f].producer
         /\ FilmEarns(f) \in Nat /\ FilmEarns(f)' \in Nat /\ FilmEarns(f) <= FilmEarns(f)'
<1>1. LinkedFilm(f)
  BY LinkedFilms
<1>2. link[f].share <= link'[f].share /\ link'[f].producer = link[f].producer
  BY DEF FilmsStay
<1>3. link'[f] # Unlinked
  <2>1. Unlinked.producer \notin Producers
    BY WithdrawalBounds
  <2>2. link[f].producer \in Producers
    BY <1>1 DEF LinkedFilm
  <2> QED BY <1>2, <2>1, <2>2
<1>4. LinkedFilm(f)'
  BY <1>3, LinkedThen
<1>5. /\ FilmEarns(f) = Brings(sold[f], link[f].share)
      /\ FilmEarns(f)' = Brings(sold'[f], link'[f].share)
  BY DEF FilmEarns, Brings
<1>6. /\ Brings(sold[f], link[f].share) \in Nat /\ Brings(sold'[f], link'[f].share) \in Nat
      /\ Brings(sold[f], link[f].share) <= Brings(sold'[f], link'[f].share)
  <2>1. /\ sold[f] \in [Stores -> Nat] /\ sold'[f] \in [Stores -> Nat]
        /\ link[f].share \in Parts /\ link'[f].share \in Parts
    BY <1>1, <1>4 DEF LinkedFilm
  <2> QED BY <1>2, <2>1, BringsMore, Zenon
<1> QED BY <1>2, <1>5, <1>6

\* What a producer earned is a number.
LEMMA EarnsNat ==
  ASSUME RowsInv, FiniteRows, NEW p \in Producers
  PROVE  Earned(p) \in Nat
<1>1. FilmsOf(p) \subseteq Linked
  BY WithdrawalBounds DEF FilmsOf, Linked
<1>2. IsFiniteSet(FilmsOf(p))
  BY <1>1, FS_Subset DEF FiniteRows
<1>3. \A f \in FilmsOf(p) : FilmEarns(f) \in Nat
  BY <1>1, LinkedNow DEF Linked
<1>4. [f \in FilmsOf(p) |-> FilmEarns(f)] \in [FilmsOf(p) -> Nat]
  BY <1>3
<1> QED BY <1>2, <1>4, SumNat DEF Earned

\* What a producer earned does not fall while no film of his is taken away.
LEMMA EarnsMore ==
  ASSUME RowsInv, RowsInv', FiniteRows, FiniteRows', FilmsStay, NEW p \in Producers,
         \A f \in Films, s \in Stores : sold[f][s] <= sold'[f][s]
  PROVE  Earned(p) \in Nat /\ Earned(p)' \in Nat /\ Earned(p) <= Earned(p)'
<1> DEFINE a == [f \in FilmsOf(p) |-> FilmEarns(f)]
<1>1. PICK b : b = [f \in FilmsOf(p) |-> FilmEarns(f)]'
  OBVIOUS
<1>2. PICK T : T = FilmsOf(p)'
  OBVIOUS
<1>3. FilmsOf(p) \subseteq Linked /\ T \subseteq Linked' /\ Linked \subseteq Films /\ T \subseteq Films
  BY <1>2, WithdrawalBounds DEF FilmsOf, Linked
<1>4. FilmsOf(p) \subseteq T
  BY <1>2, <1>3 DEF FilmsOf, FilmsStay, Linked
<1>5. IsFiniteSet(T)
  BY <1>3, FS_Subset DEF FiniteRows
<1>6. b = [f \in T |-> FilmEarns(f)']
  BY <1>1, <1>2
<1>7. ASSUME NEW f \in FilmsOf(p)
      PROVE  a[f] \in Nat /\ b[f] \in Nat /\ a[f] <= b[f]
  BY <1>3, <1>4, <1>6, <1>7, FilmEarnsMore DEF Linked
<1>8. ASSUME NEW f \in T PROVE b[f] \in Nat
  BY <1>3, <1>6, <1>8, LinkedThen DEF Linked
<1>9. a \in [FilmsOf(p) -> Nat] /\ b \in [T -> Nat]
  BY <1>6, <1>7, <1>8
<1>10. Earned(p) = SumFunction(a) /\ Earned(p)' = SumFunction(b)
  BY <1>1 DEF Earned
<1> HIDE DEF a
<1> QED BY <1>4, <1>5, <1>7, <1>9, <1>10, SumOfPart

-----------------------------------------------------------------------------
(* Holds.                                                                  *)

\* A row that exists has an amount, and holds are rows that exist.
LEMMA HeldRows ==
  ASSUME RowsInv
  PROVE  /\ \A w \in Existing : withdrawal[w] \in PayoutRow /\ withdrawal[w].amount \in Nat
         /\ \A p : Holds(p) \subseteq Existing
<1>1. Positive \subseteq Nat
  BY DEF Positive
<1>2. ASSUME NEW w \in Existing
      PROVE  withdrawal[w] \in PayoutRow /\ withdrawal[w].amount \in Nat
  <2>1. withdrawal[w] \in PayoutRow
    BY DEF RowsInv, Existing
  <2>2. withdrawal[w].amount \in Positive
    BY <2>1 DEF PayoutRow
  <2> QED BY <1>1, <2>1, <2>2
<1>3. \A p : Holds(p) \subseteq Existing
  BY DEF Holds, WithStatus, Held, Existing, NoWithdrawal
<1> QED BY <1>2, <1>3

\* What is held adds up to a number.
LEMMA HoldsAreNat ==
  ASSUME RowsInv, FiniteRows, NEW p
  PROVE  Amount(Holds(p)) \in Nat
<1>1. Holds(p) \subseteq Existing /\ \A w \in Holds(p) : withdrawal[w].amount \in Nat
  BY HeldRows
<1>2. IsFiniteSet(Holds(p))
  BY <1>1, FS_Subset DEF FiniteRows
<1>3. [w \in Holds(p) |-> withdrawal[w].amount] \in [Holds(p) -> Nat]
  BY <1>1
<1> QED BY <1>2, <1>3, SumNat DEF Amount

\* Holds that go leave a sum that is not larger.
LEMMA HoldsShrink ==
  ASSUME RowsInv, FiniteRows, NEW p, NEW T \in SUBSET Holds(p), T = Holds(p)',
         \A w \in T : withdrawal'[w].amount = withdrawal[w].amount
  PROVE  Amount(Holds(p))' \in Nat /\ Amount(Holds(p))' <= Amount(Holds(p))
<1> DEFINE g == [w \in Holds(p) |-> withdrawal[w].amount]
           f == [w \in T |-> withdrawal[w].amount]
<1>1. Holds(p) \subseteq Existing /\ \A w \in Holds(p) : withdrawal[w].amount \in Nat
  BY HeldRows
<1>2. IsFiniteSet(Holds(p))
  BY <1>1, FS_Subset DEF FiniteRows
<1>3. g \in [Holds(p) -> Nat] /\ f \in [T -> Nat] /\ \A w \in T : f[w] <= g[w]
  BY <1>1
<1>4. PICK h : h = [w \in Holds(p) |-> withdrawal[w].amount]'
  OBVIOUS
<1>5. h = [w \in T |-> withdrawal'[w].amount]
  BY <1>4
<1>6. h = f
  BY <1>5
<1>7. Amount(Holds(p)) = SumFunction(g) /\ Amount(Holds(p))' = SumFunction(h)
  BY <1>4 DEF Amount
<1> HIDE DEF f, g
<1>8. SumFunction(f) \in Nat /\ SumFunction(g) \in Nat /\ SumFunction(f) <= SumFunction(g)
  BY <1>2, <1>3, SumOfPart, Zenon
<1> QED BY <1>6, <1>7, <1>8

\* One more hold adds its amount.
LEMMA HoldsGrow ==
  ASSUME RowsInv, FiniteRows, NEW p, NEW id, id \notin Holds(p), Holds(p)' = Holds(p) \cup {id},
         \A w \in Holds(p) : withdrawal'[w].amount = withdrawal[w].amount,
         withdrawal'[id].amount \in Nat
  PROVE  Amount(Holds(p))' = Amount(Holds(p)) + withdrawal'[id].amount
<1> DEFINE f == [w \in Holds(p) |-> withdrawal[w].amount]
<1>1. Holds(p) \subseteq Existing /\ \A w \in Holds(p) : withdrawal[w].amount \in Nat
  BY HeldRows
<1>2. IsFiniteSet(Holds(p))
  BY <1>1, FS_Subset DEF FiniteRows
<1>3. PICK h : h = [w \in Holds(p) |-> withdrawal[w].amount]'
  OBVIOUS
<1>4. h = [w \in Holds(p) \cup {id} |-> withdrawal'[w].amount]
  BY <1>3
<1>5. h[id] = withdrawal'[id].amount /\ \A w \in Holds(p) : h[w] = f[w]
  BY <1>4
<1>6. f \in [Holds(p) -> Int] /\ h \in [Holds(p) \cup {id} -> Int]
  BY <1>1, <1>4
<1>7. Amount(Holds(p)) = SumFunction(f) /\ Amount(Holds(p))' = SumFunction(h)
  BY <1>3 DEF Amount
<1> HIDE DEF f
<1>8. SumFunction(h) = SumFunction(f) + h[id]
  <2>1. PICK S : S = Holds(p)
    OBVIOUS
  <2>2. IsFiniteSet(S) /\ id \notin S /\ \A w \in S : h[w] = f[w]
    BY <1>2, <1>5, <2>1
  <2>3. f \in [S -> Int]
    BY <1>6, <2>1
  <2>4. h \in [S \cup {id} -> Int]
    BY <1>6, <2>1
  <2> QED BY <2>2, <2>3, <2>4, SumAdd
<1> QED BY <1>5, <1>7, <1>8

\* Part of the rows of a producer add up to no more than all of them.
LEMMA AmountOfPart ==
  ASSUME RowsInv, FiniteRows, NEW S, S \subseteq Existing, NEW T \in SUBSET S
  PROVE  Amount(T) \in Nat /\ Amount(S) \in Nat /\ Amount(T) <= Amount(S)
<1> DEFINE f == [w \in T |-> withdrawal[w].amount]
           g == [w \in S |-> withdrawal[w].amount]
<1>1. \A w \in S : withdrawal[w].amount \in Nat
  BY HeldRows
<1>2. IsFiniteSet(S)
  BY FS_Subset DEF FiniteRows
<1>3. f \in [T -> Nat] /\ g \in [S -> Nat] /\ \A w \in T : f[w] <= g[w]
  BY <1>1
<1>4. Amount(T) = SumFunction(f) /\ Amount(S) = SumFunction(g)
  BY DEF Amount
<1> HIDE DEF f, g
<1>5. SumFunction(f) \in Nat /\ SumFunction(g) \in Nat /\ SumFunction(f) <= SumFunction(g)
  BY <1>2, <1>3, SumOfPart, Zenon
<1> QED BY <1>4, <1>5

-----------------------------------------------------------------------------
(* Steps.                                                                  *)

\* A row keeps its producer, its amount and the life of its code.
RowsStay ==
  \A w \in Existing :
    /\ withdrawal'[w] # NoWithdrawal
    /\ withdrawal'[w].producer = withdrawal[w].producer
    /\ withdrawal'[w].amount = withdrawal[w].amount
    /\ withdrawal'[w].expiresAt = withdrawal[w].expiresAt

\* A code that ran out stays so.
LEMMA LateStays ==
  ASSUME WithdrawalsInv, WithdrawalsInv', RowsStay, clock <= clock'
  PROVE  \A w \in Existing : Late(w) => Late(w)' /\ CodeRanOut'
<1> SUFFICES ASSUME NEW w \in Existing, Late(w)
             PROVE  Late(w)' /\ CodeRanOut'
  OBVIOUS
<1>1. withdrawal[w] \in PayoutRow
  BY HeldRows DEF WithdrawalsInv
<1>2. withdrawal[w].expiresAt \in Nat /\ clock \in Nat /\ clock' \in Nat
  <2>1. MaxTime \in Nat
    BY WithdrawalBounds
  <2>2. clock \in 0..MaxTime /\ clock' \in 0..MaxTime
    BY DEF WithdrawalsInv, RowsInv
  <2>3. withdrawal[w].expiresAt \in Nat
    BY <1>1 DEF PayoutRow
  <2> QED BY <2>1, <2>2, <2>3
<1>3. withdrawal'[w].expiresAt <= clock'
  BY <1>2 DEF RowsStay, Late
<1> QED BY <1>3 DEF Late, CodeRanOut, RowsStay, Existing

\* A step that lets holds go but adds none, takes no earnings away and begins no
\* request keeps what is held within what was earned.
LEMMA HoldsKept ==
  ASSUME OverdraftInv, WithdrawalsInv', FiniteRows', FilmsStay, RowsStay, clock <= clock',
         \A f \in Films, s \in Stores : sold[f][s] <= sold'[f][s],
         \A w \in Withdrawals : withdrawal'[w].status \in Held => withdrawal[w].status \in Held,
         \A c \in Tabs : tab'[c] = tab[c] \/ tab'[c].op \notin {"counting", "creating"}
  PROVE  HoldsInv'
<1>1. ASSUME NEW c \in Tabs, InRequest(c)', NEW w \in tab'[c].expired
      PROVE  Late(w)'
  <2>1. tab'[c] = tab[c] /\ InRequest(c)
    BY <1>1 DEF InRequest
  <2>2. Known(w) /\ Late(w)
    BY <1>1, <2>1 DEF OverdraftInv, WithdrawalsInv, TabsRemember, HoldsInv
  <2> QED BY <2>2, LateStays DEF OverdraftInv, Known, Existing
<1>2. ASSUME NEW c \in Tabs, NEW d \in Tabs,
             InRequest(c)', InRequest(d)', tab'[c].producer = tab'[d].producer
      PROVE  c = d
  <2>1. tab'[c] = tab[c] /\ tab'[d] = tab[d]
    BY <1>2 DEF InRequest
  <2>2. InRequest(c) /\ InRequest(d) /\ tab[c].producer = tab[d].producer
    BY <1>2, <2>1 DEF InRequest
  <2> QED BY <2>2 DEF OverdraftInv, HoldsInv
<1>3. ASSUME ~CodeRanOut', NEW p \in Producers
      PROVE  /\ Amount(Holds(p))' <= Earned(p)'
             /\ \A c \in Tabs : tab'[c].op = "creating" /\ tab'[c].producer = p =>
                  Amount(Holds(p))' + tab'[c].amount <= Earned(p)'
  <2>1. ~CodeRanOut
    BY <1>3, LateStays DEF OverdraftInv, CodeRanOut, Existing
  <2>2. Earned(p) \in Nat /\ Earned(p)' \in Nat /\ Earned(p) <= Earned(p)'
    BY EarnsMore DEF OverdraftInv, WithdrawalsInv
  <2>3. PICK T : T = Holds(p)'
    OBVIOUS
  <2>4. T \in SUBSET Holds(p)
    BY <2>3 DEF Holds, WithStatus, RowsStay, Existing, Held, NoWithdrawal
  <2>5. \A w \in T : withdrawal'[w].amount = withdrawal[w].amount
    BY <2>4, HeldRows DEF RowsStay, OverdraftInv, WithdrawalsInv
  <2>6. Amount(Holds(p))' \in Nat /\ Amount(Holds(p))' <= Amount(Holds(p))
    BY <2>3, <2>4, <2>5, HoldsShrink DEF OverdraftInv, WithdrawalsInv
  <2>7. Amount(Holds(p)) \in Nat
    BY HoldsAreNat DEF OverdraftInv, WithdrawalsInv
  <2>8. Amount(Holds(p)) <= Earned(p)
    BY <2>1 DEF OverdraftInv, HoldsInv
  <2>9. Amount(Holds(p))' <= Earned(p)'
    BY <2>2, <2>6, <2>7, <2>8
  <2>10. ASSUME NEW c \in Tabs, tab'[c].op = "creating", tab'[c].producer = p
         PROVE  Amount(Holds(p))' + tab'[c].amount <= Earned(p)'
    <3>1. tab'[c] = tab[c]
      BY <2>10
    <3>2. Amount(Holds(p)) + tab[c].amount <= Earned(p)
      BY <2>1, <2>10, <3>1 DEF OverdraftInv, HoldsInv
    <3>3. tab[c].amount \in Nat
      BY <2>10, <3>1 DEF OverdraftInv, WithdrawalsInv, TabsRemember, InRequest, Positive
    <3> QED BY <2>2, <2>6, <2>7, <3>1, <3>2, <3>3
  <2> QED BY <2>9, <2>10
<1>4. \A c \in Tabs : InRequest(c)' =>
        {"op", "producer", "amount", "expired"} \subseteq DOMAIN tab'[c]
  BY DEF InRequest, OverdraftInv, HoldsInv
<1> QED BY <1>1, <1>2, <1>3, <1>4 DEF HoldsInv

\* One more film or row leaves finitely many.
LEMMA RowsStayFinite ==
  ASSUME FiniteRows, NEW w, NEW f,
         \A v \in Withdrawals : withdrawal'[v] # NoWithdrawal => v = w \/ withdrawal[v] # NoWithdrawal,
         \A g \in Films : link'[g] # Unlinked => g = f \/ link[g] # Unlinked
  PROVE  FiniteRows'
<1>1. PICK E : E = Existing'
  OBVIOUS
<1>2. PICK L : L = Linked'
  OBVIOUS
<1>3. E \subseteq Existing \cup {w} /\ L \subseteq Linked \cup {f}
  BY <1>1, <1>2 DEF Existing, Linked
<1>4. IsFiniteSet(Existing \cup {w}) /\ IsFiniteSet(Linked \cup {f})
  BY FS_AddElement DEF FiniteRows
<1>5. IsFiniteSet(E) /\ IsFiniteSet(L)
  BY <1>3, <1>4, FS_Subset
<1> QED BY <1>1, <1>2, <1>5 DEF FiniteRows

\* A film that nobody moves or sets again stays.
LEMMA FilmsRest ==
  ASSUME RowsInv, link' = link
  PROVE  FilmsStay
<1> SUFFICES ASSUME NEW f \in Films, link[f] # Unlinked PROVE link[f].share <= link[f].share
  BY DEF FilmsStay
<1>1. PICK share \in Parts : share = link[f].share
  BY LinkedFilms DEF LinkedFilm
<1>2. share <= share
  BY DEF Parts
<1> QED BY <1>1, <1>2

\* Sales that are left alone are as many.
LEMMA SalesRest ==
  ASSUME RowsInv, sold' = sold
  PROVE  \A f \in Films, s \in Stores : sold[f][s] <= sold'[f][s]
<1>1. MaxSales \in Nat
  BY WithdrawalBounds
<1>2. \A f \in Films, s \in Stores : sold[f][s] \in 0..MaxSales
  BY DEF RowsInv
<1> QED BY <1>1, <1>2

\* A write to one row of its status and attempts only.
LEMMA RowRewritten ==
  ASSUME WithdrawalsInv, NEW w \in Existing, NEW status, NEW attempts,
         withdrawal' = [withdrawal EXCEPT ![w].attempts = attempts, ![w].status = status]
  PROVE  /\ RowsStay
         /\ withdrawal'[w].status = status
         /\ \A v \in Withdrawals : v # w => withdrawal'[v] = withdrawal[v]
<1>1. withdrawal[w] \in PayoutRow
  BY HeldRows DEF WithdrawalsInv
<1>2. withdrawal \in [Withdrawals -> {NoWithdrawal} \cup PayoutRow] /\ w \in Withdrawals
  BY DEF WithdrawalsInv, RowsInv, Existing
<1>3. withdrawal'[w] = [withdrawal[w] EXCEPT !.attempts = attempts, !.status = status]
  BY <1>2
<1>4. /\ withdrawal'[w].producer = withdrawal[w].producer
      /\ withdrawal'[w].amount = withdrawal[w].amount
      /\ withdrawal'[w].expiresAt = withdrawal[w].expiresAt
      /\ withdrawal'[w].status = status
      /\ "amount" \in DOMAIN withdrawal'[w]
  <2>1. PICK row \in PayoutRow : row = withdrawal[w]
    BY <1>1
  <2>2. PICK next : next = [row EXCEPT !.attempts = attempts, !.status = status]
    OBVIOUS
  <2>3. /\ next.producer = row.producer /\ next.amount = row.amount
        /\ next.expiresAt = row.expiresAt /\ next.status = status /\ "amount" \in DOMAIN next
    BY <2>2 DEF PayoutRow
  <2> QED BY <1>3, <2>1, <2>2, <2>3, Zenon
<1>5. withdrawal'[w] # NoWithdrawal
  BY <1>4 DEF NoWithdrawal
<1>6. \A v \in Withdrawals : v # w => withdrawal'[v] = withdrawal[v]
  BY <1>2
<1> QED BY <1>4, <1>5, <1>6 DEF RowsStay, Existing

\* A request that is counting knows what the producer holds and has earned.
LEMMA CountedIsHeld ==
  ASSUME OverdraftInv, ~CodeRanOut, NEW c \in Tabs, CountHolds(c)
  PROVE  Amount(Holds(tab[c].producer)) + tab[c].amount <= Earned(tab[c].producer)
<1> DEFINE p == tab[c].producer
<1>1. InRequest(c) /\ p \in Producers /\ tab[c].amount \in Nat \ {0}
  BY DEF OverdraftInv, WithdrawalsInv, TabsRemember, CountHolds, InRequest, Positive
<1>2. tab[c].expired = {}
  BY <1>1 DEF OverdraftInv, WithdrawalsInv, TabsRemember, HoldsInv, CodeRanOut, Known
<1>3. Locked(p) = Holds(p)
  BY DEF Locked, Holds, Held, WithStatus, Awaiting, CodeRanOut, NoWithdrawal
<1>4. tab[c].amount <= Available(p, {})
  BY <1>2 DEF CountHolds
<1>5. Holds(p) \ {} = Holds(p)
  OBVIOUS
<1>6. Available(p, {}) = IF Earned(p) - Amount(Holds(p)) > 0 THEN Earned(p) - Amount(Holds(p)) ELSE 0
  BY <1>3, <1>5 DEF Available
<1>7. Amount(Holds(p)) \in Nat
  BY HoldsAreNat DEF OverdraftInv, WithdrawalsInv
<1>8. Earned(p) \in Nat
  BY <1>1, EarnsNat DEF OverdraftInv, WithdrawalsInv
<1> HIDE DEF p
<1>9. Amount(Holds(p)) + tab[c].amount <= Earned(p)
  BY <1>1, <1>4, <1>6, <1>7, <1>8
<1> QED BY <1>9 DEF p

\* A request that begins finds no other of its producer, and holds nothing yet.
LEMMA RequestBegins ==
  ASSUME OverdraftInv, NEW c \in Tabs, NEW p \in Producers, NEW n \in Positive,
         BeginRequest(c, p, n)
  PROVE  HoldsInv'
<1>1. /\ tab' = [tab EXCEPT ![c] = [op |-> "counting", producer |-> p, amount |-> n,
                                    expired |-> {w \in Awaiting(p) : Late(w)}]]
      /\ \A d \in Tabs : InRequest(d) => tab[d].producer # p
      /\ UNCHANGED <<link, sold, withdrawal, clock>>
  BY DEF BeginRequest, ProducerLocked
<1>2. tab = [d \in Tabs |-> tab[d]]
  BY DEF OverdraftInv, WithdrawalsInv, TabsRemember
<1>3. /\ tab'[c].op = "counting" /\ tab'[c].producer = p
      /\ tab'[c].expired = {w \in Awaiting(p) : Late(w)}
      /\ {"op", "producer", "amount", "expired"} \subseteq DOMAIN tab'[c]
      /\ \A d \in Tabs : d # c => tab'[d] = tab[d]
  BY <1>1, <1>2
<1>4. ASSUME NEW d \in Tabs, InRequest(d)', NEW w \in tab'[d].expired
      PROVE  Late(w)'
  <2>1. Late(w)
    <3>1. CASE d = c
      BY <1>3, <1>4, <3>1
    <3>2. CASE d # c
      BY <1>3, <1>4, <3>2 DEF OverdraftInv, HoldsInv, InRequest
    <3> QED BY <3>1, <3>2
  <2> QED BY <1>1, <2>1 DEF Late
<1>5. ASSUME NEW d \in Tabs, NEW e \in Tabs,
             InRequest(d)', InRequest(e)', tab'[d].producer = tab'[e].producer
      PROVE  d = e
  BY <1>1, <1>3, <1>5 DEF InRequest, OverdraftInv, HoldsInv
<1>6. CodeRanOut' = CodeRanOut
  BY <1>1 DEF CodeRanOut, Late
<1>7. ASSUME ~CodeRanOut, NEW q \in Producers
      PROVE  /\ Amount(Holds(q))' <= Earned(q)'
             /\ \A d \in Tabs : tab'[d].op = "creating" /\ tab'[d].producer = q =>
                  Amount(Holds(q))' + tab'[d].amount <= Earned(q)'
  <2>1. Amount(Holds(q))' = Amount(Holds(q)) /\ Earned(q)' = Earned(q)
    BY <1>1 DEF Amount, Holds, WithStatus, Earned, FilmsOf, FilmEarns
  <2>2. \A d \in Tabs : tab'[d].op = "creating" => tab'[d] = tab[d]
    BY <1>3
  <2>3. /\ Amount(Holds(q)) <= Earned(q)
        /\ \A d \in Tabs : tab[d].op = "creating" /\ tab[d].producer = q =>
             Amount(Holds(q)) + tab[d].amount <= Earned(q)
    BY <1>7 DEF OverdraftInv, HoldsInv
  <2> QED BY <2>1, <2>2, <2>3, Zenon
<1>8. \A d \in Tabs : InRequest(d)' =>
        {"op", "producer", "amount", "expired"} \subseteq DOMAIN tab'[d]
  BY <1>3 DEF InRequest, OverdraftInv, HoldsInv
<1> QED BY <1>4, <1>5, <1>6, <1>7, <1>8 DEF HoldsInv

\* A request that has counted may add its amount.
LEMMA RequestCounts ==
  ASSUME OverdraftInv, NEW c \in Tabs, CountHolds(c)
  PROVE  HoldsInv'
<1>1. /\ tab[c].op = "counting" /\ tab' = [tab EXCEPT ![c].op = "creating"]
      /\ UNCHANGED <<link, sold, withdrawal, clock>>
  BY DEF CountHolds
<1>2. tab = [d \in Tabs |-> tab[d]]
  BY DEF OverdraftInv, WithdrawalsInv, TabsRemember
<1>3. /\ tab'[c].op = "creating" /\ tab'[c].producer = tab[c].producer
      /\ tab'[c].amount = tab[c].amount /\ tab'[c].expired = tab[c].expired
      /\ DOMAIN tab'[c] = DOMAIN tab[c]
      /\ \A d \in Tabs : d # c => tab'[d] = tab[d]
  <2>1. PICK r : r = tab[c]
    OBVIOUS
  <2>2. {"op", "producer", "amount", "expired"} \subseteq DOMAIN r
    BY <1>1, <2>1 DEF OverdraftInv, HoldsInv, InRequest
  <2>3. tab'[c] = [r EXCEPT !.op = "creating"]
    BY <1>1, <1>2, <2>1
  <2>4. /\ [r EXCEPT !.op = "creating"].op = "creating"
        /\ \A f \in {"producer", "amount", "expired"} : [r EXCEPT !.op = "creating"][f] = r[f]
    BY <2>2
  <2>5. DOMAIN [r EXCEPT !.op = "creating"] = DOMAIN r
    OBVIOUS
  <2> QED BY <1>1, <1>2, <2>1, <2>3, <2>4, <2>5
<1>4. \A d \in Tabs : /\ InRequest(d)' = InRequest(d) /\ DOMAIN tab'[d] = DOMAIN tab[d]
                      /\ tab'[d].producer = tab[d].producer /\ tab'[d].expired = tab[d].expired
                      /\ tab'[d].amount = tab[d].amount
  BY <1>1, <1>3 DEF InRequest
<1>5. CodeRanOut' = CodeRanOut /\ \A w : Late(w)' = Late(w)
  BY <1>1 DEF CodeRanOut, Late
<1>6. ASSUME ~CodeRanOut, NEW q \in Producers
      PROVE  /\ Amount(Holds(q))' <= Earned(q)'
             /\ \A d \in Tabs : tab'[d].op = "creating" /\ tab'[d].producer = q =>
                  Amount(Holds(q))' + tab'[d].amount <= Earned(q)'
  <2>1. Amount(Holds(q))' = Amount(Holds(q)) /\ Earned(q)' = Earned(q)
    BY <1>1 DEF Amount, Holds, WithStatus, Earned, FilmsOf, FilmEarns
  <2>2. Amount(Holds(q)) <= Earned(q)
    BY <1>6 DEF OverdraftInv, HoldsInv
  <2>3. ASSUME NEW d \in Tabs, tab'[d].op = "creating", tab'[d].producer = q
        PROVE  Amount(Holds(q)) + tab[d].amount <= Earned(q)
    <3>1. CASE d = c
      BY <1>3, <1>6, <2>3, <3>1, CountedIsHeld
    <3>2. CASE d # c
      BY <1>3, <1>6, <2>3, <3>2 DEF OverdraftInv, HoldsInv
    <3> QED BY <3>1, <3>2
  <2> QED BY <1>4, <2>1, <2>2, <2>3, Zenon
<1> QED BY <1>4, <1>5, <1>6 DEF OverdraftInv, HoldsInv

\* A request that commits adds what it counted.
LEMMA RequestCommits ==
  ASSUME OverdraftInv, WithdrawalsInv', NEW c \in Tabs, NEW id \in Withdrawals, CommitRequest(c, id)
  PROVE  HoldsInv'
<1> DEFINE p == tab[c].producer
           X == tab[c].expired
           row == [status |-> "AWAITING_CONFIRMATION", producer |-> tab[c].producer,
                   amount |-> tab[c].amount, expiresAt |-> clock + CodeTTL, attempts |-> 0]
<1>1. /\ tab[c].op = "creating" /\ withdrawal[id] = NoWithdrawal
      /\ tab' = [tab EXCEPT ![c] = TabIdle] /\ UNCHANGED <<link, sold, clock>>
      /\ withdrawal'[id] = row
      /\ \A w \in Withdrawals : w # id =>
           withdrawal'[w] = IF w \in X THEN [withdrawal[w] EXCEPT !.status = "EXPIRED"]
                                       ELSE withdrawal[w]
  BY DEF CommitRequest
<1>2. /\ InRequest(c) /\ p \in Producers /\ tab[c].amount \in Nat /\ tab = [d \in Tabs |-> tab[d]]
      /\ X \subseteq Existing /\ \A w \in X : Late(w)
  <2>1. InRequest(c) /\ TabsRemember
    BY <1>1 DEF InRequest, OverdraftInv, WithdrawalsInv
  <2>2. p \in Producers /\ tab[c].amount \in Positive /\ tab = [d \in Tabs |-> tab[d]]
    BY <2>1 DEF TabsRemember
  <2>3. X \subseteq Existing
    BY <2>1 DEF TabsRemember, Known, Existing
  <2>4. \A w \in X : Late(w)
    BY <2>1 DEF OverdraftInv, HoldsInv
  <2>5. Positive \subseteq Nat
    BY DEF Positive
  <2> QED BY <2>1, <2>2, <2>3, <2>4, <2>5
<1>3. tab'[c] = TabIdle /\ ~InRequest(c)' /\ \A d \in Tabs : d # c => tab'[d] = tab[d]
  BY <1>1, <1>2 DEF InRequest, TabIdle
<1>4. RowsStay
  <2> SUFFICES ASSUME NEW w \in Existing
               PROVE  /\ withdrawal'[w] # NoWithdrawal
                      /\ withdrawal'[w].producer = withdrawal[w].producer
                      /\ withdrawal'[w].amount = withdrawal[w].amount
                      /\ withdrawal'[w].expiresAt = withdrawal[w].expiresAt
    BY DEF RowsStay
  <2>1. withdrawal[w] \in PayoutRow /\ w # id /\ w \in Withdrawals
    BY <1>1, HeldRows DEF Existing, OverdraftInv, WithdrawalsInv
  <2>2. CASE w \in X
    <3>1. withdrawal'[w] = [withdrawal[w] EXCEPT !.status = "EXPIRED"]
      BY <1>1, <2>1, <2>2
    <3>2. /\ "amount" \in DOMAIN withdrawal'[w]
          /\ withdrawal'[w].producer = withdrawal[w].producer
          /\ withdrawal'[w].amount = withdrawal[w].amount
          /\ withdrawal'[w].expiresAt = withdrawal[w].expiresAt
      BY <2>1, <3>1 DEF PayoutRow
    <3> QED BY <3>2 DEF NoWithdrawal
  <2>3. CASE w \notin X
    BY <1>1, <2>1, <2>3 DEF Existing
  <2> QED BY <2>2, <2>3
<1>5. clock <= clock'
  <2>1. MaxTime \in Nat
    BY WithdrawalBounds
  <2>2. clock \in 0..MaxTime
    BY DEF OverdraftInv, WithdrawalsInv, RowsInv
  <2> QED BY <1>1, <2>1, <2>2
<1>6. ASSUME NEW d \in Tabs, InRequest(d)', NEW w \in tab'[d].expired
      PROVE  Late(w)'
  <2>1. d # c /\ tab'[d] = tab[d] /\ InRequest(d)
    BY <1>3, <1>6 DEF InRequest
  <2>2. Known(w) /\ Late(w)
    BY <1>6, <2>1 DEF OverdraftInv, WithdrawalsInv, TabsRemember, HoldsInv
  <2> QED BY <1>4, <1>5, <2>2, LateStays DEF OverdraftInv, Known, Existing
<1>7. ASSUME NEW d \in Tabs, NEW e \in Tabs,
             InRequest(d)', InRequest(e)', tab'[d].producer = tab'[e].producer
      PROVE  d = e
  <2>1. tab'[d] = tab[d] /\ tab'[e] = tab[e] /\ InRequest(d) /\ InRequest(e)
    BY <1>3, <1>7 DEF InRequest
  <2> QED BY <1>7, <2>1 DEF OverdraftInv, HoldsInv
<1>8. ASSUME ~CodeRanOut', NEW q \in Producers
      PROVE  /\ Amount(Holds(q))' <= Earned(q)'
             /\ \A d \in Tabs : tab'[d].op = "creating" /\ tab'[d].producer = q =>
                  Amount(Holds(q))' + tab'[d].amount <= Earned(q)'
  <2>1. ~CodeRanOut
    BY <1>4, <1>5, <1>8, LateStays DEF OverdraftInv, CodeRanOut, Existing
  <2>2. X = {}
    BY <1>2, <2>1 DEF CodeRanOut, Existing
  <2>3. \A w \in Withdrawals : w # id => withdrawal'[w] = withdrawal[w]
    BY <1>1, <2>2
  <2>4. Earned(q)' = Earned(q)
    BY <1>1 DEF Earned, FilmsOf, FilmEarns
  <2>5. ASSUME NEW d \in Tabs, tab'[d].op = "creating"
        PROVE  d # c /\ tab'[d] = tab[d] /\ tab[d].producer # p
    <3>1. d # c /\ tab'[d] = tab[d] /\ InRequest(d)
      BY <1>3, <2>5 DEF TabIdle, InRequest
    <3> QED BY <1>2, <3>1 DEF OverdraftInv, HoldsInv
  <2>6. /\ Amount(Holds(q)) <= Earned(q)
        /\ \A d \in Tabs : tab[d].op = "creating" /\ tab[d].producer = q =>
             Amount(Holds(q)) + tab[d].amount <= Earned(q)
    BY <2>1 DEF OverdraftInv, HoldsInv
  <2>7. id \notin Holds(q) /\ \A w \in Holds(q) : withdrawal'[w] = withdrawal[w]
    BY <1>1, <2>3 DEF Holds, WithStatus, Held, NoWithdrawal
  <2>8. CASE q = p
    <3>1. Holds(q)' = Holds(q) \cup {id}
      <4>1. PICK T : T = Holds(q)'
        OBVIOUS
      <4>2. T = {w \in Withdrawals : withdrawal'[w].status \in Held /\ withdrawal'[w].producer = q}
        BY <4>1 DEF Holds, WithStatus
      <4>3. withdrawal'[id].status \in Held /\ withdrawal'[id].producer = q
        BY <1>1, <2>8 DEF Held
      <4>4. T = Holds(q) \cup {id}
        BY <2>3, <4>2, <4>3 DEF Holds, WithStatus
      <4> QED BY <4>1, <4>4
    <3>2. withdrawal'[id].amount = tab[c].amount
      BY <1>1
    <3>3. Amount(Holds(q))' = Amount(Holds(q)) + tab[c].amount
      <4>1. \A w \in Holds(q) : withdrawal'[w].amount = withdrawal[w].amount
        BY <2>7
      <4>2. withdrawal'[id].amount \in Nat
        BY <1>2, <3>2
      <4>3. RowsInv /\ FiniteRows
        BY DEF OverdraftInv, WithdrawalsInv
      <4>4. Amount(Holds(q))' = Amount(Holds(q)) + withdrawal'[id].amount
        BY <2>7, <3>1, <4>1, <4>2, <4>3, HoldsGrow
      <4> QED BY <3>2, <4>4
    <3>4. Amount(Holds(q)) + tab[c].amount <= Earned(q)
      BY <1>1, <2>6, <2>8
    <3> QED BY <2>4, <2>5, <2>8, <3>3, <3>4
  <2>9. CASE q # p
    <3>1. PICK T : T = Holds(q)'
      OBVIOUS
    <3>2. T = {w \in Withdrawals : withdrawal'[w].status \in Held /\ withdrawal'[w].producer = q}
      BY <3>1 DEF Holds, WithStatus
    <3>3. withdrawal'[id].producer # q
      BY <1>1, <2>9
    <3>4. T = Holds(q)
      BY <2>3, <2>7, <3>2, <3>3 DEF Holds, WithStatus
    <3>5. Amount(Holds(q))' = Amount(Holds(q))
      <4>1. PICK h : h = [w \in Holds(q) |-> withdrawal[w].amount]'
        OBVIOUS
      <4>2. h = [w \in T |-> withdrawal'[w].amount]
        BY <3>1, <4>1
      <4>3. h = [w \in Holds(q) |-> withdrawal[w].amount]
        BY <2>7, <3>4, <4>2
      <4> QED BY <4>1, <4>3 DEF Amount
    <3> QED BY <2>4, <2>5, <2>6, <3>5
  <2> QED BY <2>8, <2>9
<1>9. \A d \in Tabs : InRequest(d)' =>
        {"op", "producer", "amount", "expired"} \subseteq DOMAIN tab'[d]
  BY <1>3 DEF InRequest, OverdraftInv, HoldsInv
<1> QED BY <1>6, <1>7, <1>8, <1>9 DEF HoldsInv

\* Every step keeps what is held within what was earned, until a code runs out.
LEMMA OverdraftInvStep ==
  ASSUME OverdraftInv, [ServiceNext]_producerVars, [FilmsStay]_link
  PROVE  OverdraftInv'
<1>0. /\ WithdrawalsInv /\ RowsInv /\ FiniteRows /\ TabsRemember /\ WithdrawalsInv'
      /\ tab = [d \in Tabs |-> tab[d]]
  BY WithdrawalsInvStep DEF OverdraftInv, WithdrawalsInv, TabsRemember
<1>1. FilmsStay
  BY <1>0, FilmsRest
<1>2. sold' = sold => \A f \in Films, s \in Stores : sold[f][s] <= sold'[f][s]
  BY <1>0, SalesRest
<1>3. clock' = clock => clock <= clock'
  <2>1. MaxTime \in Nat
    BY WithdrawalBounds
  <2>2. clock \in 0..MaxTime
    BY <1>0 DEF RowsInv
  <2> QED BY <2>1, <2>2
<1>4. withdrawal' = withdrawal =>
        /\ RowsStay
        /\ \A w \in Withdrawals : withdrawal'[w].status \in Held => withdrawal[w].status \in Held
  BY DEF RowsStay, Existing
<1>5. UNCHANGED <<withdrawal, link>> => FiniteRows'
  BY <1>0 DEF FiniteRows, Existing, Linked
<1> DEFINE Same == /\ FiniteRows' /\ RowsStay /\ clock <= clock'
                   /\ \A f \in Films, s \in Stores : sold[f][s] <= sold'[f][s]
                   /\ \A w \in Withdrawals : withdrawal'[w].status \in Held => withdrawal[w].status \in Held
                   /\ \A c \in Tabs : tab'[c] = tab[c] \/ tab'[c].op \notin {"counting", "creating"}
           Goal == FiniteRows' /\ HoldsInv'
<1>6. Same => Goal
  BY <1>0, <1>1, HoldsKept
<1>7. ASSUME NEW c \in Tabs, tab' = [tab EXCEPT ![c] = TabIdle]
      PROVE  \A d \in Tabs : tab'[d] = tab[d] \/ tab'[d].op \notin {"counting", "creating"}
  BY <1>0, <1>7 DEF TabIdle
<1> HIDE DEF Goal
<1>8. ASSUME NEW f \in Films, NEW s \in Stores, Sell(f, s) PROVE Goal
  <2>1. \A g \in Films, t \in Stores : sold[g][t] <= sold'[g][t]
    <3>1. MaxSales \in Nat
      BY WithdrawalBounds
    <3>2. \A g \in Films, t \in Stores : sold[g][t] \in 0..MaxSales
      BY <1>0 DEF RowsInv
    <3>3. \A g \in Films, t \in Stores : sold'[g][t] \in {sold[g][t], sold[g][t] + 1}
      BY <1>0, <1>8 DEF Sell, RowsInv
    <3> QED BY <3>1, <3>2, <3>3
  <2> QED BY <1>3, <1>4, <1>5, <1>6, <1>8, <2>1 DEF Sell
<1>9. ASSUME NEW f \in Films, NEW p \in Producers, NEW share \in RevenueShares, Assign(f, p, share)
      PROVE  Goal
  <2>1. \A g \in Films : link'[g] # Unlinked => g = f \/ link[g] # Unlinked
    BY <1>0, <1>9 DEF Assign, RowsInv
  <2>2. FiniteRows'
    BY <1>0, <1>9, <2>1, RowsStayFinite DEF Assign
  <2> QED BY <1>2, <1>3, <1>4, <1>6, <1>9, <2>2 DEF Assign
<1>10. ASSUME NEW c \in Tabs, NEW p \in Producers, NEW n \in Positive, BeginRequest(c, p, n)
       PROVE  Goal
  BY <1>5, <1>10, RequestBegins DEF BeginRequest, Goal
<1>11. ASSUME NEW c \in Tabs, CountHolds(c) PROVE Goal
  BY <1>5, <1>11, RequestCounts DEF CountHolds, Goal
<1>12. ASSUME NEW c \in Tabs, NEW id \in Withdrawals, CommitRequest(c, id) PROVE Goal
  <2>1. HoldsInv'
    BY <1>0, <1>12, RequestCommits
  <2>2. \A w \in Withdrawals : withdrawal'[w] # NoWithdrawal => w = id \/ withdrawal[w] # NoWithdrawal
    <3>1. \A w \in Withdrawals : w # id /\ w \notin tab[c].expired => withdrawal'[w] = withdrawal[w]
      BY <1>12 DEF CommitRequest
    <3>2. \A w \in tab[c].expired : withdrawal[w] # NoWithdrawal
      BY <1>0, <1>12 DEF CommitRequest, TabsRemember, InRequest, Known
    <3> QED BY <3>1, <3>2
  <2>3. link' = link
    BY <1>12 DEF CommitRequest
  <2>4. FiniteRows'
    BY <1>0, <2>2, <2>3, RowsStayFinite
  <2> QED BY <2>1, <2>4 DEF Goal
<1>13. ASSUME NEW c \in Tabs, NEW w \in Withdrawals, NEW right \in BOOLEAN, BeginConfirm(c, w, right)
       PROVE  Goal
  <2>1. \A d \in Tabs : tab'[d] = tab[d] \/ tab'[d].op \notin {"counting", "creating"}
    BY <1>0, <1>13 DEF BeginConfirm
  <2> QED BY <1>2, <1>3, <1>4, <1>5, <1>6, <1>13, <2>1 DEF BeginConfirm
<1>14. ASSUME NEW w \in Existing, NEW status, NEW attempts,
              withdrawal' = [withdrawal EXCEPT ![w].attempts = attempts, ![w].status = status],
              status \in Held => withdrawal[w].status \in Held,
              UNCHANGED <<link, sold, clock>>,
              \A d \in Tabs : tab'[d] = tab[d] \/ tab'[d].op \notin {"counting", "creating"}
       PROVE  Goal
  <2>1. /\ RowsStay /\ withdrawal'[w].status = status
        /\ \A v \in Withdrawals : v # w => withdrawal'[v] = withdrawal[v]
    BY <1>0, <1>14, RowRewritten
  <2>2. \A v \in Withdrawals : withdrawal'[v] # NoWithdrawal => v = w \/ withdrawal[v] # NoWithdrawal
    BY <2>1
  <2>3. link' = link /\ sold' = sold /\ clock' = clock
    BY <1>14
  <2>4. FiniteRows'
    BY <1>0, <2>2, <2>3, RowsStayFinite
  <2>5. \A v \in Withdrawals : withdrawal'[v].status \in Held => withdrawal[v].status \in Held
    BY <1>14, <2>1
  <2> QED BY <1>2, <1>3, <1>6, <1>14, <2>1, <2>3, <2>4, <2>5
<1>15. ASSUME NEW w \in Existing, NEW status,
              withdrawal' = [withdrawal EXCEPT ![w].status = status]
       PROVE  withdrawal' = [withdrawal EXCEPT ![w].attempts = withdrawal[w].attempts,
                                               ![w].status = status]
  <2>1. withdrawal[w] \in PayoutRow
    BY <1>0, HeldRows
  <2>2. [withdrawal[w] EXCEPT !.attempts = withdrawal[w].attempts] = withdrawal[w]
    BY <2>1 DEF PayoutRow
  <2> QED BY <1>0, <1>15, <2>2 DEF RowsInv
<1>16. ASSUME NEW c \in Tabs, WriteConfirm(c) PROVE Goal
  <2> DEFINE w == tab[c].id
             status == IF tab[c].op = "confirm" THEN "REQUESTED" ELSE "EXPIRED"
  <2>1. /\ tab' = [tab EXCEPT ![c] = TabIdle] /\ UNCHANGED <<link, sold, clock>>
        /\ withdrawal' = IF withdrawal[w].status = "AWAITING_CONFIRMATION"
                         THEN [withdrawal EXCEPT ![w].status = status] ELSE withdrawal
    BY <1>16 DEF WriteConfirm
  <2>2. \A d \in Tabs : tab'[d] = tab[d] \/ tab'[d].op \notin {"counting", "creating"}
    BY <1>7, <2>1
  <2>3. CASE withdrawal[w].status = "AWAITING_CONFIRMATION"
    <3>1. w \in Existing
      BY <1>0, <1>16 DEF WriteConfirm, TabsRemember, Known, Existing
    <3>2. withdrawal' = [withdrawal EXCEPT ![w].status = status]
      BY <2>1, <2>3
    <3>3. withdrawal' = [withdrawal EXCEPT ![w].attempts = withdrawal[w].attempts, ![w].status = status]
      BY ZenonT(30), <1>15, <3>1, <3>2
    <3>4. withdrawal[w].status \in Held
      BY <2>3 DEF Held
    <3> HIDE DEF status, w
    <3> QED BY <1>14, <2>1, <2>2, <3>1, <3>3, <3>4
  <2>4. CASE withdrawal[w].status # "AWAITING_CONFIRMATION"
    <3>1. UNCHANGED <<link, sold, clock, withdrawal>>
      BY <2>1, <2>4
    <3> QED BY <1>2, <1>3, <1>4, <1>5, <1>6, <2>2, <3>1
  <2> QED BY <2>3, <2>4
<1>17. ASSUME NEW c \in Tabs, WriteWrongCode(c) PROVE Goal
  <2> DEFINE w == tab[c].id
             status == IF tab[c].attempts >= MaxAttempts THEN "EXPIRED" ELSE withdrawal[w].status
  <2>1. /\ tab' = [tab EXCEPT ![c] = TabIdle] /\ UNCHANGED <<link, sold, clock>>
        /\ w \in Existing
    BY <1>0, <1>17 DEF WriteWrongCode, TabsRemember, Known, Existing
  <2>2. \A d \in Tabs : tab'[d] = tab[d] \/ tab'[d].op \notin {"counting", "creating"}
    BY <1>7, <2>1
  <2>3. withdrawal[w] \in PayoutRow /\ w \in Withdrawals
    BY <1>0, <2>1, HeldRows DEF Existing
  <2>4. withdrawal' = [withdrawal EXCEPT ![w].attempts = tab[c].attempts, ![w].status = status]
    BY <1>0, <1>17, <2>3 DEF WriteWrongCode, RowsInv, PayoutRow
  <2>5. status \in Held => withdrawal[w].status \in Held
    BY DEF Held
  <2> HIDE DEF status, w
  <2> QED BY <1>14, <2>1, <2>2, <2>4, <2>5
<1>18. ASSUME NEW c \in Tabs, EndTab(c) PROVE Goal
  <2>1. \A d \in Tabs : tab'[d] = tab[d] \/ tab'[d].op \notin {"counting", "creating"}
    BY <1>7, <1>18 DEF EndTab
  <2> QED BY <1>2, <1>3, <1>4, <1>5, <1>6, <1>18, <2>1 DEF EndTab
<1>19. ASSUME NEW w \in Withdrawals, NEW verdict \in {"PAID", "REJECTED"}, Review(w, verdict)
       PROVE  Goal
  <2>1. w \in Existing /\ withdrawal[w].status \in Held
    BY <1>19 DEF Review, Existing, NoWithdrawal, Held
  <2>2. withdrawal' = [withdrawal EXCEPT ![w].status = verdict] /\ UNCHANGED <<link, sold, clock, tab>>
    BY <1>19 DEF Review
  <2>3. withdrawal' = [withdrawal EXCEPT ![w].attempts = withdrawal[w].attempts, ![w].status = verdict]
    BY <1>15, <2>1, <2>2
  <2> QED BY <1>14, <2>1, <2>2, <2>3
<1>20. ASSUME PassTime PROVE Goal
  <2>1. clock <= clock'
    <3>1. MaxTime \in Nat
      BY WithdrawalBounds
    <3>2. clock \in 0..MaxTime
      BY <1>0 DEF RowsInv
    <3> QED BY <1>20, <3>1, <3>2 DEF PassTime
  <2> QED BY <1>2, <1>4, <1>5, <1>6, <1>20, <2>1 DEF PassTime
<1>21. ASSUME UNCHANGED producerVars PROVE Goal
  BY <1>2, <1>3, <1>4, <1>5, <1>6, <1>21 DEF producerVars
<1>22. Goal
  BY <1>8, <1>9, <1>10, <1>11, <1>12, <1>13, <1>16, <1>17, <1>18, <1>19, <1>20, <1>21
     DEF ServiceNext
<1> QED BY <1>0, <1>22 DEF OverdraftInv, Goal

\* Nothing is held at first.
LEMMA OverdraftInvInit == WithdrawalsInit => OverdraftInv
<1> SUFFICES ASSUME WithdrawalsInit PROVE OverdraftInv
  OBVIOUS
<1>1. WithdrawalsInv
  BY WithdrawalsInvInit
<1>2. Existing = {} /\ Linked = {}
  BY DEF WithdrawalsInit, Existing, Linked
<1>3. FiniteRows
  BY <1>2, FS_EmptySet DEF FiniteRows
<1>4. ASSUME NEW p \in Producers PROVE Amount(Holds(p)) <= Earned(p)
  <2>1. Holds(p) = {}
    BY <1>1, <1>2, HeldRows DEF WithdrawalsInv
  <2>2. Amount({}) = 0
    BY SumNone DEF Amount
  <2>3. Earned(p) \in Nat
    BY <1>1, <1>3, EarnsNat DEF WithdrawalsInv
  <2> QED BY <2>1, <2>2, <2>3
<1>5. \A c \in Tabs : tab[c].op = "idle"
  BY DEF WithdrawalsInit, TabIdle
<1>6. HoldsInv
  BY <1>4, <1>5 DEF HoldsInv, InRequest
<1> QED BY <1>1, <1>3, <1>6 DEF OverdraftInv

\* Rows that hold an amount or a transfer of a producer add up to what was paid and is
\* to be paid; what no longer counts of it was struck out.
LEMMA ChargesAddUp ==
  ASSUME RowsInv, FiniteRows, TransfersKnown, NEW p
  PROVE  /\ Amount(Charged(p)) \in Nat /\ Amount(StruckOut(p)) \in Nat
         /\ Amount(Charged(p)) <= Amount(WithStatus(p, {"REQUESTED", "PAID"})) + Amount(StruckOut(p))
<1> DEFINE S == Charged(p)
           T == WithStatus(p, {"REQUESTED", "PAID"})
           X == StruckOut(p)
           f == [w \in S |-> withdrawal[w].amount]
           g == [w \in T |-> withdrawal[w].amount]
           h == [w \in S \ T |-> withdrawal[w].amount]
<1>1. S \subseteq Existing /\ X \subseteq Existing /\ T \in SUBSET S
  BY DEF Charged, StruckOut, WithStatus, Existing, TransfersKnown, Known, NoWithdrawal
<1>2. S \ T \in SUBSET X
  BY DEF Charged, StruckOut, WithStatus, TransfersKnown, Known
<1>3. IsFiniteSet(S)
  BY <1>1, FS_Subset DEF FiniteRows
<1>4. \A w \in S : withdrawal[w].amount \in Int
  BY <1>1, HeldRows
<1>5. /\ f \in [S -> Int] /\ g \in [T -> Int] /\ h \in [S \ T -> Int]
      /\ \A w \in T : g[w] = f[w]
      /\ \A w \in S \ T : h[w] = f[w]
  BY <1>1, <1>4
<1>6. Amount(S) = SumFunction(f) /\ Amount(T) = SumFunction(g) /\ Amount(S \ T) = SumFunction(h)
  BY DEF Amount
<1>7. /\ Amount(X) \in Nat /\ Amount(S) \in Nat /\ Amount(T) \in Nat
      /\ Amount(S \ T) \in Nat /\ Amount(S \ T) <= Amount(X)
  <2> HIDE DEF S, T, X
  <2> QED BY <1>1, <1>2, AmountOfPart
<1> HIDE DEF S, T, X, f, g, h
<1>8. SumFunction(f) = SumFunction(g) + SumFunction(h)
  BY <1>1, <1>3, <1>5, SumSplit
<1>9. Amount(S) <= Amount(T) + Amount(X)
  BY <1>6, <1>7, <1>8
<1> QED BY <1>7, <1>9 DEF S, T, X

\* However many tabs and admins work at once, all that a producer was ever paid and is
\* still to be paid stays within what was earned until a code runs out unnoticed, but
\* for payments that a wrong code, counted before the right one, has written over: the
\* row lock of requestWithdrawal makes counting and reserving one thing
\* (availableInTx).  Films are not taken from a producer meanwhile.
THEOREM NothingIsOverdrawn ==
  WithdrawalsSpec /\ [][FilmsStay]_link => []OverdrawnOnlyAfterExpiry
<1>0. WithdrawalsInit => OverdraftInv /\ TransfersKnown
  BY OverdraftInvInit DEF WithdrawalsInit, TransfersKnown
<1>1. OverdraftInv /\ TransfersKnown /\ [WithdrawalsNext]_producerVars /\ [FilmsStay]_link
        => (OverdraftInv /\ TransfersKnown)'
  BY OverdraftInvStep, TransfersStep, ServiceIsWider DEF OverdraftInv
<1>2. OverdraftInv /\ TransfersKnown => OverdrawnOnlyAfterExpiry
  <2> SUFFICES ASSUME OverdraftInv, TransfersKnown, ~CodeRanOut, NEW p \in Producers
               PROVE  Amount(Charged(p)) <= Earned(p) + Amount(StruckOut(p))
    BY DEF OverdrawnOnlyAfterExpiry, CodeRanOut
  <2>0. RowsInv /\ FiniteRows
    BY DEF OverdraftInv, WithdrawalsInv
  <2> DEFINE T == WithStatus(p, {"REQUESTED", "PAID"})
  <2>1. T \in SUBSET Holds(p)
    BY DEF WithStatus, Holds, Held
  <2>2. Holds(p) \subseteq Existing
    BY <2>0, HeldRows
  <2>3. Amount(T) \in Nat /\ Amount(Holds(p)) \in Nat /\ Amount(T) <= Amount(Holds(p))
    <3> HIDE DEF T
    <3> QED BY <2>0, <2>1, <2>2, AmountOfPart
  <2>4. Amount(Holds(p)) <= Earned(p)
    BY DEF OverdraftInv, HoldsInv
  <2>5. Earned(p) \in Nat
    BY <2>0, EarnsNat
  <2>6. /\ Amount(Charged(p)) \in Nat /\ Amount(StruckOut(p)) \in Nat
        /\ Amount(Charged(p)) <= Amount(T) + Amount(StruckOut(p))
    BY <2>0, ChargesAddUp
  <2> HIDE DEF T
  <2> QED BY <2>3, <2>4, <2>5, <2>6
<1> QED BY <1>0, <1>1, <1>2, PTL DEF WithdrawalsSpec

-----------------------------------------------------------------------------
(* AdminSeriesService.                                                     *)

Removing(c) == edit[c].op = "remove"
Pending(c) == edit[c].op \in {"merge", "save"}

\* A removal in flight takes videos away with their rows, holds the title's
\* lock alone, and leaves a published series something to watch.
RemovalInv ==
  /\ edit = [c \in Edits |-> edit[c]]
  /\ \A c \in Edits : Removing(c) => edit[c].removal.rows \subseteq edit[c].removal.videos
  /\ \A c, d \in Edits : Removing(c) /\ Removing(d) => c = d
  /\ \A c \in Edits : Removing(c) /\ series.status = "published" =>
                        withVideo \ edit[c].removal.videos # {}

\* While requests come one after the other: what one is about to write was true
\* when it was read, and still is.
ApartInv ==
  apart =>
    /\ \A c, d \in Busy : c = d
    /\ series.status = "published" => withVideo # {}
    /\ series # NoSeries /\ (\A c \in Edits : ~Counting(c)) =>
         series.seasons = Cardinality(seasons)
    /\ \A c \in Edits : Pending(c) =>
         /\ Publishes(edit[c].change) => withVideo # {}
         /\ edit[c].change.column = "seasons" => edit[c].change.value = Cardinality(seasons)
    /\ \A c \in Edits : edit[c].op = "save" =>
         /\ edit[c].row.status = "published" => withVideo # {}
         /\ edit[c].row.seasons = Cardinality(seasons)

PublishingInv == PublishingTypeOK /\ RemovalInv

\* The number of season rows is a number.
LEMMA SeasonsAreFinite == PublishingTypeOK => Cardinality(seasons) \in Nat
BY PublishingConstants, FS_Subset, FS_CardinalityType DEF PublishingTypeOK

\* A change of one column leaves a row of the table.
LEMMA ChangedRowIsRow ==
  ASSUME NEW r \in Rows, NEW x \in Changes \cup [column : {"seasons"}, value : Nat]
  PROVE  [r EXCEPT ![x.column] = x.value] \in Rows
<1>1. CASE x.column = "meta"
  <2>1. x.value \in Texts
    BY <1>1 DEF Changes
  <2> QED BY <1>1, <2>1 DEF Rows
<1>2. CASE x.column = "status"
  <2>1. x.value \in {"draft", "published"}
    BY <1>2 DEF Changes
  <2> QED BY <1>2, <2>1 DEF Rows
<1>3. CASE x.column = "seasons"
  <2>1. x.value \in Nat
    BY <1>3 DEF Changes
  <2> QED BY <1>3, <2>1 DEF Rows
<1> QED BY <1>1, <1>2, <1>3 DEF Changes

\* The other columns keep what was read.
LEMMA ChangedColumns ==
  ASSUME NEW r \in Rows, NEW x \in Changes \cup [column : {"seasons"}, value : Nat]
  PROVE  /\ [r EXCEPT ![x.column] = x.value].status =
              IF x.column = "status" THEN x.value ELSE r.status
         /\ [r EXCEPT ![x.column] = x.value].seasons =
              IF x.column = "seasons" THEN x.value ELSE r.seasons
<1>1. x.column \in {"meta", "status", "seasons"}
  BY DEF Changes
<1> QED BY <1>1 DEF Rows

\* Nothing is in flight at first.
LEMMA PublishingInvInit == PublishingInit => PublishingInv /\ ApartInv
<1> SUFFICES ASSUME PublishingInit
             PROVE  PublishingInv /\ ApartInv
  OBVIOUS
<1>1. PublishingInv
  BY DEF PublishingInit, PublishingInv, PublishingTypeOK, RemovalInv, Removing, EditIdle, Rows
<1>2. Cardinality(seasons) = 0 /\ series.seasons = 0 /\ series.status = "draft"
  BY FS_EmptySet DEF PublishingInit
<1>3. ApartInv
  BY <1>2 DEF PublishingInit, ApartInv, Busy, Pending, EditIdle
<1> QED BY <1>1, <1>3

\* Every step keeps the types, and the removals apart.
LEMMA PublishingInvStep == PublishingInv /\ [PublishingNext]_publishingVars => PublishingInv'
<1> SUFFICES ASSUME PublishingInv, [PublishingNext]_publishingVars
             PROVE  PublishingInv'
  OBVIOUS
<1> USE DEF PublishingInv, PublishingTypeOK, RemovalInv, Removing, treeVars
<1>1. ASSUME NEW e \in Episodes, CreateEpisode(e)
      PROVE  PublishingInv'
  BY <1>1 DEF CreateEpisode
<1>2. ASSUME NEW e \in Episodes, SetVideo(e)
      PROVE  PublishingInv'
  BY <1>2 DEF SetVideo
<1>3. ASSUME NEW c \in Edits, NEW change \in Changes, BeginSave(c, change)
      PROVE  PublishingInv'
  BY <1>3 DEF BeginSave, Open, EditIdle
<1>4. ASSUME NEW c \in Edits, MergeSeries(c)
      PROVE  PublishingInv'
  <2>1. [series EXCEPT ![edit[c].change.column] = edit[c].change.value] \in Rows
    BY <1>4, ChangedRowIsRow DEF MergeSeries
  <2> QED BY <1>4, <2>1 DEF MergeSeries, Go
<1>5. ASSUME NEW c \in Edits, SaveSeries(c)
      PROVE  PublishingInv'
  BY <1>5 DEF SaveSeries, SeriesLocked, Go, EditIdle
<1>6. ASSUME NEW c \in Edits, CountSeasons(c)
      PROVE  PublishingInv'
  BY <1>6, SeasonsAreFinite DEF CountSeasons, Go
<1>7. CASE DeleteSeries
  BY <1>7 DEF DeleteSeries, SeriesLocked, NoSeries
<1>8. ASSUME NEW c \in Edits, NEW s \in Seasons, CreateSeason(c, s)
      PROVE  PublishingInv'
  BY <1>8 DEF CreateSeason, Open, EditIdle
<1>9. ASSUME NEW c \in Edits, NEW removal \in Removals, BeginRemove(c, removal)
      PROVE  PublishingInv'
  <2>1. removal.rows \subseteq removal.videos
    BY DEF Removals
  <2> QED BY <1>9, <2>1 DEF BeginRemove, Open, SeriesLocked, EditIdle
<1>10. ASSUME NEW c \in Edits, CommitRemove(c)
       PROVE  PublishingInv'
  BY <1>10 DEF CommitRemove, Go, EditIdle
<1>11. ASSUME NEW c \in Edits, EndEdit(c)
       PROVE  PublishingInv'
  BY <1>11 DEF EndEdit, EditIdle
<1>12. CASE UNCHANGED publishingVars
  BY <1>12 DEF publishingVars
<1> QED BY <1>1, <1>2, <1>3, <1>4, <1>5, <1>6, <1>7, <1>8, <1>9, <1>10, <1>11, <1>12
        DEF PublishingNext

\* While requests come one after the other, each finds what it read unchanged.
LEMMA ApartInvStep ==
  PublishingInv /\ ApartInv /\ [PublishingNext]_publishingVars => ApartInv'
<1> SUFFICES ASSUME PublishingInv, ApartInv, [PublishingNext]_publishingVars, apart'
             PROVE  ApartInv'
  BY DEF ApartInv
<1> USE DEF PublishingInv, PublishingTypeOK, RemovalInv, ApartInv, Busy, Pending, Counting,
            Publishes, EditIdle, treeVars
<1>1. ASSUME NEW e \in Episodes, CreateEpisode(e)
      PROVE  ApartInv'
  BY <1>1 DEF CreateEpisode
<1>2. ASSUME NEW e \in Episodes, SetVideo(e)
      PROVE  ApartInv'
  BY <1>2 DEF SetVideo
<1>a. ASSUME NEW c \in Edits, NEW r, Open(c, r)
      PROVE  edit' = [d \in Edits |-> IF d = c THEN r ELSE EditIdle] /\ \A d \in Edits : edit[d] = EditIdle
  BY <1>a DEF Open
<1>b. ASSUME NEW c \in Edits, NEW r, Go(c, r), edit[c] # EditIdle
      PROVE  edit' = [d \in Edits |-> IF d = c THEN r ELSE EditIdle]
  BY <1>b DEF Go
<1>3. ASSUME NEW c \in Edits, NEW change \in Changes, BeginSave(c, change)
      PROVE  ApartInv'
  <2>1. change.column # "seasons"
    BY DEF Changes
  <2>2. /\ edit' = [d \in Edits |-> IF d = c THEN [op |-> "merge", change |-> change] ELSE EditIdle]
        /\ \A d \in Edits : edit[d] = EditIdle
    BY <1>3, <1>a DEF BeginSave
  <2>3. apart /\ (Publishes(change) => withVideo # {})
    BY <1>3 DEF BeginSave, Open
  <2> QED BY <1>3, <2>1, <2>2, <2>3 DEF BeginSave
<1>4. ASSUME NEW c \in Edits, MergeSeries(c)
      PROVE  ApartInv'
  <2> DEFINE x == edit[c].change
             q == [series EXCEPT ![x.column] = x.value]
  <2>1. edit' = [d \in Edits |-> IF d = c THEN [op |-> "save", change |-> x, row |-> q] ELSE EditIdle]
    BY <1>4, <1>b DEF MergeSeries
  <2>2. /\ q.status = IF x.column = "status" THEN x.value ELSE series.status
        /\ q.seasons = IF x.column = "seasons" THEN x.value ELSE series.seasons
    <3>1. series \in Rows /\ x \in Changes \cup [column : {"seasons"}, value : Nat]
      BY <1>4 DEF MergeSeries
    <3> QED BY <3>1, ChangedColumns
  <2>3. apart /\ \A d \in Edits : d # c => edit[d] = EditIdle
    BY <1>4 DEF MergeSeries, Go
  <2>4. x.column # "seasons" => series.seasons = Cardinality(seasons)
    BY <1>4, <2>3 DEF MergeSeries
  <2> QED BY <1>4, <2>1, <2>2, <2>3, <2>4 DEF MergeSeries
<1>5. ASSUME NEW c \in Edits, SaveSeries(c)
      PROVE  ApartInv'
  BY <1>5 DEF SaveSeries, Go
<1>6. ASSUME NEW c \in Edits, CountSeasons(c)
      PROVE  ApartInv'
  BY <1>6 DEF CountSeasons, Go
<1>7. CASE DeleteSeries
  <2>1. \A d \in Edits : edit'[d] = EditIdle
    BY <1>7 DEF DeleteSeries
  <2> QED BY <1>7, <2>1 DEF DeleteSeries, NoSeries
<1>8. ASSUME NEW c \in Edits, NEW s \in Seasons, CreateSeason(c, s)
      PROVE  ApartInv'
  <2>1. /\ edit' = [d \in Edits |-> IF d = c THEN [op |-> "count"] ELSE EditIdle]
        /\ \A d \in Edits : edit[d] = EditIdle
    BY <1>8, <1>a DEF CreateSeason
  <2>2. apart /\ series' = series /\ withVideo' = withVideo
    BY <1>8 DEF CreateSeason, Open
  <2>3. Counting(c)'
    BY <2>1
  <2>4. series'.status = "published" => withVideo' # {}
    BY <2>2
  <2> HIDE DEF Counting, PublishingInv, PublishingTypeOK, RemovalInv
  <2> QED BY <2>1, <2>2, <2>3, <2>4
<1>9. ASSUME NEW c \in Edits, NEW removal \in Removals, BeginRemove(c, removal)
      PROVE  ApartInv'
  <2>1. /\ edit' = [d \in Edits |-> IF d = c THEN [op |-> "remove", removal |-> removal] ELSE EditIdle]
        /\ \A d \in Edits : edit[d] = EditIdle
    BY <1>9, <1>a DEF BeginRemove
  <2>2. apart /\ UNCHANGED <<series, seasons, withVideo>>
    BY <1>9 DEF BeginRemove, Open
  <2>3. \A d \in Edits : ~Counting(d)
    BY <2>1
  <2> HIDE DEF PublishingInv, PublishingTypeOK, RemovalInv
  <2> QED BY <2>1, <2>2, <2>3
<1>10. ASSUME NEW c \in Edits, CommitRemove(c)
       PROVE  ApartInv'
  <2> DEFINE r == IF edit[c].removal.seasons = {} THEN EditIdle ELSE [op |-> "count"]
  <2>1. edit' = [d \in Edits |-> IF d = c THEN r ELSE EditIdle]
    BY <1>10, <1>b DEF CommitRemove
  <2>2. apart /\ (series.status = "published" => withVideo' # {}) /\ series' = series
    BY <1>10 DEF CommitRemove, Go, Removing
  <2>3. CASE edit[c].removal.seasons = {}
    <3>1. seasons' = seasons /\ \A d \in Edits : edit'[d] = EditIdle
      BY <1>10, <2>1, <2>3 DEF CommitRemove
    <3>2. \A d \in Edits : ~Counting(d)
      BY <1>10, <2>2 DEF CommitRemove
    <3> QED BY <2>2, <3>1, <3>2
  <2>4. CASE edit[c].removal.seasons # {}
    BY <2>1, <2>2, <2>4
  <2> QED BY <2>3, <2>4
<1>11. ASSUME NEW c \in Edits, EndEdit(c)
       PROVE  ApartInv'
  BY <1>11 DEF EndEdit
<1>12. CASE UNCHANGED publishingVars
  BY <1>12 DEF publishingVars
<1> QED BY <1>1, <1>2, <1>3, <1>4, <1>5, <1>6, <1>7, <1>8, <1>9, <1>10, <1>11, <1>12
        DEF PublishingNext

\* In every run of the specification both halves of the invariant hold.
LEMMA PublishingInvariant == PublishingSpec => [](PublishingInv /\ ApartInv)
BY PublishingInvInit, PublishingInvStep, ApartInvStep, PTL DEF PublishingSpec

\* The row, the seasons, the episodes and their videos keep their types.
THEOREM PublishingTypes == PublishingSpec => []PublishingTypeOK
<1>1. PublishingInv => PublishingTypeOK
  BY DEF PublishingInv
<1> QED BY <1>1, PublishingInvariant, PTL

\* Requests that come one after the other leave a series whose season count is
\* the number of its seasons, and which has a video if it is published.
THEOREM SeriesStaysWhole == PublishingSpec => []SeriesIsWhole
<1>1. ApartInv => SeriesIsWhole
  <2> SUFFICES ASSUME ApartInv, apart, Busy = {}, series # NoSeries
               PROVE  /\ series.seasons = Cardinality(seasons)
                      /\ series.status = "published" => withVideo # {}
    BY DEF SeriesIsWhole
  <2>1. \A c \in Edits : ~Counting(c)
    BY DEF Busy, Counting, EditIdle
  <2> QED BY <2>1 DEF ApartInv
<1> QED BY <1>1, PublishingInvariant, PTL

\* Whatever admins do at the same time, a published series that has a video has
\* one after every step that does not delete it.
THEOREM LastVideoAlwaysStays == PublishingSpec => LastVideoStays
<1>1. ASSUME PublishingInv, [PublishingNext]_publishingVars,
             series.status = "published", withVideo # {}
      PROVE  withVideo' # {} \/ series' = NoSeries
  <2>1. ASSUME NEW c \in Edits, CommitRemove(c)
        PROVE  withVideo' # {}
    BY <1>1, <2>1 DEF CommitRemove, PublishingInv, RemovalInv, Removing
  <2>2. ASSUME NEW e \in Episodes, SetVideo(e)
        PROVE  withVideo' # {}
    BY <2>2 DEF SetVideo
  <2>3. \/ \E c \in Edits : CommitRemove(c)
        \/ \E e \in Episodes : SetVideo(e)
        \/ series' = NoSeries
        \/ UNCHANGED withVideo
    BY <1>1 DEF PublishingNext, CreateEpisode, BeginSave, MergeSeries, SaveSeries, CountSeasons,
                DeleteSeries, CreateSeason, BeginRemove, EndEdit, publishingVars, treeVars
  <2> QED BY <1>1, <2>1, <2>2, <2>3
<1>2. PublishingInv /\ [PublishingNext]_publishingVars =>
        [series.status = "published" /\ withVideo # {} =>
           withVideo' # {} \/ series' = NoSeries]_<<series, withVideo>>
  BY <1>1
<1> QED BY <1>2, PublishingInvariant, PTL DEF PublishingSpec, LastVideoStays

-----------------------------------------------------------------------------
(* AdminService and ClassificationService.                                 *)

\* Every top genre is its own parent, and no other slug is a parent.
LEMMA TopsAreTop ==
  ASSUME NEW links, links \subseteq DOMAIN Vocabulary
  PROVE  Tops(links) \subseteq TopGenres
BY TwoLevels, Zenon DEF Tops, TopGenres

\* A legacy save leaves the title with picks under exactly the genres it names.
LEMMA KeptTops ==
  ASSUME NEW links, NEW names
  PROVE  Tops(KeptLinks(links, names)) = names \cap TopGenres
<1> DEFINE kept(top) == {g \in links : Vocabulary[g] = top}
           under(top) == IF kept(top) = {} THEN {top} ELSE kept(top)
<1>1. KeptLinks(links, names) = UNION {under(top) : top \in names \cap TopGenres}
  BY DEF KeptLinks
<1>2. \A top \in TopGenres : \A g \in under(top) : Vocabulary[g] = top
  BY DEF TopGenres
<1>3. \A top \in TopGenres : \E g \in under(top) : TRUE
  OBVIOUS
<1> HIDE DEF kept, under
<1>4. ASSUME NEW x \in Tops(KeptLinks(links, names))
      PROVE  x \in names \cap TopGenres
  <2>1. PICK g \in KeptLinks(links, names) : x = Vocabulary[g]
    BY Zenon DEF Tops
  <2>2. PICK top \in names \cap TopGenres : g \in under(top)
    BY <1>1, <2>1, Zenon
  <2> QED BY <1>2, <2>1, <2>2
<1>5. ASSUME NEW x \in names \cap TopGenres
      PROVE  x \in Tops(KeptLinks(links, names))
  <2>1. PICK g \in under(x) : Vocabulary[g] = x
    BY <1>2, <1>3
  <2>2. g \in KeptLinks(links, names)
    BY <1>1, <2>1, Zenon
  <2> QED BY <2>1, <2>2, Zenon DEF Tops
<1> QED BY <1>4, <1>5

\* What it keeps comes from the vocabulary, and a pick under a genre it names is kept.
LEMMA KeptPicks ==
  ASSUME NEW links, links \subseteq DOMAIN Vocabulary, NEW names
  PROVE  /\ KeptLinks(links, names) \subseteq DOMAIN Vocabulary
         /\ \A g \in links : Vocabulary[g] \in names => g \in KeptLinks(links, names)
<1> DEFINE kept(top) == {g \in links : Vocabulary[g] = top}
           under(top) == IF kept(top) = {} THEN {top} ELSE kept(top)
<1>1. KeptLinks(links, names) = UNION {under(top) : top \in names \cap TopGenres}
  BY DEF KeptLinks
<1>2. \A top \in TopGenres : under(top) \subseteq DOMAIN Vocabulary
  BY DEF TopGenres
<1>3. ASSUME NEW g \in links, Vocabulary[g] \in names
      PROVE  g \in under(Vocabulary[g]) /\ Vocabulary[g] \in names \cap TopGenres
  BY <1>3, TwoLevels DEF TopGenres
<1> HIDE DEF under
<1> QED BY <1>1, <1>2, <1>3, Zenon

-----------------------------------------------------------------------------

ClassFields == {"links", "countries", "languages", "auto", "manual"}

\* Who is at work on a title, and whether it is about to write the joins.
At(c, t) == titleEdit[c] # Resting /\ titleEdit[c].title = t
Syncing(c) == titleEdit[c].step \in {"sync", "link"}

TablesWhole ==
  /\ DOMAIN title = TitleIds /\ DOMAIN class = TitleIds
  /\ DOMAIN titleEdit = Editors /\ alone \in [TitleIds -> BOOLEAN]

\* The rows have the columns that are read, and a title that is not there, no joins.
RowsWhole(t) ==
  /\ Exists(t) => "genres" \in DOMAIN title[t]
  /\ ClassFields \subseteq DOMAIN class[t]
  /\ class[t].links \subseteq DOMAIN Vocabulary
  /\ ~Exists(t) => class[t] = Unclassified

\* What a request in flight carries.
Carries(c) ==
  titleEdit[c] # Resting =>
    /\ titleEdit[c].title \in TitleIds
    /\ titleEdit[c].step \in {"merge", "save", "sync", "link", "classify", "audit", "feature"}
    /\ titleEdit[c].step = "save" => "genres" \in DOMAIN titleEdit[c].row
    /\ titleEdit[c].step = "link" =>
         /\ titleEdit[c].links = KeptLinks(titleEdit[c].seen, titleEdit[c].genres)
         /\ titleEdit[c].links \cup titleEdit[c].seen \subseteq DOMAIN Vocabulary
    /\ titleEdit[c].step = "classify" /\ Given("links", titleEdit[c].input) =>
         titleEdit[c].input.links \subseteq DOMAIN Vocabulary

GenresAgree(t) == title[t].genres \cap TopGenres = Tops(class[t].links)
AutoAgrees(t) ==
  class[t].auto = deriveIndustries(class[t].countries, class[t].languages) \ class[t].manual

\* The copies of a title whose requests never overlapped: the joins follow the genres
\* of the row as soon as the save that changed them has synced.
CopiesAgree(t) ==
  alone[t] =>
    /\ \A c, d \in Editors : At(c, t) /\ At(d, t) => c = d
    /\ Exists(t) => /\ AutoAgrees(t)
                    /\ (\A c \in Editors : At(c, t) => ~Syncing(c)) => GenresAgree(t)

\* What it read is still so, when nobody else was at work on the title meanwhile.
ReadIsSo(c) ==
  titleEdit[c] # Resting =>
    LET t == titleEdit[c].title
        e == titleEdit[c]
    IN  alone[t] =>
          /\ e.step # "feature" => Exists(t)
          /\ e.step = "save" =>
               e.row.genres = IF Given("genres", e.patch) THEN e.patch.genres ELSE title[t].genres
          /\ e.step = "sync" => e.genres = title[t].genres
          /\ e.step = "link" => e.links = KeptLinks(class[t].links, title[t].genres)
          /\ e.step = "classify" =>
               e.auto = deriveIndustries(Merged(class[t], e.input).countries,
                                         Merged(class[t], e.input).languages)

TitlesInv ==
  /\ TablesWhole
  /\ \A t \in TitleIds : RowsWhole(t) /\ CopiesAgree(t)
  /\ \A c \in Editors : Carries(c) /\ ReadIsSo(c)

\* A title nobody wrote is as good as before.
LEMMA OtherTitle ==
  ASSUME TitlesInv, NEW x \in TitleIds, NEW S \in SUBSET Editors, NEW t \in TitleIds, x # t,
         Exists(x)' <=> Exists(x),
         Exists(x) => "genres" \in DOMAIN title'[x] /\ title'[x].genres = title[x].genres,
         class'[x] = class[x], alone'[x] = alone[x],
         \A c \in Editors \ S : titleEdit'[c] = titleEdit[c],
         \A c \in S : /\ titleEdit[c] # Resting => titleEdit[c].title = t
                      /\ titleEdit'[c] # Resting => titleEdit'[c].title = t
  PROVE  RowsWhole(x)' /\ CopiesAgree(x)'
<1>1. RowsWhole(x) /\ CopiesAgree(x)
  BY DEF TitlesInv
<1>2. \A c \in Editors : At(c, x)' <=> At(c, x)
  BY DEF At
<1>3. \A c \in Editors : At(c, x) => titleEdit'[c] = titleEdit[c]
  BY DEF At
<1>4. RowsWhole(x)'
  BY <1>1 DEF RowsWhole
<1>5. Exists(x) => (GenresAgree(x)' <=> GenresAgree(x))
  BY DEF GenresAgree
<1>6. AutoAgrees(x)' <=> AutoAgrees(x)
  BY DEF AutoAgrees, deriveIndustries, Fits
<1>7. \A c \in Editors : At(c, x) => (Syncing(c)' <=> Syncing(c))
  BY <1>3 DEF Syncing
<1>8. CopiesAgree(x)'
  BY <1>1, <1>2, <1>5, <1>6, <1>7 DEF CopiesAgree
<1> QED BY <1>4, <1>8

\* A request that was not served knows what it knew: nobody wrote its title, or its
\* title was not its own any more.
LEMMA OtherRequest ==
  ASSUME TitlesInv, NEW c \in Editors, titleEdit'[c] = titleEdit[c],
         titleEdit[c] # Resting =>
           LET x == titleEdit[c].title
           IN  alone'[x] =>
                 /\ alone[x]
                 /\ Exists(x)' <=> Exists(x)
                 /\ Exists(x) => title'[x].genres = title[x].genres
                 /\ class'[x] = class[x]
  PROVE  Carries(c)' /\ ReadIsSo(c)'
<1>1. Carries(c) /\ ReadIsSo(c)
  BY DEF TitlesInv
<1>2. Carries(c)'
  BY <1>1 DEF Carries
<1>3. ReadIsSo(c)'
  <2>1. SUFFICES ASSUME titleEdit[c] # Resting, alone'[titleEdit[c].title]
                 PROVE  ReadIsSo(c)'
    BY DEF ReadIsSo
  <2> DEFINE x == titleEdit[c].title
             e == titleEdit[c]
  <2>2. /\ Exists(x)' <=> Exists(x)
        /\ Exists(x) => title'[x].genres = title[x].genres
        /\ class'[x] = class[x]
        /\ alone[x]
    BY <2>1
  <2>3. /\ e.step # "feature" => Exists(x)
        /\ e.step = "save" =>
             e.row.genres = IF Given("genres", e.patch) THEN e.patch.genres ELSE title[x].genres
        /\ e.step = "sync" => e.genres = title[x].genres
        /\ e.step = "link" => e.links = KeptLinks(class[x].links, title[x].genres)
        /\ e.step = "classify" =>
             e.auto = deriveIndustries(Merged(class[x], e.input).countries,
                                       Merged(class[x], e.input).languages)
    BY <1>1, <2>1, <2>2, Zenon DEF ReadIsSo
  <2>4. e.step = "save" =>
             e.row.genres = IF Given("genres", e.patch) THEN e.patch.genres ELSE title'[x].genres
    BY <2>2, <2>3
  <2>5. e.step = "sync" => e.genres = title'[x].genres
    BY <2>2, <2>3
  <2>6. e.step = "link" => e.links = KeptLinks(class'[x].links, title'[x].genres)
    <3>1. SUFFICES ASSUME e.step = "link" PROVE e.links = KeptLinks(class'[x].links, title'[x].genres)
      OBVIOUS
    <3>2. Exists(x)
      BY <2>3, <3>1
    <3> QED BY <2>2, <2>3, <3>1, <3>2, Zenon
  <2>7. e.step = "classify" =>
             e.auto = deriveIndustries(Merged(class'[x], e.input).countries,
                                       Merged(class'[x], e.input).languages)
    BY <2>2, <2>3, Zenon
  <2>8. e.step # "feature" => Exists(x)'
    BY <2>2, <2>3
  <2>9. titleEdit'[c].title = x /\ titleEdit'[c] = e
    OBVIOUS
  <2> QED BY <2>4, <2>5, <2>6, <2>7, <2>8, <2>9 DEF ReadIsSo
<1> QED BY <1>2, <1>3

\* A step of one request on one title: what is left to show is about the two of them.
LEMMA OneServed ==
  ASSUME TitlesInv, TablesWhole', NEW c \in Editors, NEW t \in TitleIds,
         \A x \in TitleIds \ {t} :
           /\ Exists(x)' <=> Exists(x)
           /\ Exists(x) => "genres" \in DOMAIN title'[x] /\ title'[x].genres = title[x].genres
           /\ class'[x] = class[x] /\ alone'[x] = alone[x],
         \A d \in Editors \ {c} : titleEdit'[d] = titleEdit[d],
         titleEdit[c] # Resting => titleEdit[c].title = t,
         titleEdit'[c] # Resting => titleEdit'[c].title = t,
         alone'[t] => \A d \in Editors \ {c} : ~At(d, t),
         RowsWhole(t)',
         alone'[t] /\ Exists(t)' =>
           AutoAgrees(t)' /\ (~At(c, t)' \/ ~Syncing(c)' => GenresAgree(t)'),
         Carries(c)', ReadIsSo(c)'
  PROVE  TitlesInv'
<1>1. \A x \in TitleIds : x # t => RowsWhole(x)' /\ CopiesAgree(x)'
  <2> SUFFICES ASSUME NEW x \in TitleIds, x # t PROVE RowsWhole(x)' /\ CopiesAgree(x)'
    OBVIOUS
  <2>1. /\ Exists(x)' <=> Exists(x)
        /\ Exists(x) => "genres" \in DOMAIN title'[x] /\ title'[x].genres = title[x].genres
        /\ class'[x] = class[x] /\ alone'[x] = alone[x]
    OBVIOUS
  <2>2. {c} \in SUBSET Editors
    OBVIOUS
  <2>3. /\ \A d \in Editors \ {c} : titleEdit'[d] = titleEdit[d]
        /\ \A d \in {c} : /\ titleEdit[d] # Resting => titleEdit[d].title = t
                          /\ titleEdit'[d] # Resting => titleEdit'[d].title = t
    OBVIOUS
  <2> QED BY <2>1, <2>2, <2>3, OtherTitle
<1>2. \A d \in Editors : At(d, t)' => d = c \/ ~alone'[t]
  BY DEF At
<1>3. CopiesAgree(t)'
  BY <1>2 DEF CopiesAgree
<1>4. \A d \in Editors : d # c => Carries(d)' /\ ReadIsSo(d)'
  <2> SUFFICES ASSUME NEW d \in Editors, d # c PROVE Carries(d)' /\ ReadIsSo(d)'
    OBVIOUS
  <2>1. titleEdit'[d] = titleEdit[d]
    OBVIOUS
  <2>2. Carries(d)
    BY DEF TitlesInv
  <2>3. ASSUME titleEdit[d] # Resting, alone'[titleEdit[d].title]
        PROVE  LET x == titleEdit[d].title
               IN  /\ alone[x]
                   /\ Exists(x)' <=> Exists(x)
                   /\ Exists(x) => title'[x].genres = title[x].genres
                   /\ class'[x] = class[x]
    <3>1. PICK x \in TitleIds : x = titleEdit[d].title
      BY <2>2, <2>3 DEF Carries
    <3>2. x # t
      BY <2>3, <3>1 DEF At
    <3>3. /\ Exists(x)' <=> Exists(x)
          /\ Exists(x) => title'[x].genres = title[x].genres
          /\ class'[x] = class[x] /\ alone'[x] = alone[x]
      BY <3>2
    <3>4. alone'[x]
      BY <2>3, <3>1
    <3> QED BY <2>1, <3>1, <3>3, <3>4 DEF Exists
  <2> QED BY <2>1, <2>3, OtherRequest
<1> QED BY <1>1, <1>3, <1>4 DEF TitlesInv

\* Nothing is in the catalogue at first.
LEMMA TitlesInvInit == TitlesInit => TitlesInv
<1> SUFFICES ASSUME TitlesInit PROVE TitlesInv
  OBVIOUS
<1>1. TablesWhole
  BY DEF TitlesInit, TablesWhole
<1>2. ASSUME NEW t \in TitleIds PROVE RowsWhole(t) /\ CopiesAgree(t)
  <2>1. ~Exists(t) /\ class[t] = Unclassified
    BY <1>2 DEF TitlesInit, Exists
  <2>2. RowsWhole(t)
    BY <2>1 DEF RowsWhole, Unclassified, ClassFields
  <2>3. \A c \in Editors : ~At(c, t)
    BY DEF TitlesInit, At
  <2> QED BY <2>1, <2>2, <2>3 DEF CopiesAgree
<1>3. \A c \in Editors : Carries(c) /\ ReadIsSo(c)
  BY DEF TitlesInit, Carries, ReadIsSo
<1> QED BY <1>1, <1>2, <1>3 DEF TitlesInv

\* A request begins on a title that nobody else is at work on, or the title is not its
\* own any more.
LEMMA Begun ==
  ASSUME TitlesInv, NEW c \in Editors, NEW t \in TitleIds, NEW r, r.title = t, Begin(c, r)
  PROVE  /\ DOMAIN titleEdit' = Editors /\ alone' \in [TitleIds -> BOOLEAN]
         /\ titleEdit[c] = Resting /\ titleEdit'[c] = r
         /\ \A d \in Editors \ {c} : titleEdit'[d] = titleEdit[d]
         /\ \A x \in TitleIds \ {t} : alone'[x] = alone[x]
         /\ alone'[t] => alone[t] /\ \A d \in Editors : ~At(d, t)
<1>1. TablesWhole
  BY DEF TitlesInv
<1>2. /\ titleEdit[c] = Resting
      /\ titleEdit' = [titleEdit EXCEPT ![c] = r]
      /\ alone' = [alone EXCEPT ![t] = @ /\ InFlight(t) = {}]
  BY Zenon DEF Begin
<1>3. (alone[t] /\ InFlight(t) = {}) \in BOOLEAN
  OBVIOUS
<1>4. /\ alone' \in [TitleIds -> BOOLEAN]
      /\ alone'[t] = (alone[t] /\ InFlight(t) = {})
      /\ \A x \in TitleIds \ {t} : alone'[x] = alone[x]
  BY <1>1, <1>2, <1>3, Zenon DEF TablesWhole
<1>5. alone'[t] => alone[t] /\ InFlight(t) = {}
  BY <1>4, Zenon
<1>6. InFlight(t) = {} => \A d \in Editors : ~At(d, t)
  BY Zenon DEF InFlight, At
<1>7. /\ DOMAIN titleEdit' = Editors /\ titleEdit'[c] = r
      /\ \A d \in Editors \ {c} : titleEdit'[d] = titleEdit[d]
  BY <1>1, <1>2 DEF TablesWhole
<1> QED BY <1>2, <1>4, <1>5, <1>6, <1>7

\* The next step of a request that was alone on its title still is.
LEMMA Continued ==
  ASSUME TitlesInv, NEW c \in Editors, NEW r, titleEdit[c] # Resting, Continue(c, r)
  PROVE  /\ DOMAIN titleEdit' = Editors /\ alone' \in [TitleIds -> BOOLEAN] /\ alone' = alone
         /\ titleEdit'[c] = r
         /\ \A d \in Editors \ {c} : titleEdit'[d] = titleEdit[d]
         /\ titleEdit[c].title \in TitleIds
         /\ alone[titleEdit[c].title] => \A d \in Editors \ {c} : ~At(d, titleEdit[c].title)
<1>1. TablesWhole /\ Carries(c)
  BY DEF TitlesInv
<1>2. titleEdit' = [titleEdit EXCEPT ![c] = r] /\ alone' = alone
  BY Zenon DEF Continue
<1>3. PICK t \in TitleIds : t = titleEdit[c].title
  BY <1>1 DEF Carries
<1>4. alone[t] => \A d \in Editors \ {c} : ~At(d, t)
  BY <1>3 DEF TitlesInv, CopiesAgree, At
<1>5. DOMAIN titleEdit' = Editors /\ titleEdit'[c] = r
      /\ \A d \in Editors \ {c} : titleEdit'[d] = titleEdit[d]
  BY <1>1, <1>2 DEF TablesWhole
<1>6. alone' \in [TitleIds -> BOOLEAN]
  BY <1>1, <1>2 DEF TablesWhole
<1> QED BY <1>2, <1>3, <1>4, <1>5, <1>6

\* The first step of an edit reads and writes nothing.
LEMMA BeginKeeps ==
  ASSUME TitlesInv, NEW c \in Editors, NEW t \in TitleIds, NEW r, r.title = t, r # Resting,
         Begin(c, r), title' = title, class' = class,
         r.step \in {"merge", "feature", "classify"},
         r.step # "feature" => Exists(t),
         r.step = "classify" =>
           /\ Given("links", r.input) => r.input.links \subseteq DOMAIN Vocabulary
           /\ r.auto = deriveIndustries(Merged(class[t], r.input).countries,
                                        Merged(class[t], r.input).languages)
  PROVE  TitlesInv'
<1>1. /\ DOMAIN titleEdit' = Editors /\ alone' \in [TitleIds -> BOOLEAN]
      /\ titleEdit[c] = Resting /\ titleEdit'[c] = r
      /\ \A d \in Editors \ {c} : titleEdit'[d] = titleEdit[d]
      /\ \A x \in TitleIds \ {t} : alone'[x] = alone[x]
      /\ alone'[t] => alone[t] /\ \A d \in Editors : ~At(d, t)
  BY Begun
<1>2. /\ TablesWhole /\ RowsWhole(t) /\ CopiesAgree(t)
      /\ \A x \in TitleIds : RowsWhole(x)
  BY DEF TitlesInv
<1>3. TablesWhole'
  BY <1>1, <1>2 DEF TablesWhole
<1>4. RowsWhole(t)'
  BY <1>2 DEF RowsWhole, Exists
<1>5. alone'[t] /\ Exists(t)' => AutoAgrees(t)' /\ GenresAgree(t)'
  <2>1. alone'[t] /\ Exists(t) => AutoAgrees(t) /\ GenresAgree(t)
    BY <1>1, <1>2 DEF CopiesAgree
  <2>2. (Exists(t)' <=> Exists(t)) /\ (GenresAgree(t)' <=> GenresAgree(t))
    BY DEF Exists, GenresAgree
  <2>3. AutoAgrees(t)' <=> AutoAgrees(t)
    BY DEF AutoAgrees
  <2> QED BY <2>1, <2>2, <2>3
<1>6. Carries(c)'
  BY <1>1 DEF Carries
<1>7. ReadIsSo(c)'
  BY <1>1 DEF ReadIsSo, Exists
<1>8. \A x \in TitleIds \ {t} :
        /\ Exists(x)' <=> Exists(x)
        /\ Exists(x) => "genres" \in DOMAIN title'[x] /\ title'[x].genres = title[x].genres
        /\ class'[x] = class[x] /\ alone'[x] = alone[x]
  BY <1>1, <1>2 DEF RowsWhole, Exists
<1>9. /\ titleEdit[c] # Resting => titleEdit[c].title = t
      /\ titleEdit'[c] # Resting => titleEdit'[c].title = t
      /\ alone'[t] => \A d \in Editors \ {c} : ~At(d, t)
      /\ alone'[t] /\ Exists(t)' =>
           AutoAgrees(t)' /\ (~At(c, t)' \/ ~Syncing(c)' => GenresAgree(t)')
  BY <1>1, <1>5
<1> QED BY <1>1, <1>3, <1>4, <1>6, <1>7, <1>8, <1>9, OneServed

\* What a merged row holds.
LEMMA MergedFields ==
  ASSUME NEW row, NEW patch
  PROVE  /\ DOMAIN Merged(row, patch) = DOMAIN row
         /\ \A k \in DOMAIN row :
              Merged(row, patch)[k] = IF Given(k, patch) THEN patch[k] ELSE row[k]
BY Zenon DEF Merged

\* A row with genres is a row that is there.
LEMMA RowsExist == \A row : "genres" \in DOMAIN row => row # Missing
BY DEF Missing

\* A new movie has no picks, and its mirroring onto the joins carries its genres.
LEMMA CreateKeeps ==
  ASSUME TitlesInv, NEW c \in Editors, NEW t \in TitleIds, NEW body, CreateMovie(c, t, body)
  PROVE  TitlesInv'
<1> DEFINE row == NewRow(body)
           r == [step |-> "sync", title |-> t, genres |-> row.genres]
<1>1. /\ ~Exists(t) /\ title' = [title EXCEPT ![t] = row]
      /\ Begin(c, r) /\ class' = class
  BY Zenon DEF CreateMovie
<1>2. /\ DOMAIN titleEdit' = Editors /\ alone' \in [TitleIds -> BOOLEAN]
      /\ titleEdit[c] = Resting /\ titleEdit'[c] = r
      /\ \A d \in Editors \ {c} : titleEdit'[d] = titleEdit[d]
      /\ \A x \in TitleIds \ {t} : alone'[x] = alone[x]
      /\ alone'[t] => alone[t] /\ \A d \in Editors : ~At(d, t)
  <2>1. r.title = t
    OBVIOUS
  <2> HIDE DEF r
  <2> QED BY <1>1, <2>1, Begun
<1>3. "genres" \in DOMAIN row
  BY MergedFields DEF NewRow
<1>4. /\ TablesWhole /\ RowsWhole(t) /\ CopiesAgree(t)
      /\ \A x \in TitleIds : RowsWhole(x)
  BY DEF TitlesInv
<1> HIDE DEF row
<1>5. /\ title'[t] = row /\ DOMAIN title' = TitleIds
      /\ \A x \in TitleIds \ {t} : title'[x] = title[x]
  BY <1>1, <1>4 DEF TablesWhole
<1>6. TablesWhole'
  BY <1>1, <1>2, <1>4, <1>5 DEF TablesWhole
<1>7. Exists(t)' /\ class'[t] = Unclassified
  BY <1>1, <1>3, <1>4, <1>5, RowsExist DEF RowsWhole, Exists
<1>8. RowsWhole(t)'
  BY <1>1, <1>3, <1>4, <1>5, <1>7 DEF RowsWhole
<1>9. AutoAgrees(t)'
  <2>1. deriveIndustries({}, {}) = {}
    BY DEF deriveIndustries
  <2>2. Unclassified.countries = {} /\ Unclassified.languages = {} /\ Unclassified.auto = {}
    BY DEF Unclassified
  <2>3. class'[t].auto = deriveIndustries(class'[t].countries, class'[t].languages) \ class'[t].manual
    BY <1>7, <2>1, <2>2
  <2> QED BY <2>3 DEF AutoAgrees
<1>10. Syncing(c)' /\ At(c, t)' /\ Carries(c)'
  BY <1>2 DEF Syncing, At, Carries, Resting
<1>11. ReadIsSo(c)'
  BY <1>2, <1>5, <1>7 DEF ReadIsSo
<1>12. \A x \in TitleIds \ {t} :
        /\ Exists(x)' <=> Exists(x)
        /\ Exists(x) => "genres" \in DOMAIN title'[x] /\ title'[x].genres = title[x].genres
        /\ class'[x] = class[x] /\ alone'[x] = alone[x]
  BY <1>1, <1>2, <1>4, <1>5 DEF RowsWhole, Exists
<1>13. /\ titleEdit[c] # Resting => titleEdit[c].title = t
       /\ titleEdit'[c] # Resting => titleEdit'[c].title = t
       /\ alone'[t] => \A d \in Editors \ {c} : ~At(d, t)
       /\ alone'[t] /\ Exists(t)' =>
            AutoAgrees(t)' /\ (~At(c, t)' \/ ~Syncing(c)' => GenresAgree(t)')
  BY <1>2, <1>9, <1>10
<1> HIDE DEF r
<1> QED BY <1>2, <1>6, <1>8, <1>10, <1>11, <1>12, <1>13, OneServed

\* PATCH of a movie, a premiere, the hero flag and the classification begin.
LEMMA BeginsKeep ==
  ASSUME TitlesInv, NEW c \in Editors, NEW t \in TitleIds,
         \/ \E body : BeginUpdate(c, t, body)
         \/ \E start : BeginSetPremiere(c, t, start)
         \/ \E on : BeginFeature(c, t, on)
         \/ \E input : BeginClassify(c, t, input)
  PROVE  TitlesInv'
<1>1. ASSUME NEW r, r.title = t, r.step \in {"merge", "feature"}, Begin(c, r),
             title' = title, class' = class, r.step # "feature" => Exists(t)
      PROVE  TitlesInv'
  <2>1. r # Resting /\ r.step \in {"merge", "feature", "classify"} /\ r.step # "classify"
    BY <1>1 DEF Resting
  <2> QED BY <1>1, <2>1, BeginKeeps
<1>2. ASSUME NEW body, BeginUpdate(c, t, body) PROVE TitlesInv'
  <2>1. \E patch : Begin(c, [step |-> "merge", title |-> t, patch |-> patch])
    BY <1>2, Zenon DEF BeginUpdate
  <2>2. title' = title /\ class' = class /\ Exists(t)
    BY <1>2, Zenon DEF BeginUpdate
  <2>3. PICK patch : Begin(c, [step |-> "merge", title |-> t, patch |-> patch])
    BY <2>1
  <2>4. PICK r : r = [step |-> "merge", title |-> t, patch |-> patch]
    OBVIOUS
  <2>5. r.title = t /\ r.step = "merge" /\ Begin(c, r)
    BY <2>3, <2>4
  <2> QED BY <1>1, <2>2, <2>5
<1>3. ASSUME NEW start, BeginSetPremiere(c, t, start) PROVE TitlesInv'
  <2>1. PICK r : r = [step |-> "merge", title |-> t,
                      patch |-> [isPremiere |-> start # 0, premiereStartAt |-> start]]
    OBVIOUS
  <2>2. Begin(c, r) /\ title' = title /\ class' = class /\ Exists(t)
    BY <1>3, <2>1, Zenon DEF BeginSetPremiere
  <2>3. r.title = t /\ r.step = "merge"
    BY <2>1
  <2> QED BY <1>1, <2>2, <2>3
<1>4. ASSUME NEW on, BeginFeature(c, t, on) PROVE TitlesInv'
  <2>1. PICK heroes : Begin(c, [step |-> "feature", title |-> t, on |-> on, heroes |-> heroes])
    BY <1>4, Zenon DEF BeginFeature
  <2>2. title' = title /\ class' = class
    BY <1>4, Zenon DEF BeginFeature
  <2>3. PICK r : r = [step |-> "feature", title |-> t, on |-> on, heroes |-> heroes]
    OBVIOUS
  <2>4. r.title = t /\ r.step = "feature" /\ Begin(c, r)
    BY <2>1, <2>3
  <2> QED BY <1>1, <2>2, <2>4
<1>5. ASSUME NEW input, BeginClassify(c, t, input) PROVE TitlesInv'
  <2>1. PICK r : r = [step |-> "classify", title |-> t, input |-> input,
                      auto |-> deriveIndustries(Merged(class[t], input).countries,
                                                Merged(class[t], input).languages)]
    OBVIOUS
  <2>2. /\ Begin(c, r) /\ title' = title /\ class' = class /\ Exists(t)
        /\ Given("links", input) => input.links \subseteq DOMAIN Vocabulary
    BY <1>5, <2>1, Zenon DEF BeginClassify
  <2>3. /\ r.title = t /\ r.step = "classify" /\ r.input = input
        /\ r.auto = deriveIndustries(Merged(class[t], input).countries,
                                     Merged(class[t], input).languages)
    BY <2>1
  <2>4. r # Resting
    BY <2>3 DEF Resting
  <2>5. /\ Given("links", r.input) => r.input.links \subseteq DOMAIN Vocabulary
        /\ r.auto = deriveIndustries(Merged(class[t], r.input).countries,
                                     Merged(class[t], r.input).languages)
    BY <2>2, <2>3
  <2> QED BY <2>2, <2>3, <2>4, <2>5, BeginKeeps
<1> QED BY <1>2, <1>3, <1>4, <1>5

\* The next step of an edit that leaves the title and its joins as they are.
LEMMA StepKeeps ==
  ASSUME TitlesInv, NEW c \in Editors, titleEdit[c] # Resting, NEW r, Continue(c, r),
         title' = title, class' = class, NEW t, t = titleEdit[c].title,
         r # Resting => r.title = t,
         Syncing(c) => ~Exists(t) \/ (r # Resting /\ r.step \in {"sync", "link"}),
         Carries(c)', ReadIsSo(c)'
  PROVE  TitlesInv'
<1>1. /\ DOMAIN titleEdit' = Editors /\ alone' \in [TitleIds -> BOOLEAN] /\ alone' = alone
      /\ titleEdit'[c] = r
      /\ \A d \in Editors \ {c} : titleEdit'[d] = titleEdit[d]
      /\ t \in TitleIds
      /\ alone[t] => \A d \in Editors \ {c} : ~At(d, t)
  BY Continued
<1>2. /\ TablesWhole /\ RowsWhole(t) /\ CopiesAgree(t)
      /\ \A x \in TitleIds : RowsWhole(x)
  BY <1>1 DEF TitlesInv
<1>3. TablesWhole'
  BY <1>1, <1>2 DEF TablesWhole
<1>4. RowsWhole(t)'
  BY <1>2 DEF RowsWhole, Exists
<1>5. ASSUME alone'[t], Exists(t)'
      PROVE  AutoAgrees(t)' /\ (~At(c, t)' \/ ~Syncing(c)' => GenresAgree(t)')
  <2>1. alone[t] /\ Exists(t)
    BY <1>1, <1>5 DEF Exists
  <2>2. AutoAgrees(t) /\ ((\A d \in Editors : At(d, t) => ~Syncing(d)) => GenresAgree(t))
    BY <1>2, <2>1 DEF CopiesAgree
  <2>3. ~At(c, t)' \/ ~Syncing(c)' => ~Syncing(c)
    BY <1>1, <2>1 DEF Syncing, At
  <2>4. ~Syncing(c) => GenresAgree(t)
    BY <1>1, <2>1, <2>2
  <2>5. AutoAgrees(t)' /\ (GenresAgree(t)' <=> GenresAgree(t))
    BY <2>2 DEF AutoAgrees, GenresAgree
  <2> QED BY <2>3, <2>4, <2>5
<1>6. \A x \in TitleIds \ {t} :
        /\ Exists(x)' <=> Exists(x)
        /\ Exists(x) => "genres" \in DOMAIN title'[x] /\ title'[x].genres = title[x].genres
        /\ class'[x] = class[x] /\ alone'[x] = alone[x]
  BY <1>1, <1>2 DEF RowsWhole, Exists
<1>7. /\ titleEdit'[c] # Resting => titleEdit'[c].title = t
      /\ alone'[t] => \A d \in Editors \ {c} : ~At(d, t)
  BY <1>1
<1> QED BY <1>1, <1>3, <1>4, <1>5, <1>6, <1>7, OneServed

\* A patch merged into the row that was read is about a whole row.
LEMMA MergeKeeps ==
  ASSUME TitlesInv, NEW c \in Editors, MergePatch(c)
  PROVE  TitlesInv'
<1> DEFINE t == titleEdit[c].title
           row == Merged(title[t], titleEdit[c].patch)
<1>1. PICK r : r = [step |-> "save", title |-> t, patch |-> titleEdit[c].patch, row |-> row]
  OBVIOUS
<1>2. /\ titleEdit[c].step = "merge" /\ Exists(t) /\ Continue(c, r)
      /\ title' = title /\ class' = class
  BY <1>1, Zenon DEF MergePatch
<1>3. titleEdit[c] # Resting /\ ~Syncing(c)
  BY <1>2 DEF Resting, Syncing
<1>4. /\ t \in TitleIds /\ titleEdit'[c] = r
  BY <1>2, <1>3, Continued
<1>5. "genres" \in DOMAIN title[t]
  BY <1>2, <1>4 DEF TitlesInv, RowsWhole
<1>6. /\ "genres" \in DOMAIN row
      /\ row.genres = IF Given("genres", titleEdit[c].patch) THEN titleEdit[c].patch.genres
                      ELSE title[t].genres
  BY <1>5, MergedFields
<1> HIDE DEF row
<1>7. PICK x \in TitleIds : x = t
  BY <1>4
<1>8. Carries(c)'
  BY <1>1, <1>4, <1>6 DEF Carries
<1>9. ReadIsSo(c)'
  BY <1>1, <1>2, <1>4, <1>6 DEF ReadIsSo, Exists
<1>10. r # Resting => r.title = t
  BY <1>1
<1> QED BY <1>2, <1>3, <1>8, <1>9, <1>10, StepKeeps

\* A row saved with genres is followed by its mirroring; without genres the column is as it was.
LEMMA SaveKeeps ==
  ASSUME TitlesInv, NEW c \in Editors, SaveRow(c)
  PROVE  TitlesInv'
<1>1. PICK t : t = titleEdit[c].title
  OBVIOUS
<1>2. PICK row : row = titleEdit[c].row
  OBVIOUS
<1>3. PICK patch : patch = titleEdit[c].patch
  OBVIOUS
<1>4. PICK r : r = IF Given("genres", patch)
                   THEN [step |-> "sync", title |-> t, genres |-> patch.genres] ELSE Resting
  OBVIOUS
<1>5. /\ titleEdit[c].step = "save" /\ Continue(c, r)
      /\ title' = [title EXCEPT ![t] = row] /\ class' = class
  BY <1>1, <1>2, <1>3, <1>4, Zenon DEF SaveRow
<1>6. titleEdit[c] # Resting
  BY <1>5 DEF Resting
<1>7. /\ DOMAIN titleEdit' = Editors /\ alone' \in [TitleIds -> BOOLEAN] /\ alone' = alone
      /\ titleEdit'[c] = r
      /\ \A d \in Editors \ {c} : titleEdit'[d] = titleEdit[d]
      /\ t \in TitleIds
      /\ alone[t] => \A d \in Editors \ {c} : ~At(d, t)
  BY <1>1, <1>5, <1>6, Continued
<1>8. /\ TablesWhole /\ RowsWhole(t) /\ CopiesAgree(t) /\ Carries(c) /\ ReadIsSo(c)
      /\ \A x \in TitleIds : RowsWhole(x)
  BY <1>7 DEF TitlesInv
<1>9. /\ title'[t] = row /\ DOMAIN title' = TitleIds
      /\ \A x \in TitleIds \ {t} : title'[x] = title[x]
  BY <1>5, <1>7, <1>8 DEF TablesWhole
<1>10. "genres" \in DOMAIN row
  BY <1>2, <1>5, <1>6, <1>8 DEF Carries
<1>11. alone[t] =>
         Exists(t) /\ row.genres = IF Given("genres", patch) THEN patch.genres ELSE title[t].genres
  <2>1. SUFFICES ASSUME alone[t]
                 PROVE  /\ Exists(t)
                        /\ row.genres = IF Given("genres", patch) THEN patch.genres
                                        ELSE title[t].genres
    OBVIOUS
  <2>2. alone[titleEdit[c].title]
    BY <1>1, <2>1
  <2>3. /\ titleEdit[c].step # "feature" => Exists(titleEdit[c].title)
        /\ titleEdit[c].step = "save" =>
             titleEdit[c].row.genres = IF Given("genres", titleEdit[c].patch)
                                       THEN titleEdit[c].patch.genres
                                       ELSE title[titleEdit[c].title].genres
    BY <1>6, <1>8, <2>2, Zenon DEF ReadIsSo
  <2>4. titleEdit[c].step # "feature"
    BY <1>5
  <2> QED BY <1>1, <1>2, <1>3, <1>5, <2>3, <2>4
<1>12. TablesWhole'
  BY <1>5, <1>7, <1>8, <1>9 DEF TablesWhole
<1>13. Exists(t)'
  BY <1>9, <1>10, RowsExist DEF Exists
<1>14. RowsWhole(t)'
  BY <1>5, <1>8, <1>9, <1>10, <1>13 DEF RowsWhole
<1>15. At(c, t)' /\ Syncing(c)' <=> Given("genres", patch)
  BY <1>4, <1>7 DEF At, Syncing, Resting
<1>16. ASSUME alone'[t], Exists(t)'
       PROVE  AutoAgrees(t)' /\ (~At(c, t)' \/ ~Syncing(c)' => GenresAgree(t)')
  <2>1. alone[t] /\ Exists(t)
    BY <1>7, <1>11, <1>16
  <2>2. ~Syncing(c)
    BY <1>5 DEF Syncing
  <2>3. AutoAgrees(t) /\ GenresAgree(t)
    BY <1>7, <1>8, <2>1, <2>2 DEF CopiesAgree
  <2>4. AutoAgrees(t)'
    BY <1>5, <2>3 DEF AutoAgrees
  <2>5. ~Given("genres", patch) => title'[t].genres = title[t].genres
    BY <1>9, <1>11, <2>1
  <2>6. ~Given("genres", patch) => GenresAgree(t)'
    BY <1>5, <2>3, <2>5 DEF GenresAgree
  <2> QED BY <1>15, <2>4, <2>6
<1>17. Carries(c)'
  BY <1>4, <1>7 DEF Carries
<1>18. ReadIsSo(c)'
  <2>1. titleEdit'[c] # Resting => Given("genres", patch)
    BY <1>4, <1>7
  <2>2. alone'[t] /\ Given("genres", patch) => patch.genres = title'[t].genres
    BY <1>7, <1>9, <1>11
  <2> QED BY <1>4, <1>7, <1>13, <2>1, <2>2 DEF ReadIsSo
<1>19. \A x \in TitleIds \ {t} :
        /\ Exists(x)' <=> Exists(x)
        /\ Exists(x) => "genres" \in DOMAIN title'[x] /\ title'[x].genres = title[x].genres
        /\ class'[x] = class[x] /\ alone'[x] = alone[x]
  BY <1>5, <1>7, <1>8, <1>9 DEF RowsWhole, Exists
<1>20. /\ titleEdit[c] # Resting => titleEdit[c].title = t
       /\ titleEdit'[c] # Resting => titleEdit'[c].title = t
       /\ alone'[t] => \A d \in Editors \ {c} : ~At(d, t)
  BY <1>1, <1>4, <1>7
<1> QED BY <1>7, <1>12, <1>14, <1>16, <1>17, <1>18, <1>19, <1>20, OneServed

\* The hero flag leaves the genres of every row alone.
LEMMA FeatureKeeps ==
  ASSUME TitlesInv, NEW c \in Editors, CommitFeature(c)
  PROVE  TitlesInv'
<1>1. PICK t : t = titleEdit[c].title
  OBVIOUS
<1> DEFINE wrote(x) ==
  IF ~Exists(x) THEN title[x]
  ELSE IF x = titleEdit[c].title THEN [title[x] EXCEPT !.featured = titleEdit[c].on]
  ELSE IF x \in titleEdit[c].heroes THEN [title[x] EXCEPT !.featured = FALSE]
  ELSE title[x]
<1>2. /\ titleEdit[c].step = "feature" /\ Continue(c, Resting)
      /\ title' = [x \in TitleIds |-> wrote(x)] /\ class' = class
  BY Zenon DEF CommitFeature
<1>3. titleEdit[c] # Resting
  BY <1>2 DEF Resting
<1>4. /\ DOMAIN titleEdit' = Editors /\ alone' \in [TitleIds -> BOOLEAN] /\ alone' = alone
      /\ titleEdit'[c] = Resting
      /\ \A d \in Editors \ {c} : titleEdit'[d] = titleEdit[d]
      /\ t \in TitleIds
      /\ alone[t] => \A d \in Editors \ {c} : ~At(d, t)
  BY <1>1, <1>2, <1>3, Continued
<1>5. /\ TablesWhole /\ RowsWhole(t) /\ CopiesAgree(t)
      /\ \A x \in TitleIds : RowsWhole(x)
  BY <1>4 DEF TitlesInv
<1>6. \A x \in TitleIds : title'[x] = wrote(x)
  BY <1>2
<1>7. ASSUME NEW row, "genres" \in DOMAIN row, NEW v
      PROVE  /\ "genres" \in DOMAIN [row EXCEPT !.featured = v]
             /\ [row EXCEPT !.featured = v].genres = row.genres
  BY <1>7
<1>8. ASSUME NEW x \in TitleIds
      PROVE  /\ Exists(x)' <=> Exists(x)
             /\ Exists(x) => "genres" \in DOMAIN title'[x] /\ title'[x].genres = title[x].genres
  <2>1. Exists(x) => "genres" \in DOMAIN title[x]
    BY <1>5 DEF RowsWhole
  <2>2. Exists(x) => "genres" \in DOMAIN wrote(x) /\ wrote(x).genres = title[x].genres
    BY <1>7, <2>1
  <2>3. ~Exists(x) => wrote(x) = title[x]
    OBVIOUS
  <2> HIDE DEF wrote
  <2>4. title'[x] = wrote(x)
    BY <1>6
  <2> QED BY <2>2, <2>3, <2>4, RowsExist DEF Exists
<1> HIDE DEF wrote
<1>9. TablesWhole'
  BY <1>2, <1>4, <1>5 DEF TablesWhole
<1>10. RowsWhole(t)'
  BY <1>2, <1>4, <1>5, <1>8 DEF RowsWhole
<1>11. ASSUME alone'[t], Exists(t)' PROVE AutoAgrees(t)' /\ GenresAgree(t)'
  <2>1. alone[t] /\ Exists(t) /\ ~Syncing(c)
    BY <1>2, <1>4, <1>8, <1>11 DEF Syncing
  <2>2. AutoAgrees(t) /\ GenresAgree(t)
    BY <1>4, <1>5, <2>1 DEF CopiesAgree
  <2>3. title'[t].genres = title[t].genres
    BY <1>4, <1>8, <2>1
  <2> QED BY <1>2, <2>2, <2>3 DEF AutoAgrees, GenresAgree
<1>12. Carries(c)' /\ ReadIsSo(c)'
  BY <1>4 DEF Carries, ReadIsSo
<1>13. \A x \in TitleIds \ {t} :
        /\ Exists(x)' <=> Exists(x)
        /\ Exists(x) => "genres" \in DOMAIN title'[x] /\ title'[x].genres = title[x].genres
        /\ class'[x] = class[x] /\ alone'[x] = alone[x]
  BY <1>2, <1>4, <1>8
<1>14. /\ titleEdit[c] # Resting => titleEdit[c].title = t
       /\ titleEdit'[c] # Resting => titleEdit'[c].title = t
       /\ alone'[t] => \A d \in Editors \ {c} : ~At(d, t)
  BY <1>1, <1>4
<1> QED BY <1>4, <1>9, <1>10, <1>11, <1>12, <1>13, <1>14, OneServed

\* A deleted title leaves no joins behind, and breaks what was under way on it.
LEMMA DeleteKeeps ==
  ASSUME TitlesInv, NEW t \in TitleIds, DeleteTitle(t)
  PROVE  TitlesInv'
<1>1. /\ title' = [title EXCEPT ![t] = Missing]
      /\ class' = [class EXCEPT ![t] = Unclassified]
      /\ alone' = [alone EXCEPT ![t] = @ /\ InFlight(t) = {}]
      /\ titleEdit' = titleEdit
  BY Zenon DEF DeleteTitle
<1>2. TablesWhole
  BY DEF TitlesInv
<1>3. (alone[t] /\ InFlight(t) = {}) \in BOOLEAN
  OBVIOUS
<1>4. /\ alone' \in [TitleIds -> BOOLEAN]
      /\ alone'[t] = (alone[t] /\ InFlight(t) = {})
      /\ \A x \in TitleIds \ {t} : alone'[x] = alone[x]
  BY <1>1, <1>2, <1>3, Zenon DEF TablesWhole
<1>5. alone'[t] => \A d \in Editors : ~At(d, t)
  <2>1. alone'[t] => InFlight(t) = {}
    BY <1>4, Zenon
  <2>2. InFlight(t) = {} => \A d \in Editors : ~At(d, t)
    BY Zenon DEF InFlight, At
  <2> QED BY <2>1, <2>2
<1>6. /\ title'[t] = Missing /\ class'[t] = Unclassified
      /\ DOMAIN title' = TitleIds /\ DOMAIN class' = TitleIds
      /\ \A x \in TitleIds \ {t} : title'[x] = title[x] /\ class'[x] = class[x]
  BY <1>1, <1>2 DEF TablesWhole
<1>7. TablesWhole'
  BY <1>1, <1>2, <1>4, <1>6 DEF TablesWhole
<1>8. ASSUME NEW x \in TitleIds, x # t PROVE RowsWhole(x)' /\ CopiesAgree(x)'
  <2>1. Exists(x) => "genres" \in DOMAIN title[x]
    BY DEF TitlesInv, RowsWhole
  <2>2. /\ Exists(x)' <=> Exists(x)
        /\ Exists(x) => "genres" \in DOMAIN title'[x] /\ title'[x].genres = title[x].genres
        /\ class'[x] = class[x] /\ alone'[x] = alone[x]
    BY <1>4, <1>6, <1>8, <2>1 DEF Exists
  <2>3. /\ {} \in SUBSET Editors
        /\ \A c \in Editors \ {} : titleEdit'[c] = titleEdit[c]
        /\ \A c \in {} : /\ titleEdit[c] # Resting => titleEdit[c].title = t
                         /\ titleEdit'[c] # Resting => titleEdit'[c].title = t
    BY <1>1
  <2> QED BY <1>8, <2>2, <2>3, OtherTitle
<1>9. RowsWhole(t)' /\ CopiesAgree(t)'
  <2>1. ~Exists(t)'
    BY <1>6 DEF Exists
  <2>2. \A d \in Editors : At(d, t)' <=> At(d, t)
    BY <1>1 DEF At
  <2>3. RowsWhole(t)'
    BY <1>6, <2>1 DEF RowsWhole, Unclassified, ClassFields
  <2> QED BY <1>5, <2>1, <2>2, <2>3 DEF CopiesAgree
<1>10. ASSUME NEW c \in Editors PROVE Carries(c)' /\ ReadIsSo(c)'
  <2>1. titleEdit'[c] = titleEdit[c]
    BY <1>1
  <2>2. Carries(c)
    BY DEF TitlesInv
  <2>3. ASSUME titleEdit[c] # Resting, alone'[titleEdit[c].title]
        PROVE  LET x == titleEdit[c].title
               IN  /\ alone[x]
                   /\ Exists(x)' <=> Exists(x)
                   /\ Exists(x) => title'[x].genres = title[x].genres
                   /\ class'[x] = class[x]
    <3>1. PICK x \in TitleIds : x = titleEdit[c].title
      BY <2>2, <2>3 DEF Carries
    <3>2. alone'[x] /\ x # t
      BY <1>5, <2>3, <3>1 DEF At
    <3>3. title'[x] = title[x] /\ class'[x] = class[x] /\ alone'[x] = alone[x]
      BY <1>4, <1>6, <3>2
    <3> QED BY <2>1, <3>1, <3>2, <3>3 DEF Exists
  <2> QED BY <2>1, <2>3, OtherRequest
<1> QED BY <1>7, <1>8, <1>9, <1>10 DEF TitlesInv

\* A classification writes the joins and the column in one transaction.
LEMMA ClassifyKeeps ==
  ASSUME TitlesInv, NEW c \in Editors, CommitClassify(c)
  PROVE  TitlesInv'
<1>1. PICK t : t = titleEdit[c].title
  OBVIOUS
<1>2. PICK input : input = titleEdit[c].input
  OBVIOUS
<1>3. PICK given : given = Merged(class[t], input)
  OBVIOUS
<1>4. PICK auto : auto = titleEdit[c].auto \ given.manual
  OBVIOUS
<1>5. PICK row : row = [given EXCEPT !.auto = auto]
  OBVIOUS
<1>6. PICK r : r = [step |-> "audit", title |-> t]
  OBVIOUS
<1>7. /\ titleEdit[c].step = "classify" /\ Exists(t) /\ Continue(c, r)
      /\ title' = IF Given("links", input) THEN [title EXCEPT ![t].genres = Tops(input.links)]
                  ELSE title
      /\ class' = [class EXCEPT ![t] = row]
  BY <1>1, <1>2, <1>3, <1>4, <1>5, <1>6, Zenon DEF CommitClassify
<1>8. titleEdit[c] # Resting
  BY <1>7 DEF Resting
<1>9. /\ DOMAIN titleEdit' = Editors /\ alone' \in [TitleIds -> BOOLEAN] /\ alone' = alone
      /\ titleEdit'[c] = r
      /\ \A d \in Editors \ {c} : titleEdit'[d] = titleEdit[d]
      /\ t \in TitleIds
      /\ alone[t] => \A d \in Editors \ {c} : ~At(d, t)
  BY <1>1, <1>7, <1>8, Continued
<1>10. /\ TablesWhole /\ RowsWhole(t) /\ CopiesAgree(t) /\ Carries(c) /\ ReadIsSo(c)
       /\ \A x \in TitleIds : RowsWhole(x)
  BY <1>9 DEF TitlesInv
<1>11. "genres" \in DOMAIN title[t] /\ ClassFields \subseteq DOMAIN class[t]
  BY <1>7, <1>10 DEF RowsWhole
<1>12. /\ DOMAIN given = DOMAIN class[t]
       /\ \A k \in DOMAIN class[t] : given[k] = IF Given(k, input) THEN input[k] ELSE class[t][k]
  BY <1>3, MergedFields
<1>13. /\ ClassFields \subseteq DOMAIN row
       /\ row.links = given.links /\ row.countries = given.countries
       /\ row.languages = given.languages /\ row.manual = given.manual /\ row.auto = auto
  BY <1>5, <1>11, <1>12 DEF ClassFields
<1>14. /\ class'[t] = row /\ DOMAIN class' = TitleIds
       /\ \A x \in TitleIds \ {t} : class'[x] = class[x]
  BY <1>7, <1>9, <1>10 DEF TablesWhole
<1>15. /\ DOMAIN title' = TitleIds
       /\ \A x \in TitleIds \ {t} : title'[x] = title[x]
       /\ "genres" \in DOMAIN title'[t]
       /\ title'[t].genres = IF Given("links", input) THEN Tops(input.links) ELSE title[t].genres
  <2>1. CASE Given("links", input)
    <3>1. PICK gs : gs = Tops(input.links)
      OBVIOUS
    <3>2. title' = [title EXCEPT ![t].genres = gs]
      BY <1>7, <2>1, <3>1
    <3>3. PICK nrow : nrow = [title[t] EXCEPT !.genres = gs]
      OBVIOUS
    <3>4. title' = [title EXCEPT ![t] = nrow]
      BY <3>2, <3>3
    <3>5. "genres" \in DOMAIN nrow /\ nrow.genres = gs
      BY <1>11, <3>3
    <3> QED BY <1>9, <1>10, <2>1, <3>1, <3>4, <3>5 DEF TablesWhole
  <2>2. CASE ~Given("links", input)
    BY <1>7, <1>10, <1>11, <2>2 DEF TablesWhole
  <2> QED BY <2>1, <2>2
<1>16. row.links = IF Given("links", input) THEN input.links ELSE class[t].links
  BY <1>11, <1>12, <1>13 DEF ClassFields
<1>17. row.links \subseteq DOMAIN Vocabulary
  BY <1>2, <1>7, <1>8, <1>10, <1>16 DEF RowsWhole, Carries
<1>18. TablesWhole'
  BY <1>9, <1>10, <1>14, <1>15 DEF TablesWhole
<1>19. Exists(t)'
  BY <1>15, RowsExist DEF Exists
<1>20. RowsWhole(t)'
  BY <1>13, <1>14, <1>15, <1>17, <1>19 DEF RowsWhole
<1>21. ASSUME alone'[t], Exists(t)' PROVE AutoAgrees(t)' /\ GenresAgree(t)'
  <2>1. alone[t] /\ ~Syncing(c)
    BY <1>7, <1>9, <1>21 DEF Syncing
  <2>2. GenresAgree(t)
    BY <1>7, <1>9, <1>10, <2>1 DEF CopiesAgree
  <2>3. GenresAgree(t)'
    <3>1. CASE Given("links", input)
      <4>1. title'[t].genres = Tops(row.links)
        BY <1>15, <1>16, <3>1
      <4>2. Tops(row.links) \subseteq TopGenres
        BY <1>17, TopsAreTop
      <4>3. title'[t].genres \cap TopGenres = Tops(class'[t].links)
        BY <1>14, <4>1, <4>2
      <4> QED BY <4>3 DEF GenresAgree
    <3>2. CASE ~Given("links", input)
      <4>1. title'[t].genres = title[t].genres /\ class'[t].links = class[t].links
        BY <1>14, <1>15, <1>16, <3>2
      <4> QED BY <2>2, <4>1 DEF GenresAgree
    <3> QED BY <3>1, <3>2
  <2>4. AutoAgrees(t)'
    <3>1. alone[titleEdit[c].title]
      BY <1>1, <2>1
    <3>2. titleEdit[c].step = "classify" =>
            titleEdit[c].auto =
              deriveIndustries(Merged(class[titleEdit[c].title], titleEdit[c].input).countries,
                               Merged(class[titleEdit[c].title], titleEdit[c].input).languages)
      BY <1>8, <1>10, <3>1, Zenon DEF ReadIsSo
    <3>3. titleEdit[c].auto = deriveIndustries(given.countries, given.languages)
      BY <1>1, <1>2, <1>3, <1>7, <3>2
    <3>4. class'[t].auto =
            deriveIndustries(class'[t].countries, class'[t].languages) \ class'[t].manual
      BY <1>4, <1>13, <1>14, <3>3
    <3> QED BY <3>4 DEF AutoAgrees
  <2> QED BY <2>3, <2>4
<1>22. Carries(c)'
  BY <1>6, <1>9 DEF Carries
<1>23. ReadIsSo(c)'
  BY <1>6, <1>9, <1>19 DEF ReadIsSo
<1>24. \A x \in TitleIds \ {t} :
        /\ Exists(x)' <=> Exists(x)
        /\ Exists(x) => "genres" \in DOMAIN title'[x] /\ title'[x].genres = title[x].genres
        /\ class'[x] = class[x] /\ alone'[x] = alone[x]
  BY <1>9, <1>10, <1>14, <1>15 DEF RowsWhole, Exists
<1>25. /\ titleEdit[c] # Resting => titleEdit[c].title = t
       /\ titleEdit'[c] # Resting => titleEdit'[c].title = t
       /\ alone'[t] => \A d \in Editors \ {c} : ~At(d, t)
  BY <1>1, <1>6, <1>9
<1> QED BY <1>9, <1>18, <1>20, <1>21, <1>22, <1>23, <1>24, <1>25, OneServed

\* What the mirroring is about to write has the parents that the column names.
LEMMA SyncKeeps ==
  ASSUME TitlesInv, NEW c \in Editors, BeginSync(c)
  PROVE  TitlesInv'
<1>1. PICK t : t = titleEdit[c].title
  OBVIOUS
<1>2. PICK kept, seen, names : /\ seen = class[t].links /\ names = titleEdit[c].genres
                               /\ kept = KeptLinks(seen, names)
  OBVIOUS
<1>3. PICK r : r = IF Exists(t)
                   THEN [step |-> "link", title |-> t, seen |-> seen, genres |-> names,
                         links |-> kept]
                   ELSE Resting
  OBVIOUS
<1>4. /\ titleEdit[c].step = "sync" /\ Continue(c, r)
      /\ title' = title /\ class' = class
  BY <1>1, <1>2, <1>3, Zenon DEF BeginSync
<1>5. titleEdit[c] # Resting
  BY <1>4 DEF Resting
<1>6. t \in TitleIds /\ titleEdit'[c] = r /\ alone' = alone
  BY <1>1, <1>4, <1>5, Continued
<1>7. RowsWhole(t) /\ ReadIsSo(c)
  BY <1>6 DEF TitlesInv
<1>8. kept \cup seen \subseteq DOMAIN Vocabulary
  BY <1>2, <1>7, KeptPicks DEF RowsWhole
<1>9. Carries(c)'
  <2>1. CASE r = Resting
    BY <1>6, <2>1 DEF Carries
  <2>2. CASE r # Resting
    <3>1. /\ r.step = "link" /\ r.title = t /\ r.links = kept /\ r.seen = seen
          /\ r.genres = names
      BY <1>3, <2>2
    <3> QED BY <1>2, <1>6, <1>8, <3>1 DEF Carries
  <2> QED BY <2>1, <2>2
<1>10. alone[t] => kept = KeptLinks(class[t].links, title[t].genres)
  <2>1. ASSUME alone[t] PROVE titleEdit[c].genres = title[t].genres
    <3>1. alone[titleEdit[c].title]
      BY <1>1, <2>1
    <3>2. titleEdit[c].step = "sync" => titleEdit[c].genres = title[titleEdit[c].title].genres
      BY <1>5, <1>7, <3>1, Zenon DEF ReadIsSo
    <3> QED BY <1>1, <1>4, <3>2
  <2> QED BY <1>2, <2>1
<1>11. ReadIsSo(c)'
  <2>1. titleEdit'[c] # Resting =>
          titleEdit'[c].step = "link" /\ titleEdit'[c].title = t /\ titleEdit'[c].links = kept
    BY <1>3, <1>6
  <2>2. titleEdit'[c] # Resting => Exists(t)
    BY <1>3, <1>6
  <2>3. title' = title /\ class' = class /\ alone' = alone
    BY <1>4, <1>6
  <2> QED BY <1>10, <2>1, <2>2, <2>3 DEF ReadIsSo, Exists
<1>12. /\ r # Resting => r.title = t
       /\ ~Exists(t) \/ (r # Resting /\ r.step \in {"sync", "link"})
  BY <1>3 DEF Resting
<1> QED BY <1>1, <1>4, <1>5, <1>9, <1>11, <1>12, StepKeeps

\* The joins that the mirroring writes have the parents that the column names.
LEMMA LinkKeeps ==
  ASSUME TitlesInv, NEW c \in Editors, CommitSync(c)
  PROVE  TitlesInv'
<1>1. PICK t : t = titleEdit[c].title
  OBVIOUS
<1>2. PICK links : links = titleEdit[c].links
  OBVIOUS
<1>3. PICK r : r = [step |-> "audit", title |-> t]
  OBVIOUS
<1>4. PICK row : row = [class[t] EXCEPT !.links = links]
  OBVIOUS
<1>5. /\ titleEdit[c].step = "link" /\ Exists(t) /\ Continue(c, r)
      /\ class' = [class EXCEPT ![t] = row] /\ title' = title
  <2>1. /\ titleEdit[c].step = "link" /\ Exists(t) /\ Continue(c, r)
        /\ class' = [class EXCEPT ![t].links = links] /\ title' = title
    BY <1>1, <1>2, <1>3, Zenon DEF CommitSync
  <2> QED BY <1>4, <2>1
<1>6. titleEdit[c] # Resting
  BY <1>5 DEF Resting
<1>7. /\ DOMAIN titleEdit' = Editors /\ alone' \in [TitleIds -> BOOLEAN] /\ alone' = alone
      /\ titleEdit'[c] = r
      /\ \A d \in Editors \ {c} : titleEdit'[d] = titleEdit[d]
      /\ t \in TitleIds
      /\ alone[t] => \A d \in Editors \ {c} : ~At(d, t)
  BY <1>1, <1>5, <1>6, Continued
<1>8. /\ TablesWhole /\ RowsWhole(t) /\ CopiesAgree(t) /\ Carries(c) /\ ReadIsSo(c)
      /\ \A x \in TitleIds : RowsWhole(x)
  BY <1>7 DEF TitlesInv
<1>9. /\ ClassFields \subseteq DOMAIN row /\ row.links = links
      /\ row.auto = class[t].auto /\ row.manual = class[t].manual
      /\ row.countries = class[t].countries /\ row.languages = class[t].languages
  BY <1>4, <1>8 DEF RowsWhole, ClassFields
<1>10. /\ class'[t] = row /\ DOMAIN class' = TitleIds
       /\ \A x \in TitleIds \ {t} : class'[x] = class[x]
  BY <1>5, <1>7, <1>8 DEF TablesWhole
<1>11. TablesWhole'
  BY <1>5, <1>7, <1>8, <1>10 DEF TablesWhole
<1>12. links \subseteq DOMAIN Vocabulary
  BY <1>2, <1>5, <1>6, <1>8 DEF Carries
<1>13. RowsWhole(t)'
  BY <1>5, <1>8, <1>9, <1>10, <1>12 DEF RowsWhole, Exists
<1>14. ASSUME alone'[t], Exists(t)' PROVE AutoAgrees(t)' /\ GenresAgree(t)'
  <2>1. alone[t]
    BY <1>7, <1>14
  <2>2. AutoAgrees(t)
    BY <1>5, <1>8, <2>1 DEF CopiesAgree
  <2>3. AutoAgrees(t)'
    BY <1>9, <1>10, <2>2 DEF AutoAgrees
  <2>4. alone[titleEdit[c].title]
    BY <1>1, <2>1
  <2>5. titleEdit[c].step = "link" =>
          titleEdit[c].links =
            KeptLinks(class[titleEdit[c].title].links, title[titleEdit[c].title].genres)
    BY <1>6, <1>8, <2>4, Zenon DEF ReadIsSo
  <2>6. links = KeptLinks(class[t].links, title[t].genres)
    BY <1>1, <1>2, <1>5, <2>5
  <2>7. Tops(links) = title[t].genres \cap TopGenres
    BY <2>6, KeptTops
  <2>8. GenresAgree(t)'
    BY <1>5, <1>9, <1>10, <2>7 DEF GenresAgree
  <2> QED BY <2>3, <2>8
<1>15. Carries(c)'
  BY <1>3, <1>7 DEF Carries
<1>16. ReadIsSo(c)'
  BY <1>3, <1>5, <1>7 DEF ReadIsSo, Exists
<1>17. \A x \in TitleIds \ {t} :
        /\ Exists(x)' <=> Exists(x)
        /\ Exists(x) => "genres" \in DOMAIN title'[x] /\ title'[x].genres = title[x].genres
        /\ class'[x] = class[x] /\ alone'[x] = alone[x]
  BY <1>5, <1>7, <1>8, <1>10 DEF RowsWhole, Exists
<1>18. /\ titleEdit[c] # Resting => titleEdit[c].title = t
       /\ titleEdit'[c] # Resting => titleEdit'[c].title = t
       /\ alone'[t] => \A d \in Editors \ {c} : ~At(d, t)
  BY <1>1, <1>3, <1>7
<1> QED BY <1>7, <1>11, <1>13, <1>14, <1>15, <1>16, <1>17, <1>18, OneServed

\* The audit row ends a request after everything is written.
LEMMA AuditKeeps ==
  ASSUME TitlesInv, NEW c \in Editors, Audited(c), title' = title, class' = class
  PROVE  TitlesInv'
<1>1. titleEdit[c].step = "audit" /\ Continue(c, Resting)
  BY Zenon DEF Audited
<1>2. titleEdit[c] # Resting /\ ~Syncing(c)
  BY <1>1 DEF Resting, Syncing
<1>3. titleEdit'[c] = Resting
  BY <1>1, <1>2, Continued
<1>4. Carries(c)' /\ ReadIsSo(c)'
  BY <1>3 DEF Carries, ReadIsSo
<1> QED BY <1>1, <1>2, <1>4, StepKeeps

\* A request that breaks off leaves its title out of what is promised.
LEMMA EndKeeps ==
  ASSUME TitlesInv, NEW c \in Editors, EndTitleEdit(c)
  PROVE  TitlesInv'
<1>1. PICK t : t = titleEdit[c].title
  OBVIOUS
<1>2. /\ titleEdit[c] # Resting
      /\ titleEdit' = [titleEdit EXCEPT ![c] = Resting]
      /\ alone' = [alone EXCEPT ![t] = FALSE]
      /\ title' = title /\ class' = class
  BY <1>1, Zenon DEF EndTitleEdit
<1>3. TablesWhole /\ Carries(c) /\ \A x \in TitleIds : RowsWhole(x)
  BY DEF TitlesInv
<1>4. t \in TitleIds
  BY <1>1, <1>2, <1>3 DEF Carries
<1>5. /\ DOMAIN titleEdit' = Editors /\ titleEdit'[c] = Resting
      /\ \A d \in Editors \ {c} : titleEdit'[d] = titleEdit[d]
      /\ alone' \in [TitleIds -> BOOLEAN] /\ alone'[t] = FALSE
      /\ \A x \in TitleIds \ {t} : alone'[x] = alone[x]
  BY <1>2, <1>3, <1>4 DEF TablesWhole
<1>6. TablesWhole' /\ RowsWhole(t)'
  BY <1>2, <1>3, <1>4, <1>5 DEF TablesWhole, RowsWhole, Exists
<1>7. Carries(c)' /\ ReadIsSo(c)'
  BY <1>5 DEF Carries, ReadIsSo
<1>8. \A x \in TitleIds \ {t} :
        /\ Exists(x)' <=> Exists(x)
        /\ Exists(x) => "genres" \in DOMAIN title'[x] /\ title'[x].genres = title[x].genres
        /\ class'[x] = class[x] /\ alone'[x] = alone[x]
  BY <1>2, <1>3, <1>5 DEF RowsWhole, Exists
<1>9. /\ titleEdit[c] # Resting => titleEdit[c].title = t
      /\ titleEdit'[c] # Resting => titleEdit'[c].title = t
      /\ alone'[t] => \A d \in Editors \ {c} : ~At(d, t)
      /\ alone'[t] /\ Exists(t)' =>
           AutoAgrees(t)' /\ (~At(c, t)' \/ ~Syncing(c)' => GenresAgree(t)')
  BY <1>1, <1>5
<1> QED BY <1>4, <1>5, <1>6, <1>7, <1>8, <1>9, OneServed

\* Every step of an edit.
LEMMA TitlesInvStep == TitlesInv /\ [TitlesNext]_titleVars => TitlesInv'
<1> SUFFICES ASSUME TitlesInv, [TitlesNext]_titleVars PROVE TitlesInv'
  OBVIOUS
<1>1. ASSUME NEW c \in Editors, MovieEdit(c) PROVE TitlesInv'
  <2>1. CASE \E t \in TitleIds, body \in Patches : CreateMovie(c, t, body)
    BY <2>1, CreateKeeps
  <2>2. CASE \E t \in TitleIds : \/ \E body : BeginUpdate(c, t, body)
                                 \/ \E start : BeginSetPremiere(c, t, start)
                                 \/ \E on : BeginFeature(c, t, on)
    BY <2>2, BeginsKeep
  <2>3. CASE MergePatch(c) \/ SaveRow(c) \/ CommitFeature(c)
    BY <2>3, MergeKeeps, SaveKeeps, FeatureKeeps
  <2> QED BY <1>1, <2>1, <2>2, <2>3, Zenon DEF MovieEdit
<1>2. ASSUME NEW c \in Editors, Classification(c) PROVE TitlesInv'
  <2>1. CASE \E t \in TitleIds, input \in Inputs : BeginClassify(c, t, input)
    BY <2>1, BeginsKeep
  <2>2. CASE CommitClassify(c) \/ BeginSync(c) \/ CommitSync(c)
    BY <2>2, ClassifyKeeps, SyncKeeps, LinkKeeps
  <2> QED BY <1>2, <2>1, <2>2, Zenon DEF Classification
<1>3. ASSUME NEW c \in Editors, EndTitleEdit(c) PROVE TitlesInv'
  BY <1>3, EndKeeps
<1>4. ASSUME NEW c \in Editors, Audited(c), UNCHANGED <<title, class>> PROVE TitlesInv'
  BY <1>4, AuditKeeps
<1>5. ASSUME NEW t \in TitleIds, DeleteTitle(t) PROVE TitlesInv'
  BY <1>5, DeleteKeeps
<1>6. CASE UNCHANGED titleVars
  <2>1. title' = title /\ class' = class /\ titleEdit' = titleEdit /\ alone' = alone
    BY <1>6 DEF titleVars
  <2>2. TablesWhole'
    BY <2>1 DEF TitlesInv, TablesWhole
  <2>3. ASSUME NEW t \in TitleIds PROVE RowsWhole(t)' /\ CopiesAgree(t)'
    BY <2>1 DEF TitlesInv, RowsWhole, CopiesAgree, Exists, GenresAgree, AutoAgrees, At, Syncing
  <2>4. ASSUME NEW c \in Editors PROVE Carries(c)' /\ ReadIsSo(c)'
    BY <2>1 DEF TitlesInv, Carries, ReadIsSo, Exists
  <2> QED BY <2>2, <2>3, <2>4 DEF TitlesInv
<1> QED BY <1>1, <1>2, <1>3, <1>4, <1>5, <1>6, Zenon DEF TitlesNext

\* Both copies of the choice agree whenever nothing is under way.
LEMMA TitlesInvariant == TitlesSpec => []TitlesInv
<1>1. TitlesInit => TitlesInv
  BY TitlesInvInit
<1>2. TitlesInv /\ [TitlesNext]_titleVars => TitlesInv'
  BY TitlesInvStep
<1> QED BY <1>1, <1>2, PTL DEF TitlesSpec

\* Whatever requests ran before, a title whose requests came one after the other has
\* one classification: its legacy genres are the parents of its picks, its AUTO
\* industries those of its countries and languages (update, syncLegacy).
THEOREM MirrorsAlwaysAgree == TitlesSpec => []MirrorsAgree
<1>1. TitlesInv => MirrorsAgree
  <2> SUFFICES ASSUME TitlesInv, NEW t \in TitleIds, Exists(t), alone[t], InFlight(t) = {}
               PROVE  GenresAgree(t) /\ AutoAgrees(t)
    BY DEF MirrorsAgree, GenresAgree, AutoAgrees
  <2>1. \A c \in Editors : ~At(c, t)
    BY DEF InFlight, At
  <2> QED BY <2>1 DEF TitlesInv, CopiesAgree
<1> QED BY <1>1, TitlesInvariant, PTL

\* A pick leaves a title that stays by a classification, or by a save of the older
\* editor that does not name its parent or had not read it (syncLegacy).
LEMMA PicksStay ==
  ASSUME TitlesInv, [TitlesNext]_titleVars, NEW t \in TitleIds, Exists(t),
         title'[t] # Missing, NEW g \in class[t].links \ class'[t].links
  PROVE  \E c \in Editors :
           \/ Lands(c, "classify", t)
           \/ /\ Lands(c, "link", t)
              /\ Vocabulary[g] \notin titleEdit[c].genres \/ g \notin titleEdit[c].seen
<1>1. class' # class
  OBVIOUS
<1>2. ASSUME NEW c \in Editors, MovieEdit(c) PROVE FALSE
  <2>1. class' = class
    BY <1>2, Zenon DEF MovieEdit, CreateMovie, BeginUpdate, BeginSetPremiere, BeginFeature,
                       MergePatch, SaveRow, CommitFeature
  <2> QED BY <1>1, <2>1
<1> DEFINE Dropped(c) ==
             \/ Lands(c, "classify", t)
             \/ /\ Lands(c, "link", t)
                /\ Vocabulary[g] \notin titleEdit[c].genres \/ g \notin titleEdit[c].seen
<1>3. ASSUME NEW c \in Editors, CommitSync(c) PROVE Dropped(c)
  <2>1. PICK x, links, r : /\ x = titleEdit[c].title /\ links = titleEdit[c].links
                           /\ r = [step |-> "audit", title |-> x]
    OBVIOUS
  <2>2. /\ titleEdit[c].step = "link" /\ Continue(c, r)
        /\ class' = [class EXCEPT ![x].links = links]
    BY <1>3, <2>1, Zenon DEF CommitSync
  <2>3. titleEdit[c] # Resting
    BY <2>2 DEF Resting
  <2>4. titleEdit'[c] = r
    BY <2>2, <2>3, Continued
  <2>5. DOMAIN class = TitleIds /\ "links" \in DOMAIN class[t]
    BY DEF TitlesInv, TablesWhole, RowsWhole, ClassFields
  <2>6. t = x /\ class'[t].links = links
    BY <2>2, <2>5
  <2>7. Lands(c, "link", t)
    BY <2>1, <2>2, <2>4, <2>6 DEF Lands
  <2>8. /\ links = KeptLinks(titleEdit[c].seen, titleEdit[c].genres)
        /\ titleEdit[c].seen \subseteq DOMAIN Vocabulary
    BY <2>1, <2>2, <2>3 DEF TitlesInv, Carries
  <2>9. g \notin links
    BY <2>6
  <2>10. Vocabulary[g] \notin titleEdit[c].genres \/ g \notin titleEdit[c].seen
    BY <2>8, <2>9, KeptPicks
  <2> QED BY <2>7, <2>10
<1>4. ASSUME NEW c \in Editors, CommitClassify(c) PROVE Dropped(c)
  <2>1. PICK x, input, r : /\ x = titleEdit[c].title /\ input = titleEdit[c].input
                           /\ r = [step |-> "audit", title |-> x]
    OBVIOUS
  <2>2. PICK row : row = [Merged(class[x], input) EXCEPT
                            !.auto = titleEdit[c].auto \ Merged(class[x], input).manual]
    OBVIOUS
  <2>3. /\ titleEdit[c].step = "classify" /\ Continue(c, r)
        /\ class' = [class EXCEPT ![x] = row]
    BY <1>4, <2>1, <2>2, Zenon DEF CommitClassify
  <2>4. titleEdit[c] # Resting
    BY <2>3 DEF Resting
  <2>5. titleEdit'[c] = r
    BY <2>3, <2>4, Continued
  <2>6. DOMAIN class = TitleIds
    BY DEF TitlesInv, TablesWhole
  <2>7. t = x
    BY <2>3, <2>6
  <2> QED BY <2>1, <2>3, <2>5, <2>7 DEF Lands
<1>5. ASSUME NEW c \in Editors, Classification(c) PROVE Dropped(c)
  <2>1. ASSUME NEW x \in TitleIds, NEW input \in Inputs, BeginClassify(c, x, input) PROVE FALSE
    <3>1. class' = class
      BY <2>1, Zenon DEF BeginClassify
    <3> QED BY <1>1, <3>1
  <2>2. ASSUME BeginSync(c) PROVE FALSE
    <3>1. class' = class
      BY <2>2, Zenon DEF BeginSync
    <3> QED BY <1>1, <3>1
  <2> HIDE DEF Dropped
  <2> QED BY <1>3, <1>4, <1>5, <2>1, <2>2, Zenon DEF Classification
<1>6. ASSUME NEW c \in Editors, EndTitleEdit(c) \/ (Audited(c) /\ UNCHANGED <<title, class>>)
      PROVE  FALSE
  <2>1. class' = class
    BY <1>6, Zenon DEF EndTitleEdit
  <2> QED BY <1>1, <2>1
<1>7. ASSUME NEW x \in TitleIds, DeleteTitle(x) PROVE FALSE
  <2>1. /\ title' = [title EXCEPT ![x] = Missing]
        /\ class' = [class EXCEPT ![x] = Unclassified]
    BY <1>7, Zenon DEF DeleteTitle
  <2>2. DOMAIN title = TitleIds /\ DOMAIN class = TitleIds
    BY DEF TitlesInv, TablesWhole
  <2> QED BY <2>1, <2>2
<1>8. CASE UNCHANGED titleVars
  BY <1>1, <1>8 DEF titleVars
<1>9. \/ \E c \in Editors : MovieEdit(c) \/ Classification(c)
      \/ \E c \in Editors : EndTitleEdit(c) \/ (Audited(c) /\ UNCHANGED <<title, class>>)
      \/ \E x \in TitleIds : DeleteTitle(x)
      \/ UNCHANGED titleVars
  BY Zenon DEF TitlesNext
<1> QED BY <1>2, <1>5, <1>6, <1>7, <1>8, <1>9

\* However the requests on a title overlap, a save of the older editor keeps the picks
\* that it read under the parents it names: it drops only what was picked between its
\* read and its write (syncLegacy: "Existing subgenre picks under a still-selected
\* parent are kept").
THEOREM PicksAlwaysSurvive == TitlesSpec => PicksSurviveLegacySave
<1>1. TitlesInv /\ [TitlesNext]_titleVars =>
        \A t \in TitleIds :
          Exists(t) /\ title'[t] # Missing =>
            \A g \in class[t].links \ class'[t].links :
              \E c \in Editors :
                \/ Lands(c, "classify", t)
                \/ /\ Lands(c, "link", t)
                   /\ Vocabulary[g] \notin titleEdit[c].genres \/ g \notin titleEdit[c].seen
  BY PicksStay
<1> QED BY <1>1, TitlesInvariant, PTL DEF TitlesSpec, PicksSurviveLegacySave


-----------------------------------------------------------------------------
(* ProducerService with the pages of its producers and admins.             *)

\* One request of a producer at a time, and the rows whose codes ran out stay as it
\* found them while it holds their locks.
RequestsHold ==
  /\ \A c, d \in Tabs :
       InRequest(c) /\ InRequest(d) /\ tab[c].producer = tab[d].producer => c = d
  /\ \A c \in Tabs : InRequest(c) =>
       /\ {"op", "producer", "amount", "expired"} \subseteq DOMAIN tab[c]
       /\ \A w \in tab[c].expired : /\ withdrawal[w].status = "AWAITING_CONFIRMATION"
                                    /\ withdrawal[w].producer = tab[c].producer

ServiceInv == WithdrawalsInv /\ FiniteRows /\ RequestsHold

\* What is in the queue or past it stays so.
QueuedStay == \A w \in Existing : Queued(w) => Queued(w)'

\* Requests that end leave the others as they are.
LEMMA RequestsKept ==
  ASSUME ServiceInv,
         \A c \in Tabs : InRequest(c)' => InRequest(c) /\ tab'[c] = tab[c],
         \A c \in Tabs, w \in Withdrawals :
           InRequest(c)' /\ w \in tab[c].expired =>
             /\ withdrawal'[w].status = withdrawal[w].status
             /\ withdrawal'[w].producer = withdrawal[w].producer
  PROVE  RequestsHold'
<1>1. ASSUME NEW c \in Tabs, NEW d \in Tabs, InRequest(c)', InRequest(d)',
             tab'[c].producer = tab'[d].producer
      PROVE  c = d
  BY <1>1 DEF ServiceInv, RequestsHold
<1>2. ASSUME NEW c \in Tabs, InRequest(c)', NEW w \in tab'[c].expired
      PROVE  /\ withdrawal'[w].status = "AWAITING_CONFIRMATION"
             /\ withdrawal'[w].producer = tab'[c].producer
  <2>1. InRequest(c) /\ tab'[c] = tab[c]
    BY <1>2
  <2>2. Known(w)
    BY <1>2, <2>1 DEF ServiceInv, WithdrawalsInv, TabsRemember
  <2>3. /\ withdrawal[w].status = "AWAITING_CONFIRMATION"
        /\ withdrawal[w].producer = tab[c].producer
    BY <1>2, <2>1 DEF ServiceInv, RequestsHold
  <2> QED BY <1>2, <2>1, <2>2, <2>3 DEF Known
<1>3. \A c \in Tabs : InRequest(c)' =>
        {"op", "producer", "amount", "expired"} \subseteq DOMAIN tab'[c]
  BY DEF ServiceInv, RequestsHold
<1> QED BY <1>1, <1>2, <1>3 DEF RequestsHold

\* A request that begins is the only one of its producer.
LEMMA RequestOpens ==
  ASSUME ServiceInv, NEW c \in Tabs, NEW p \in Producers, NEW n, BeginRequest(c, p, n)
  PROVE  RequestsHold'
<1>1. /\ tab' = [tab EXCEPT ![c] = [op |-> "counting", producer |-> p, amount |-> n,
                                    expired |-> {w \in Awaiting(p) : Late(w)}]]
      /\ \A d \in Tabs : InRequest(d) => tab[d].producer # p
      /\ withdrawal' = withdrawal /\ tab[c] = TabIdle
  BY DEF BeginRequest, ProducerLocked
<1>2. tab = [d \in Tabs |-> tab[d]]
  BY DEF ServiceInv, WithdrawalsInv, TabsRemember
<1>3. /\ tab'[c].producer = p /\ tab'[c].expired \subseteq Awaiting(p)
      /\ \A d \in Tabs : d # c => tab'[d] = tab[d]
  BY <1>1, <1>2
<1>4. ASSUME NEW d \in Tabs, NEW e \in Tabs, InRequest(d)', InRequest(e)',
             tab'[d].producer = tab'[e].producer
      PROVE  d = e
  BY <1>1, <1>3, <1>4 DEF InRequest, ServiceInv, RequestsHold
<1>5. ASSUME NEW d \in Tabs, InRequest(d)', NEW w \in tab'[d].expired
      PROVE  /\ withdrawal'[w].status = "AWAITING_CONFIRMATION"
             /\ withdrawal'[w].producer = tab'[d].producer
  <2>1. CASE d = c
    BY <1>1, <1>3, <1>5, <2>1 DEF Awaiting, WithStatus
  <2>2. CASE d # c
    BY <1>1, <1>3, <1>5, <2>2 DEF InRequest, ServiceInv, RequestsHold
  <2> QED BY <2>1, <2>2
<1>6. \A d \in Tabs : InRequest(d)' =>
        {"op", "producer", "amount", "expired"} \subseteq DOMAIN tab'[d]
  BY <1>1, <1>2, <1>3 DEF InRequest, ServiceInv, RequestsHold
<1> QED BY <1>4, <1>5, <1>6 DEF RequestsHold

\* Counting leaves a request as it was.
LEMMA RequestGoesOn ==
  ASSUME ServiceInv, NEW c \in Tabs, CountHolds(c)
  PROVE  /\ RequestsHold'
         /\ InRequest(c) /\ InRequest(c)'
         /\ tab'[c].producer = tab[c].producer /\ tab'[c].amount = tab[c].amount
         /\ \A d \in Tabs : d # c => tab'[d] = tab[d]
<1>1. tab = [d \in Tabs |-> tab[d]]
  BY DEF ServiceInv, WithdrawalsInv, TabsRemember
<1>2. /\ withdrawal' = withdrawal
      /\ tab'[c].op = "creating" /\ tab[c].op = "counting" /\ tab'[c].producer = tab[c].producer
      /\ tab'[c].amount = tab[c].amount /\ tab'[c].expired = tab[c].expired
      /\ DOMAIN tab'[c] = DOMAIN tab[c]
      /\ \A d \in Tabs : d # c => tab'[d] = tab[d]
  <2>1. {"op", "producer", "amount", "expired"} \subseteq DOMAIN tab[c]
    BY DEF CountHolds, InRequest, ServiceInv, RequestsHold
  <2> QED BY <1>1, <2>1 DEF CountHolds
<1>3. \A d \in Tabs : /\ InRequest(d)' = InRequest(d) /\ DOMAIN tab'[d] = DOMAIN tab[d]
                      /\ tab'[d].producer = tab[d].producer /\ tab'[d].expired = tab[d].expired
  BY <1>2 DEF InRequest
<1>4. RequestsHold'
  BY <1>2, <1>3 DEF ServiceInv, RequestsHold
<1> QED BY <1>2, <1>4 DEF InRequest

\* A commit makes a row, expires those it found late, and touches no other.
LEMMA RequestEnds ==
  ASSUME ServiceInv, NEW c \in Tabs, NEW id \in Withdrawals, CommitRequest(c, id)
  PROVE  /\ RequestsHold' /\ RowsStay /\ QueuedStay
         /\ withdrawal'[id].producer = tab[c].producer /\ withdrawal'[id].amount = tab[c].amount
         /\ \A w \in Withdrawals : withdrawal'[w] # NoWithdrawal => w = id \/ withdrawal[w] # NoWithdrawal
<1>0. RowsInv /\ TabsRemember /\ tab = [d \in Tabs |-> tab[d]] /\ InRequest(c)
  BY DEF ServiceInv, WithdrawalsInv, TabsRemember, CommitRequest, InRequest
<1>1. /\ withdrawal'[id].producer = tab[c].producer /\ withdrawal'[id].amount = tab[c].amount
      /\ withdrawal[id] = NoWithdrawal
  BY DEF CommitRequest
<1>2. ASSUME NEW w \in Withdrawals, w # id, w \notin tab[c].expired
      PROVE  withdrawal'[w] = withdrawal[w]
  BY <1>2 DEF CommitRequest
<1>3. ASSUME NEW w \in tab[c].expired
      PROVE  /\ w \in Withdrawals /\ w # id /\ withdrawal[w] # NoWithdrawal
             /\ withdrawal[w].status = "AWAITING_CONFIRMATION"
             /\ withdrawal[w].producer = tab[c].producer
             /\ withdrawal[w] \in PayoutRow
             /\ withdrawal'[w] = [withdrawal[w] EXCEPT !.status = "EXPIRED"]
  <2>1. Known(w)
    BY <1>0, <1>3 DEF TabsRemember
  <2>2. w \in Withdrawals /\ w # id /\ withdrawal[w] # NoWithdrawal
    BY <1>1, <2>1 DEF Known
  <2>3. withdrawal'[w] = [withdrawal[w] EXCEPT !.status = "EXPIRED"]
    BY <1>3, <2>2 DEF CommitRequest
  <2>4. withdrawal[w] \in PayoutRow
    BY <1>0, <2>1, RowFields
  <2> QED BY <1>0, <1>3, <2>2, <2>3, <2>4 DEF ServiceInv, RequestsHold
<1>4. ASSUME NEW w \in tab[c].expired
      PROVE  /\ withdrawal'[w] # NoWithdrawal
             /\ withdrawal'[w].producer = withdrawal[w].producer
             /\ withdrawal'[w].amount = withdrawal[w].amount
             /\ withdrawal'[w].expiresAt = withdrawal[w].expiresAt
  <2>1. PICK row \in PayoutRow : row = withdrawal[w]
    BY <1>3
  <2>2. PICK next : next = [row EXCEPT !.status = "EXPIRED"]
    OBVIOUS
  <2>3. /\ next \in PayoutRow /\ next.producer = row.producer /\ next.amount = row.amount
        /\ next.expiresAt = row.expiresAt
    BY <2>2 DEF PayoutRow
  <2>4. withdrawal'[w] = next
    BY <1>3, <2>1, <2>2
  <2> QED BY <2>1, <2>3, <2>4, RowsAreNotMissing
<1>5. RowsStay
  BY <1>1, <1>2, <1>4 DEF RowsStay, Existing
<1>6. QueuedStay
  <2> SUFFICES ASSUME NEW w \in Existing, Queued(w) PROVE Queued(w)'
    BY DEF QueuedStay
  <2>1. w # id /\ w \notin tab[c].expired
    BY <1>1, <1>3 DEF Existing, Queued
  <2>2. withdrawal'[w] = withdrawal[w]
    BY <1>2, <2>1 DEF Existing
  <2> QED BY <2>2 DEF Queued
<1>7. ASSUME NEW d \in Tabs
      PROVE  InRequest(d)' => d # c /\ InRequest(d) /\ tab'[d] = tab[d]
  BY <1>0 DEF CommitRequest, InRequest, TabIdle
<1>8. ASSUME NEW d \in Tabs, NEW w \in Withdrawals, InRequest(d)', w \in tab[d].expired
      PROVE  withdrawal'[w] = withdrawal[w]
  <2>1. InRequest(d) /\ d # c
    BY <1>7, <1>8
  <2>2. Known(w)
    BY <1>0, <1>8, <2>1 DEF TabsRemember
  <2>3. w \notin tab[c].expired
    BY <1>0, <1>3, <1>8, <2>1 DEF ServiceInv, RequestsHold
  <2> QED BY <1>1, <1>2, <2>2, <2>3 DEF Known
<1>9. RequestsHold'
  BY <1>7, <1>8, RequestsKept
<1>10. \A w \in Withdrawals : withdrawal'[w] # NoWithdrawal => w = id \/ withdrawal[w] # NoWithdrawal
  BY <1>2, <1>3
<1> QED BY <1>1, <1>5, <1>6, <1>9, <1>10

\* A row whose status and attempts are written, while no request holds its lock.
LEMMA RowSettles ==
  ASSUME ServiceInv, NEW w \in Existing, NEW status, NEW attempts,
         withdrawal' = [withdrawal EXCEPT ![w].attempts = attempts, ![w].status = status],
         ~RowLocked(w) \/ withdrawal[w].status # "AWAITING_CONFIRMATION",
         \A c \in Tabs : InRequest(c)' => InRequest(c) /\ tab'[c] = tab[c],
         Queued(w) => \/ status \in {"REQUESTED", "PAID", "REJECTED"}
                      \/ status = "EXPIRED" /\ attempts > 0
  PROVE  RequestsHold' /\ RowsStay /\ QueuedStay
<1>0. WithdrawalsInv
  BY DEF ServiceInv
<1>1. /\ RowsStay /\ withdrawal'[w].status = status
      /\ \A v \in Withdrawals : v # w => withdrawal'[v] = withdrawal[v]
  BY <1>0, RowRewritten
<1>2. withdrawal'[w].attempts = attempts
  <2>1. PICK row \in PayoutRow : row = withdrawal[w]
    BY <1>0, HeldRows DEF WithdrawalsInv
  <2>2. withdrawal'[w] = [row EXCEPT !.attempts = attempts, !.status = status]
    BY <1>0, <2>1 DEF WithdrawalsInv, RowsInv, Existing
  <2> QED BY <2>1, <2>2 DEF PayoutRow
<1>3. QueuedStay
  <2> SUFFICES ASSUME NEW v \in Existing, Queued(v) PROVE Queued(v)'
    BY DEF QueuedStay
  <2>1. CASE v = w
    BY <1>1, <1>2, <2>1 DEF Queued
  <2>2. CASE v # w
    BY <1>1, <2>2 DEF Queued, Existing
  <2> QED BY <2>1, <2>2
<1>4. ASSUME NEW c \in Tabs, NEW v \in Withdrawals, InRequest(c)', v \in tab[c].expired
      PROVE  withdrawal'[v] = withdrawal[v]
  <2>1. InRequest(c)
    BY <1>4
  <2>2. v # w
    BY <1>4, <2>1 DEF RowLocked, ServiceInv, RequestsHold
  <2> QED BY <1>1, <2>2
<1>5. RequestsHold'
  BY <1>4, RequestsKept
<1> QED BY <1>1, <1>3, <1>5

\* Every step of the service keeps its requests, and what rows and queue hold.
LEMMA ServiceStep ==
  ASSUME ServiceInv, [ServiceNext]_producerVars
  PROVE  ServiceInv' /\ RowsStay /\ QueuedStay
<1>0. /\ WithdrawalsInv /\ RowsInv /\ FiniteRows /\ TabsRemember /\ WithdrawalsInv'
      /\ RequestsHold /\ tab = [d \in Tabs |-> tab[d]]
  BY WithdrawalsInvStep DEF ServiceInv, WithdrawalsInv, TabsRemember
<1> DEFINE Goal == FiniteRows' /\ RequestsHold' /\ RowsStay /\ QueuedStay
<1>1. withdrawal' = withdrawal => RowsStay /\ QueuedStay
  BY DEF RowsStay, QueuedStay, Existing, Queued
<1>2. UNCHANGED <<withdrawal, link>> => FiniteRows'
  BY <1>0 DEF FiniteRows, Existing, Linked
<1>3. ASSUME withdrawal' = withdrawal,
             \A c \in Tabs : InRequest(c)' => InRequest(c) /\ tab'[c] = tab[c]
      PROVE  RequestsHold'
  BY <1>3, RequestsKept
<1>4. ASSUME NEW c \in Tabs, tab' = [tab EXCEPT ![c] = TabIdle]
      PROVE  \A d \in Tabs : InRequest(d)' => InRequest(d) /\ tab'[d] = tab[d]
  BY <1>0, <1>4 DEF InRequest, TabIdle
<1>5. ASSUME UNCHANGED <<withdrawal, tab>> PROVE RequestsHold'
  BY <1>3, <1>5 DEF InRequest
<1>6. ASSUME NEW w \in Existing, UNCHANGED link,
             \A v \in Withdrawals : v # w => withdrawal'[v] = withdrawal[v]
      PROVE  FiniteRows'
  <2>1. \A v \in Withdrawals : withdrawal'[v] # NoWithdrawal => v = w \/ withdrawal[v] # NoWithdrawal
    BY <1>6
  <2> QED BY <1>0, <1>6, <2>1, RowsStayFinite
<1>7. ASSUME NEW f \in Films, NEW s \in Stores, Sell(f, s) PROVE Goal
  BY <1>1, <1>2, <1>5, <1>7 DEF Sell
<1>8. ASSUME NEW f \in Films, NEW p \in Producers, NEW share \in RevenueShares, Assign(f, p, share)
      PROVE  Goal
  <2>1. \A g \in Films : link'[g] # Unlinked => g = f \/ link[g] # Unlinked
    BY <1>0, <1>8 DEF Assign, RowsInv
  <2>2. FiniteRows'
    BY <1>0, <1>8, <2>1, RowsStayFinite DEF Assign
  <2> QED BY <1>1, <1>5, <1>8, <2>2 DEF Assign
<1>9. ASSUME NEW c \in Tabs, NEW p \in Producers, NEW n \in Positive, BeginRequest(c, p, n)
      PROVE  Goal
  BY <1>1, <1>2, <1>9, RequestOpens DEF BeginRequest
<1>10. ASSUME NEW c \in Tabs, CountHolds(c) PROVE Goal
  BY <1>1, <1>2, <1>10, RequestGoesOn DEF CountHolds
<1>11. ASSUME NEW c \in Tabs, NEW id \in Withdrawals, CommitRequest(c, id) PROVE Goal
  <2>1. /\ RequestsHold' /\ RowsStay /\ QueuedStay
        /\ \A w \in Withdrawals : withdrawal'[w] # NoWithdrawal => w = id \/ withdrawal[w] # NoWithdrawal
    BY <1>11, RequestEnds
  <2>2. link' = link
    BY <1>11 DEF CommitRequest
  <2>3. FiniteRows'
    BY <1>0, <2>1, <2>2, RowsStayFinite
  <2> QED BY <2>1, <2>3
<1>12. ASSUME NEW c \in Tabs, NEW w \in Withdrawals, NEW right \in BOOLEAN, BeginConfirm(c, w, right)
       PROVE  Goal
  <2>1. \A d \in Tabs : InRequest(d)' => InRequest(d) /\ tab'[d] = tab[d]
    BY <1>0, <1>12 DEF BeginConfirm, InRequest
  <2> QED BY <1>1, <1>2, <1>3, <1>12, <2>1 DEF BeginConfirm
<1>13. ASSUME NEW w \in Existing, NEW status,
              withdrawal' = [withdrawal EXCEPT ![w].status = status]
       PROVE  withdrawal' = [withdrawal EXCEPT ![w].attempts = withdrawal[w].attempts,
                                               ![w].status = status]
  <2>1. withdrawal[w] \in PayoutRow
    BY <1>0, HeldRows
  <2>2. [withdrawal[w] EXCEPT !.attempts = withdrawal[w].attempts] = withdrawal[w]
    BY <2>1 DEF PayoutRow
  <2> QED BY <1>0, <1>13, <2>2 DEF RowsInv
<1>14. ASSUME NEW w \in Existing, NEW status, NEW attempts,
              withdrawal' = [withdrawal EXCEPT ![w].attempts = attempts, ![w].status = status],
              UNCHANGED link,
              ~RowLocked(w) \/ withdrawal[w].status # "AWAITING_CONFIRMATION",
              \A d \in Tabs : InRequest(d)' => InRequest(d) /\ tab'[d] = tab[d],
              Queued(w) => \/ status \in {"REQUESTED", "PAID", "REJECTED"}
                           \/ status = "EXPIRED" /\ attempts > 0
       PROVE  Goal
  <2>1. RequestsHold' /\ RowsStay /\ QueuedStay
    BY <1>14, RowSettles
  <2>2. \A v \in Withdrawals : v # w => withdrawal'[v] = withdrawal[v]
    BY <1>0, <1>14, RowRewritten
  <2> QED BY <1>6, <1>14, <2>1, <2>2
<1> HIDE DEF Goal
<1>15. ASSUME NEW c \in Tabs, WriteConfirm(c) PROVE Goal
  <2> DEFINE w == tab[c].id
             status == IF tab[c].op = "confirm" THEN "REQUESTED" ELSE "EXPIRED"
  <2>1. /\ tab' = [tab EXCEPT ![c] = TabIdle] /\ UNCHANGED link /\ ~RowLocked(w)
        /\ withdrawal' = IF withdrawal[w].status = "AWAITING_CONFIRMATION"
                         THEN [withdrawal EXCEPT ![w].status = status] ELSE withdrawal
    BY <1>15 DEF WriteConfirm
  <2>2. \A d \in Tabs : InRequest(d)' => InRequest(d) /\ tab'[d] = tab[d]
    BY <1>4, <2>1
  <2>3. CASE withdrawal[w].status = "AWAITING_CONFIRMATION"
    <3>1. w \in Existing
      BY <1>0, <1>15 DEF WriteConfirm, TabsRemember, Known, Existing
    <3>2. withdrawal' = [withdrawal EXCEPT ![w].status = status]
      BY <2>1, <2>3
    <3>3. withdrawal' = [withdrawal EXCEPT ![w].attempts = withdrawal[w].attempts, ![w].status = status]
      BY ZenonT(30), <1>13, <3>1, <3>2
    <3>4. ~Queued(w)
      BY <2>3 DEF Queued
    <3> HIDE DEF status, w
    <3> QED BY <1>14, <2>1, <2>2, <3>1, <3>3, <3>4
  <2>4. CASE withdrawal[w].status # "AWAITING_CONFIRMATION"
    <3>1. UNCHANGED <<link, withdrawal>>
      BY <2>1, <2>4
    <3> QED BY <1>1, <1>2, <1>3, <2>2, <3>1 DEF Goal
  <2> QED BY <2>3, <2>4
<1>16. ASSUME NEW c \in Tabs, WriteWrongCode(c) PROVE Goal
  <2> DEFINE w == tab[c].id
             status == IF tab[c].attempts >= MaxAttempts THEN "EXPIRED" ELSE withdrawal[w].status
  <2>1. /\ tab' = [tab EXCEPT ![c] = TabIdle] /\ UNCHANGED link /\ ~RowLocked(w)
        /\ w \in Existing /\ tab[c].attempts \in 1..MaxAttempts
    BY <1>0, <1>16 DEF WriteWrongCode, TabsRemember, Known, Existing
  <2>2. \A d \in Tabs : InRequest(d)' => InRequest(d) /\ tab'[d] = tab[d]
    BY <1>4, <2>1
  <2>3. withdrawal[w] \in PayoutRow /\ w \in Withdrawals
    BY <1>0, <2>1, HeldRows DEF Existing
  <2>4. withdrawal' = [withdrawal EXCEPT ![w].attempts = tab[c].attempts, ![w].status = status]
    BY <1>0, <1>16, <2>3 DEF WriteWrongCode, RowsInv, PayoutRow
  <2>5. tab[c].attempts > 0
    <3>1. MaxAttempts \in Nat
      BY WithdrawalBounds
    <3> QED BY <2>1, <3>1
  <2>6. Queued(w) => \/ status \in {"REQUESTED", "PAID", "REJECTED"}
                     \/ status = "EXPIRED" /\ tab[c].attempts > 0
    BY <2>5 DEF Queued
  <2> HIDE DEF status, w
  <2> QED BY <1>14, <2>1, <2>2, <2>4, <2>6
<1>17. ASSUME NEW c \in Tabs, EndTab(c) PROVE Goal
  BY <1>1, <1>2, <1>3, <1>4, <1>17 DEF EndTab, Goal
<1>18. ASSUME NEW w \in Withdrawals, NEW verdict \in {"PAID", "REJECTED"}, Review(w, verdict)
       PROVE  Goal
  <2>1. w \in Existing /\ withdrawal[w].status = "REQUESTED"
    BY <1>18 DEF Review, Existing, NoWithdrawal
  <2>2. withdrawal' = [withdrawal EXCEPT ![w].status = verdict] /\ UNCHANGED <<link, tab>>
    BY <1>18 DEF Review
  <2>3. withdrawal' = [withdrawal EXCEPT ![w].attempts = withdrawal[w].attempts, ![w].status = verdict]
    BY <1>13, <2>1, <2>2
  <2>4. \A d \in Tabs : InRequest(d)' => InRequest(d) /\ tab'[d] = tab[d]
    BY <2>2 DEF InRequest
  <2> QED BY <1>14, <2>1, <2>2, <2>3, <2>4
<1>19. ASSUME PassTime \/ UNCHANGED producerVars PROVE Goal
  BY <1>1, <1>2, <1>5, <1>19 DEF PassTime, producerVars, Goal
<1>20. Goal
  BY <1>7, <1>8, <1>9, <1>10, <1>11, <1>12, <1>15, <1>16, <1>17, <1>18, <1>19
     DEF ServiceNext
<1> QED BY <1>0, <1>20 DEF ServiceInv, Goal

\* What a step may make of one withdrawal.
KeepsReleased(w) ==
  LET old == withdrawal[w].status
      new == withdrawal'[w].status
  IN  /\ old \in {"REJECTED", "EXPIRED"} => new \in {"REJECTED", "EXPIRED"}
      /\ old \in {"REQUESTED", "PAID"} =>
           \/ new = old
           \/ old = "REQUESTED" /\ new \in {"PAID", "REJECTED"}
           \/ new = "EXPIRED" /\ withdrawal'[w].attempts = MaxAttempts

\* Confirmations and requests move only rows that wait for their code, a review those
\* that were confirmed; the last wrong code is written to any row.
LEMMA ReleasedStep ==
  ASSUME ServiceInv, [ServiceNext]_producerVars, NEW w \in Withdrawals
  PROVE  KeepsReleased(w)
<1>0. WithdrawalsInv /\ RowsInv /\ TabsRemember /\ RequestsHold
  BY DEF ServiceInv, WithdrawalsInv
<1>1. CASE withdrawal'[w] = withdrawal[w]
  BY <1>1 DEF KeepsReleased
<1>2. ASSUME withdrawal[w].status = "AWAITING_CONFIRMATION" \/ withdrawal[w] = NoWithdrawal
      PROVE  KeepsReleased(w)
  BY <1>2 DEF KeepsReleased, NoWithdrawal
<1>3. ASSUME NEW c \in Tabs, NEW id \in Withdrawals, CommitRequest(c, id)
      PROVE  KeepsReleased(w)
  <2>1. CASE w = id
    BY <1>2, <1>3, <2>1 DEF CommitRequest
  <2>2. CASE w # id /\ w \in tab[c].expired
    <3>1. InRequest(c)
      BY <1>3 DEF CommitRequest, InRequest
    <3> QED BY <1>0, <1>2, <2>2, <3>1 DEF RequestsHold
  <2>3. CASE w # id /\ w \notin tab[c].expired
    BY <1>1, <1>3, <2>3 DEF CommitRequest
  <2> QED BY <2>1, <2>2, <2>3
<1>4. ASSUME NEW c \in Tabs, WriteConfirm(c), withdrawal'[w] # withdrawal[w]
      PROVE  KeepsReleased(w)
  <2>1. withdrawal[w].status = "AWAITING_CONFIRMATION"
    BY <1>0, <1>4 DEF WriteConfirm, RowsInv
  <2> QED BY <1>2, <2>1
<1>5. ASSUME NEW c \in Tabs, WriteWrongCode(c), withdrawal'[w] # withdrawal[w]
      PROVE  KeepsReleased(w)
  <2> DEFINE n == tab[c].attempts
  <2>1. Known(tab[c].id) /\ n \in 1..MaxAttempts
    BY <1>0, <1>5 DEF WriteWrongCode, TabsRemember
  <2>2. tab[c].id = w
    BY <1>0, <1>5 DEF WriteWrongCode, RowsInv
  <2>3. withdrawal[w] \in PayoutRow
    BY <1>0, <2>1, <2>2, RowFields
  <2>4. withdrawal'[w] = [withdrawal[w] EXCEPT !.attempts = n,
                            !.status = IF n >= MaxAttempts THEN "EXPIRED" ELSE withdrawal[w].status]
    BY <1>0, <1>5, <2>2, <2>3 DEF WriteWrongCode, RowsInv, PayoutRow
  <2>5. /\ withdrawal'[w].attempts = n
        /\ withdrawal'[w].status = IF n >= MaxAttempts THEN "EXPIRED" ELSE withdrawal[w].status
    BY <2>3, <2>4 DEF PayoutRow
  <2>6. n >= MaxAttempts => n = MaxAttempts
    <3>1. MaxAttempts \in Nat
      BY WithdrawalBounds
    <3> QED BY <2>1, <3>1
  <2> HIDE DEF n
  <2> QED BY <2>5, <2>6 DEF KeepsReleased
<1>6. ASSUME NEW v \in Withdrawals, NEW verdict \in {"PAID", "REJECTED"}, Review(v, verdict),
             withdrawal'[w] # withdrawal[w]
      PROVE  KeepsReleased(w)
  <2>1. v = w /\ withdrawal[w].status = "REQUESTED"
    BY <1>0, <1>6 DEF Review, RowsInv
  <2>2. Known(w)
    BY <2>1 DEF Known, NoWithdrawal
  <2>3. withdrawal'[w] = [withdrawal[w] EXCEPT !.status = verdict]
    BY <1>0, <1>6, <2>1 DEF Review, RowsInv
  <2>4. withdrawal'[w].status = verdict
    BY <1>0, <2>2, <2>3, RowFields
  <2> QED BY <2>1, <2>4 DEF KeepsReleased
<1>7. ASSUME NEW f \in Films,
             \/ \E st \in Stores : Sell(f, st)
             \/ \E p \in Producers, share \in RevenueShares : Assign(f, p, share)
      PROVE  withdrawal' = withdrawal
  BY <1>7 DEF Sell, Assign
<1>8. ASSUME NEW c \in Tabs,
             \/ \E p \in Producers, n \in Positive : BeginRequest(c, p, n)
             \/ \E v \in Withdrawals, right \in BOOLEAN : BeginConfirm(c, v, right)
             \/ CountHolds(c) \/ EndTab(c)
      PROVE  withdrawal' = withdrawal
  BY <1>8 DEF BeginRequest, BeginConfirm, CountHolds, EndTab
<1>9. PassTime \/ UNCHANGED producerVars => withdrawal' = withdrawal
  BY DEF PassTime, producerVars
<1> QED BY <1>1, <1>3, <1>4, <1>5, <1>6, <1>7, <1>8, <1>9 DEF ServiceNext

\* Nothing is held at first.
LEMMA ServiceInvInit == WithdrawalsInit => ServiceInv
<1>1. WithdrawalsInit => WithdrawalsInv /\ FiniteRows
  BY OverdraftInvInit DEF OverdraftInv
<1>2. WithdrawalsInit => RequestsHold
  BY DEF WithdrawalsInit, RequestsHold, InRequest, TabIdle
<1> QED BY <1>1, <1>2 DEF ServiceInv

\* Money that was given back is never claimed again; what was confirmed or paid is
\* released by an admin's rejection before it is paid, or by the last wrong code, which
\* confirmWithdrawal writes by id, and by nothing else: no rejection, no expiry and no
\* later request undoes a payment.
THEOREM ReleasedAlwaysStaysReleased == WithdrawalsSpec => ReleasedStaysReleased
<1>1. WithdrawalsSpec => []ServiceInv
  <2>1. ServiceInv /\ [WithdrawalsNext]_producerVars => ServiceInv'
    BY ServiceStep, ServiceIsWider
  <2> QED BY ServiceInvInit, <2>1, PTL DEF WithdrawalsSpec
<1>2. ServiceInv /\ [WithdrawalsNext]_producerVars =>
        [\A w \in Withdrawals :
           LET old == withdrawal[w].status
               new == withdrawal'[w].status
           IN  /\ old \in {"REJECTED", "EXPIRED"} => new \in {"REJECTED", "EXPIRED"}
               /\ old \in {"REQUESTED", "PAID"} =>
                    \/ new = old
                    \/ old = "REQUESTED" /\ new \in {"PAID", "REJECTED"}
                    \/ new = "EXPIRED" /\ withdrawal'[w].attempts = MaxAttempts]_withdrawal
  BY ReleasedStep, ServiceIsWider DEF KeepsReleased
<1> QED BY <1>1, <1>2, PTL DEF WithdrawalsSpec, ReleasedStaysReleased

-----------------------------------------------------------------------------
(* What a page was told, and what its dashboards read.                     *)

\* Withdrawals of the producer that are past their codes.
ToldOf(p, told) ==
  \A w \in told : /\ w \in Existing /\ withdrawal[w].producer = p
                  /\ withdrawal[w].status # "AWAITING_CONFIRMATION"

\* A withdrawal that is past its code does not wait for one again, and one that no
\* longer counts, as rejected or expired, does not count again.
ChargesStay ==
  \A w \in Existing : withdrawal[w].status # "AWAITING_CONFIRMATION" =>
    withdrawal'[w].status # "AWAITING_CONFIRMATION" /\ (Charges(w)' => Charges(w))

Stays == RowsStay /\ QueuedStay /\ ChargesStay

\* As many rows as are read, all as new as the withdrawal or newer.
Unlisted(rows, w) ==
  /\ w \notin rows /\ Cardinality(rows) = ListedRows
  /\ \A v \in rows : withdrawal[w].expiresAt <= withdrawal[v].expiresAt

\* Of what a page was told, all that counts is taken, but for what was not listed.
Covers(told, rows, taken) == \A w \in told : Charges(w) => w \in taken \/ Unlisted(rows, w)

DataIsSo(p, data) ==
  /\ data.balance \in Nat /\ data.earned \in Nat /\ data.rows \subseteq Existing
  /\ ToldOf(p, data.told)
  /\ \E taken \in SUBSET data.rows : /\ data.balance = Left(data.earned, Amount(taken))
                                     /\ Covers(data.told, data.rows, taken)

LinksAreSo(links) ==
  IsFiniteSet(DOMAIN links) /\ \A f \in DOMAIN links : f \in Films /\ links[f] \in Parts

\* Rows as they were read: what they are worth does not change.
Charging(rows) == {w \in DOMAIN rows : rows[w].status \in {"REQUESTED", "PAID"}}

RowsAreSo(told, rows) ==
  /\ DOMAIN rows \subseteq Existing
  /\ \A w \in DOMAIN rows : rows[w].amount = withdrawal[w].amount
  /\ Covers(told, DOMAIN rows, Charging(rows))

ReadingFields == {"at", "op", "told", "links", "earned", "rows"}

ReadingIsSo(p, x) ==
  /\ DOMAIN x = ReadingFields /\ x.at = "reading" /\ ToldOf(p, x.told)
  /\ x.links # Blank => LinksAreSo(x.links)
  /\ x.earned # Blank => x.earned \in Nat
  /\ x.rows # Blank => RowsAreSo(x.told, x.rows)

ReplyIsSo(p, x) == x.at = "answered" /\ x.ok = TRUE /\ DataIsSo(p, x.data)

\* A dashboard that is being read, or was.
Underway(p, op, x) == x.op = op /\ (ReadingIsSo(p, x) \/ ReplyIsSo(p, x))

LoadIsSo(p, x) ==
  \/ x = NoWire \/ x = Failure
  \/ x.at = "asked" /\ ToldOf(p, x.told)
  \/ Underway(p, "load", x)

\* Only a review, or the last wrong code, takes a withdrawal out of those that count.
LEMMA ServiceStays ==
  ASSUME ServiceInv, [ServiceNext]_producerVars
  PROVE  ServiceInv' /\ Stays
<1>1. ServiceInv' /\ RowsStay /\ QueuedStay
  BY ServiceStep
<1>2. ASSUME NEW w \in Existing, withdrawal[w].status # "AWAITING_CONFIRMATION"
      PROVE  withdrawal'[w].status # "AWAITING_CONFIRMATION" /\ (Charges(w)' => Charges(w))
  <2>1. w \in Withdrawals /\ KeepsReleased(w)
    BY ReleasedStep DEF Existing
  <2>2. withdrawal[w] \in PayoutRow
    BY HeldRows DEF ServiceInv, WithdrawalsInv
  <2>3. withdrawal[w].status \in {"REQUESTED", "PAID", "REJECTED", "EXPIRED"}
    BY <1>2, <2>2 DEF PayoutRow
  <2> QED BY <2>1, <2>3 DEF KeepsReleased, Charges
<1> QED BY <1>1, <1>2 DEF Stays, ChargesStay

\* Rows that nobody writes stay.
LEMMA RowsRest ==
  ASSUME withdrawal' = withdrawal
  PROVE  Stays
BY DEF Stays, RowsStay, QueuedStay, ChargesStay, Existing, Queued, Charges

\* What rows are worth together stays.
LEMMA AmountStays ==
  ASSUME RowsStay, NEW S, S \subseteq Existing
  PROVE  Amount(S)' = Amount(S)
<1>1. [w \in S |-> withdrawal'[w].amount] = [w \in S |-> withdrawal[w].amount]
  BY DEF RowsStay
<1> QED BY <1>1 DEF Amount

\* Rows that exist go on existing.
LEMMA ExistingStays ==
  ASSUME RowsStay
  PROVE  Existing \subseteq Existing'
BY DEF RowsStay, Existing

\* What a page was told stays so.
LEMMA ToldOfStays ==
  ASSUME Stays, NEW p, NEW told, ToldOf(p, told)
  PROVE  ToldOf(p, told)'
<1>1. ASSUME NEW w \in told
      PROVE  /\ w \in Existing' /\ withdrawal'[w].producer = p
             /\ withdrawal'[w].status # "AWAITING_CONFIRMATION"
  <2>1. w \in Existing /\ withdrawal[w].producer = p
        /\ withdrawal[w].status # "AWAITING_CONFIRMATION"
    BY DEF ToldOf
  <2> QED BY <2>1, ExistingStays DEF Stays, RowsStay, ChargesStay
<1> QED BY <1>1 DEF ToldOf

\* What was covered stays covered.
LEMMA CoversStays ==
  ASSUME Stays, NEW p, NEW told, ToldOf(p, told), NEW rows, rows \subseteq Existing, NEW taken,
         Covers(told, rows, taken)
  PROVE  Covers(told, rows, taken)'
<1>1. ASSUME NEW w \in told, Charges(w)'
      PROVE  w \in taken \/ Unlisted(rows, w)'
  <2>1. w \in Existing /\ Charges(w)
    BY <1>1 DEF ToldOf, Stays, ChargesStay
  <2>2. ASSUME Unlisted(rows, w) PROVE Unlisted(rows, w)'
    BY <2>1, <2>2 DEF Unlisted, Stays, RowsStay
  <2> QED BY <2>1, <2>2 DEF Covers
<1> QED BY <1>1 DEF Covers

\* So does what a page shows, whatever is requested, paid or rejected meanwhile.
LEMMA DataStays ==
  ASSUME Stays, NEW p, NEW data, DataIsSo(p, data)
  PROVE  DataIsSo(p, data)'
<1>1. PICK taken \in SUBSET data.rows : /\ data.balance = Left(data.earned, Amount(taken))
                                        /\ Covers(data.told, data.rows, taken)
  BY DEF DataIsSo
<1>2. /\ data.balance \in Nat /\ data.earned \in Nat /\ data.rows \subseteq Existing
      /\ ToldOf(p, data.told)
  BY DEF DataIsSo
<1>3. taken \subseteq Existing /\ RowsStay
  BY <1>2 DEF Stays
<1>4. Amount(taken)' = Amount(taken)
  BY <1>3, AmountStays
<1>5. data.rows \subseteq Existing'
  BY <1>2, <1>3, ExistingStays
<1>6. ToldOf(p, data.told)' /\ Covers(data.told, data.rows, taken)'
  BY <1>1, <1>2, ToldOfStays, CoversStays
<1>7. Left(data.earned, Amount(taken))' = Left(data.earned, Amount(taken))
  BY <1>4 DEF Left
<1>8. data.balance = Left(data.earned, Amount(taken))'
  BY <1>1, <1>7
<1> QED BY <1>2, <1>5, <1>6, <1>8 DEF DataIsSo

\* And what was read of it.
LEMMA ReadingStays ==
  ASSUME Stays, NEW p, NEW x, ReadingIsSo(p, x)
  PROVE  ReadingIsSo(p, x)'
<1>1. ToldOf(p, x.told)'
  BY ToldOfStays DEF ReadingIsSo
<1>2. ASSUME RowsAreSo(x.told, x.rows)
      PROVE  RowsAreSo(x.told, x.rows)'
  <2>1. /\ DOMAIN x.rows \subseteq Existing
        /\ \A w \in DOMAIN x.rows : x.rows[w].amount = withdrawal[w].amount
        /\ Covers(x.told, DOMAIN x.rows, Charging(x.rows)) /\ ToldOf(p, x.told)
    BY <1>2 DEF RowsAreSo, ReadingIsSo
  <2>2. Covers(x.told, DOMAIN x.rows, Charging(x.rows))'
    <3>1. PICK taken : taken = Charging(x.rows)
      OBVIOUS
    <3>2. Covers(x.told, DOMAIN x.rows, taken)'
      BY <2>1, <3>1, CoversStays
    <3>3. Charging(x.rows)' = Charging(x.rows)
      BY DEF Charging
    <3> QED BY <3>1, <3>2, <3>3
  <2>3. DOMAIN x.rows \subseteq Existing'
    BY <2>1, ExistingStays DEF Stays
  <2>4. \A w \in DOMAIN x.rows : x.rows[w].amount = withdrawal'[w].amount
    BY <2>1 DEF Stays, RowsStay
  <2> QED BY <2>2, <2>3, <2>4 DEF RowsAreSo
<1>3. LinksAreSo(x.links) => LinksAreSo(x.links)'
  BY DEF LinksAreSo
<1> QED BY <1>1, <1>2, <1>3 DEF ReadingIsSo

LEMMA UnderwayStays ==
  ASSUME Stays, NEW p, NEW op, NEW x, Underway(p, op, x)
  PROVE  Underway(p, op, x)'
<1>1. CASE ReadingIsSo(p, x)
  BY <1>1, ReadingStays DEF Underway
<1>2. CASE ReplyIsSo(p, x)
  BY <1>2, DataStays DEF Underway, ReplyIsSo
<1> QED BY <1>1, <1>2 DEF Underway

LEMMA LoadStays ==
  ASSUME Stays, NEW p, NEW x, LoadIsSo(p, x)
  PROVE  LoadIsSo(p, x)'
<1>1. CASE x = NoWire \/ x = Failure
  BY <1>1 DEF LoadIsSo
<1>2. CASE x.at = "asked" /\ ToldOf(p, x.told)
  BY <1>2, ToldOfStays DEF LoadIsSo
<1>3. CASE Underway(p, "load", x)
  BY <1>3, UnderwayStays DEF LoadIsSo
<1> QED BY <1>1, <1>2, <1>3 DEF LoadIsSo

\* What films earned whose links were read earlier is a number.
LEMMA EarnedByNat ==
  ASSUME RowsInv, NEW links, LinksAreSo(links)
  PROVE  EarnedBy(links) \in Nat
<1> DEFINE g == [f \in DOMAIN links |-> Brings(sold[f], links[f])]
<1>1. ASSUME NEW f \in DOMAIN links PROVE g[f] \in Nat
  <2>1. PICK share \in Parts : share = links[f]
    BY DEF LinksAreSo
  <2>2. PICK m : m = sold[f]
    OBVIOUS
  <2>3. m \in [Stores -> Nat]
    <3>1. f \in Films /\ sold \in [Films -> [Stores -> 0..MaxSales]] /\ MaxSales \in Nat
      BY SharesAreParts DEF LinksAreSo, RowsInv
    <3> QED BY <2>2, <3>1
  <2>4. share <= share /\ \A s \in Stores : m[s] <= m[s]
    BY <2>3 DEF Parts
  <2>5. Brings(m, share) \in Nat
    BY <2>3, <2>4, BringsMore, Zenon
  <2> QED BY <2>1, <2>2, <2>5
<1>2. g \in [DOMAIN links -> Nat] /\ IsFiniteSet(DOMAIN links)
  BY <1>1 DEF LinksAreSo
<1>3. EarnedBy(links) = SumFunction(g)
  BY DEF EarnedBy, Brings
<1> HIDE DEF g
<1> QED BY <1>2, <1>3, SumNat

\* What is left of it is one too.
LEMMA LeftNat ==
  ASSUME NEW earned \in Nat, NEW amount \in Nat
  PROVE  Left(earned, amount) \in Nat
BY DEF Left

\* The links of a producer.
LEMMA LinksRead ==
  ASSUME RowsInv, FiniteRows, NEW p \in Producers
  PROVE  LinksAreSo([f \in FilmsOf(p) |-> link[f].share])
<1>1. FilmsOf(p) \subseteq Linked
  BY WithdrawalBounds DEF FilmsOf, Linked
<1>2. IsFiniteSet(FilmsOf(p))
  BY <1>1, FS_Subset DEF FiniteRows
<1>3. \A f \in FilmsOf(p) : f \in Films /\ link[f].share \in Parts
  BY <1>1, LinkedFilms DEF LinkedFilm, Linked
<1> QED BY <1>2, <1>3 DEF LinksAreSo

\* The newest withdrawals: all that count, unless they are too many.
LEMMA WindowsCover ==
  ASSUME RowsInv, FiniteRows, NEW p, NEW told, ToldOf(p, told), NEW rs \in Windows(p)
  PROVE  RowsAreSo(told, [w \in rs |-> withdrawal[w]])
<1> DEFINE all == WithStatus(p, {"AWAITING_CONFIRMATION", "REQUESTED", "PAID", "REJECTED"})
<1>0. PICK rows : rows = [w \in rs |-> withdrawal[w]]
  OBVIOUS
<1>5. DOMAIN rows = rs /\ \A w \in rs : rows[w] = withdrawal[w]
  BY <1>0
<1>1. /\ rs \subseteq all
      /\ Cardinality(rs) = IF Cardinality(all) <= ListedRows THEN Cardinality(all) ELSE ListedRows
      /\ \A w \in rs, v \in all \ rs : withdrawal[v].expiresAt <= withdrawal[w].expiresAt
  BY DEF Windows
<1>2. all \subseteq Existing
  BY DEF WithStatus, Existing, NoWithdrawal
<1>3. IsFiniteSet(all)
  BY <1>2, FS_Subset DEF FiniteRows
<1>4. ASSUME NEW w \in told, Charges(w)
      PROVE  w \in Charging(rows) \/ Unlisted(rs, w)
  <2>1. w \in all
    BY <1>4 DEF ToldOf, Existing, Charges, WithStatus
  <2>2. CASE w \in rs
    BY <1>4, <1>5, <2>2 DEF Charging, Charges
  <2>3. CASE w \notin rs
    <3>1. rs # all
      BY <2>1, <2>3
    <3>2. Cardinality(rs) # Cardinality(all)
      BY <1>1, <1>3, <3>1, FS_Subset
    <3>3. Cardinality(rs) = ListedRows
      BY <1>1, <3>2
    <3> QED BY <1>1, <2>1, <2>3, <3>3 DEF Unlisted
  <2> QED BY <2>2, <2>3
<1> HIDE DEF all
<1>6. RowsAreSo(told, rows)
  BY <1>1, <1>2, <1>4, <1>5 DEF RowsAreSo, Covers
<1> QED BY <1>0, <1>6

\* What is computed of links, sales and rows that were read one after the other.
LEMMA AnswerComputed ==
  ASSUME RowsInv, FiniteRows, NEW p, NEW r, ReadingIsSo(p, r), r.earned # Blank, r.rows # Blank,
         NEW taken, taken = SumFunction([w \in SpokenFor(r.rows) |-> r.rows[w].amount]),
         NEW data, data = [balance |-> Left(r.earned, taken), earned |-> r.earned,
                           rows |-> DOMAIN r.rows, told |-> r.told]
  PROVE  DataIsSo(p, data)
<1> DEFINE S == SpokenFor(r.rows)
<1>1. /\ DOMAIN r.rows \subseteq Existing /\ r.earned \in Nat /\ ToldOf(p, r.told)
      /\ \A w \in DOMAIN r.rows : r.rows[w].amount = withdrawal[w].amount
      /\ Covers(r.told, DOMAIN r.rows, Charging(r.rows))
  BY DEF ReadingIsSo, RowsAreSo
<1>2. S \subseteq DOMAIN r.rows /\ Charging(r.rows) \subseteq S
  BY DEF SpokenFor, Charging
<1>3. [w \in S |-> r.rows[w].amount] = [w \in S |-> withdrawal[w].amount]
  BY <1>1, <1>2
<1>4. taken = Amount(S)
  BY <1>3 DEF Amount
<1> HIDE DEF S
<1>5. Amount(S) \in Nat
  <2>1. S \subseteq Existing /\ S \in SUBSET S
    BY <1>1, <1>2
  <2> QED BY <2>1, AmountOfPart
<1>6. Left(r.earned, taken) \in Nat
  BY <1>1, <1>4, <1>5, LeftNat
<1>7. Covers(r.told, DOMAIN r.rows, S)
  BY <1>1, <1>2 DEF Covers
<1>8. /\ data.balance = Left(r.earned, taken) /\ data.earned = r.earned
      /\ data.rows = DOMAIN r.rows /\ data.told = r.told
  OBVIOUS
<1> QED BY <1>1, <1>2, <1>4, <1>6, <1>7, <1>8 DEF DataIsSo

-----------------------------------------------------------------------------
(* The links.                                                              *)

\* What an admin was told: a key that was issued, and mailed when a link was resent.
Told(m) ==
  /\ m.producer \in Producers /\ m.key \in Nat /\ m.key <= key[m.producer]
  /\ m.op = "resend" => <<m.producer, m.key>> \in mailed

\* What a panel is about to tell.
PanelIsSo(n) ==
  \/ /\ n.op = "idle"
     /\ n.notice # Blank => Told(n.notice)
  \/ /\ n \in [op : {"assign", "resend"}, producer : Producers, key : Nat,
               mail : {"due", "sent", "failed"}, notice : {Blank}]
     /\ n.key <= key[n.producer]
     /\ n.mail = "sent" => <<n.producer, n.key>> \in mailed

PanelsInv ==
  /\ key \in [Producers -> Nat]
  /\ panel = [a \in Panels |-> panel[a]]
  /\ \A a \in Panels : PanelIsSo(panel[a])

\* Keys are only ever issued, and mails only ever sent.
LinksGrow == /\ key' \in [Producers -> Nat] /\ mailed \subseteq mailed'
             /\ \A p \in Producers : key[p] <= key'[p]

\* What was told stays so.
LEMMA ToldStays ==
  ASSUME key \in [Producers -> Nat], LinksGrow, NEW n, PanelIsSo(n)
  PROVE  PanelIsSo(n)'
<1>1. ASSUME NEW p \in Producers, NEW k \in Nat, k <= key[p]
      PROVE  k <= key'[p]
  BY <1>1 DEF LinksGrow
<1>2. \A m : Told(m) => Told(m)'
  BY <1>1 DEF Told, LinksGrow
<1>3. CASE n.op = "idle" /\ (n.notice # Blank => Told(n.notice))
  BY <1>2, <1>3 DEF PanelIsSo
<1>4. CASE /\ n \in [op : {"assign", "resend"}, producer : Producers, key : Nat,
                     mail : {"due", "sent", "failed"}, notice : {Blank}]
           /\ n.key <= key[n.producer]
           /\ n.mail = "sent" => <<n.producer, n.key>> \in mailed
  <2>1. n.producer \in Producers /\ n.key \in Nat
    BY <1>4
  <2>2. n.key <= key'[n.producer]
    BY <1>1, <1>4, <2>1
  <2>3. n.mail = "sent" => <<n.producer, n.key>> \in mailed'
    BY <1>4 DEF LinksGrow
  <2> QED BY <1>4, <2>2, <2>3 DEF PanelIsSo
<1> QED BY <1>3, <1>4 DEF PanelIsSo

\* A panel that moves on while the others stay.
LEMMA PanelMoves ==
  ASSUME PanelsInv, LinksGrow, NEW a \in Panels, NEW n, panel' = [panel EXCEPT ![a] = n],
         PanelIsSo(n)'
  PROVE  PanelsInv'
<1>1. \A b \in Panels : panel'[b] = IF b = a THEN n ELSE panel[b]
  BY DEF PanelsInv
<1>2. ASSUME NEW b \in Panels PROVE PanelIsSo(panel[b])'
  <2>1. PICK m : m = panel[b]
    OBVIOUS
  <2>2. PanelIsSo(m)'
    BY <2>1, ToldStays DEF PanelsInv
  <2>3. PICK k : k = panel'[b]
    OBVIOUS
  <2>4. k = IF b = a THEN n ELSE m
    BY <1>1, <2>1, <2>3
  <2>5. PanelIsSo(k)'
    BY <2>2, <2>4
  <2> QED BY <2>3, <2>5 DEF PanelIsSo, Told
<1>3. panel' = [b \in Panels |-> panel'[b]]
  BY DEF PanelsInv
<1> QED BY <1>2, <1>3 DEF PanelsInv, LinksGrow

\* Keys and mails that are left alone.
LEMMA LinksRest ==
  ASSUME PanelsInv, UNCHANGED key, mailed \subseteq mailed'
  PROVE  LinksGrow
<1>1. \A p \in Producers : key[p] \in Nat /\ key'[p] = key[p]
  BY DEF PanelsInv
<1>2. \A p \in Producers : key[p] <= key'[p]
  BY <1>1
<1> QED BY <1>2 DEF LinksGrow, PanelsInv

\* A key that is issued, and the panel that is about to mail it.
LEMMA IssueKeeps ==
  ASSUME PanelsInv, NEW a \in Panels, NEW p \in Producers, NEW op \in {"assign", "resend"},
         Issue(a, p, op), UNCHANGED mailed
  PROVE  PanelsInv'
<1>1. /\ key' = [key EXCEPT ![p] = key[p] + 1]
      /\ panel' = [panel EXCEPT ![a] = [op |-> op, producer |-> p, key |-> key[p] + 1,
                                       mail |-> "due", notice |-> Blank]]
  BY DEF Issue
<1>2. key \in [Producers -> Nat] /\ key[p] \in Nat
  BY DEF PanelsInv
<1>3. key' \in [Producers -> Nat] /\ key'[p] = key[p] + 1
      /\ \A q \in Producers : key[q] <= key'[q]
  BY <1>1, <1>2
<1>4. LinksGrow
  BY <1>3 DEF LinksGrow
<1>5. PICK n : n = [op |-> op, producer |-> p, key |-> key[p] + 1, mail |-> "due", notice |-> Blank]
  OBVIOUS
<1>6. n.key <= key'[n.producer] /\ n.mail = "due"
  BY <1>2, <1>3, <1>5
<1>7. n \in [op : {"assign", "resend"}, producer : Producers, key : Nat,
             mail : {"due", "sent", "failed"}, notice : {Blank}]
  BY <1>2, <1>5
<1>8. PanelIsSo(n)'
  BY <1>6, <1>7 DEF PanelIsSo
<1> QED BY <1>1, <1>4, <1>5, <1>8, PanelMoves

\* The mail of a link that was issued.
LEMMA MailKeeps ==
  ASSUME PanelsInv, NEW a \in Panels, NEW outcome \in {"sent", "failed"}, MailLink(a, outcome)
  PROVE  PanelsInv'
<1>1. /\ panel[a].op # "idle"
      /\ panel' = [panel EXCEPT ![a] = [panel[a] EXCEPT !.mail = outcome]]
      /\ key' = key
      /\ mailed' = IF outcome = "sent" THEN mailed \cup {<<panel[a].producer, panel[a].key>>}
                   ELSE mailed
  BY DEF MailLink
<1>2. PICK m \in [op : {"assign", "resend"}, producer : Producers, key : Nat,
                  mail : {"due", "sent", "failed"}, notice : {Blank}] :
        m = panel[a] /\ m.key <= key[m.producer]
  BY <1>1 DEF PanelsInv, PanelIsSo
<1>3. PICK n : n = [m EXCEPT !.mail = outcome]
  OBVIOUS
<1>4. /\ n \in [op : {"assign", "resend"}, producer : Producers, key : Nat,
               mail : {"due", "sent", "failed"}, notice : {Blank}]
      /\ n.key = m.key /\ n.producer = m.producer /\ n.mail = outcome
  BY <1>2, <1>3
<1>5. LinksGrow
  BY <1>1, LinksRest
<1>6. n.mail = "sent" => <<n.producer, n.key>> \in mailed'
  BY <1>1, <1>2, <1>4
<1>7. n.key <= key'[n.producer]
  BY <1>1, <1>2, <1>4
<1>8. PanelIsSo(n)'
  BY <1>4, <1>6, <1>7 DEF PanelIsSo
<1> QED BY <1>1, <1>2, <1>3, <1>5, <1>8, PanelMoves

\* What the panel says after that.
LEMMA AnswerKeeps ==
  ASSUME PanelsInv, NEW a \in Panels, NEW arrives \in BOOLEAN, TakePanelAnswer(a, arrives)
  PROVE  PanelsInv'
<1>1. PICK m : m = panel[a]
  OBVIOUS
<1>2. PICK told : told = [op |-> m.op, producer |-> m.producer, key |-> m.key]
  OBVIOUS
<1>3. PICK notice :
        /\ panel' = [panel EXCEPT ![a] = [op |-> "idle", notice |-> notice]]
        /\ \/ notice = told /\ (m.op = "assign" \/ m.mail = "sent")
           \/ notice = Blank
  BY <1>1, <1>2 DEF TakePanelAnswer, Succeeded
<1>4. m.op # "idle" /\ UNCHANGED <<key, mailed>>
  BY <1>1 DEF TakePanelAnswer
<1>5. /\ m.producer \in Producers /\ m.key \in Nat /\ m.key <= key[m.producer]
      /\ m.op \in {"assign", "resend"}
      /\ m.mail = "sent" => <<m.producer, m.key>> \in mailed
  BY <1>1, <1>4 DEF PanelsInv, PanelIsSo
<1>6. m.op = "assign" \/ m.mail = "sent" => Told(told)
  BY <1>2, <1>5 DEF Told
<1>7. LinksGrow
  BY <1>4, LinksRest
<1>8. Told(told) => Told(told)'
  BY <1>4 DEF Told
<1>9. PICK n : n = [op |-> "idle", notice |-> notice]
  OBVIOUS
<1>10. n.op = "idle" /\ n.notice = notice /\ (notice # Blank => Told(notice)')
  BY <1>3, <1>6, <1>8, <1>9
<1>11. PanelIsSo(n)'
  BY <1>10 DEF PanelIsSo
<1> QED BY <1>3, <1>7, <1>9, <1>11, PanelMoves

\* A page that opens, loads again or hears of it changes nothing but itself.
LEMMA PagesAlone == PageNext => UNCHANGED <<producerVars, key, mailed, panel, payouts>>
<1> SUFFICES ASSUME PageNext PROVE UNCHANGED <<producerVars, key, mailed, panel, payouts>>
  OBVIOUS
<1>1. ASSUME NEW d, AdmitLoad(d) PROVE UNCHANGED <<producerVars, key, mailed, panel, payouts>>
  BY <1>1, Zenon DEF AdmitLoad
<1>2. ASSUME NEW d, Refresh(d) PROVE UNCHANGED <<producerVars, key, mailed, panel, payouts>>
  BY <1>2, Zenon DEF Refresh
<1>3. ASSUME NEW d, NEW arrives, TakeLoad(d, arrives)
      PROVE  UNCHANGED <<producerVars, key, mailed, panel, payouts>>
  BY <1>3, Zenon DEF TakeLoad
<1>4. ASSUME NEW d, NEW p, NEW k, OpenPage(d, p, k)
      PROVE  UNCHANGED <<producerVars, key, mailed, panel, payouts>>
  BY <1>4, Zenon DEF OpenPage
<1> QED BY <1>1, <1>2, <1>3, <1>4, Zenon DEF PageNext

\* A producer's account makes a key, and nothing else about the links moves.
LEMMA PanelsStep ==
  ASSUME RowsInv, PanelsInv, [DeskNext]_<<producerVars, deskVars>>
  PROVE  PanelsInv'
<1>1. ASSUME UNCHANGED <<key, mailed, panel>> PROVE PanelsInv'
  BY <1>1 DEF PanelsInv, PanelIsSo, Told
<1>2. ASSUME NEW a \in Panels, NEW f \in Films, NEW p \in Producers, NEW share \in RevenueShares,
             SendLink(a, f, p, share)
      PROVE  PanelsInv'
  BY <1>2, IssueKeeps DEF SendLink
<1>3. ASSUME NEW a \in Panels, NEW f \in Films, ResendLink(a, f)
      PROVE  PanelsInv'
  <2>1. link[f].producer \in Producers
    BY <1>3 DEF ResendLink, RowsInv
  <2> QED BY <1>3, <2>1, IssueKeeps DEF ResendLink
<1>4. ASSUME NEW p \in Producers, RegisterAccount(p)
      PROVE  PanelsInv'
  <2>1. key[p] = 0 /\ key' = [key EXCEPT ![p] = 1] /\ UNCHANGED <<mailed, panel>>
    BY <1>4 DEF RegisterAccount
  <2>2. key \in [Producers -> Nat]
    BY DEF PanelsInv
  <2>3. key' \in [Producers -> Nat] /\ \A q \in Producers : key[q] <= key'[q]
    BY <2>1, <2>2
  <2>4. LinksGrow
    BY <2>1, <2>3 DEF LinksGrow
  <2>5. ASSUME NEW b \in Panels PROVE PanelIsSo(panel[b])'
    <3>1. PICK m : m = panel[b]
      OBVIOUS
    <3>2. PanelIsSo(m)'
      BY <2>2, <2>4, <3>1, ToldStays DEF PanelsInv
    <3>3. panel'[b] = m
      BY <2>1, <3>1
    <3> QED BY <3>2, <3>3 DEF PanelIsSo, Told
  <2> QED BY <2>1, <2>3, <2>5 DEF PanelsInv
<1>5. LinksNext => PanelsInv'
  BY <1>2, <1>3, <1>4, MailKeeps, AnswerKeeps DEF LinksNext
<1>6. SheetNext => UNCHANGED <<key, mailed, panel>>
  BY DEF SheetNext, OpenSheet, CloseSheet, SubmitDetails, ChangeDetails, TakeAnswer, LoseAnswer,
         TypeAmount, SubmitCode, Admit
<1>9. PageNext => UNCHANGED <<key, mailed, panel>>
  BY PagesAlone
<1>8. ASSUME ReadingNext PROVE UNCHANGED <<key, mailed, panel>>
  <2>1. ASSUME NEW d, NEW x, NEW f, Read(d, x, f) PROVE UNCHANGED <<key, mailed, panel>>
    BY <2>1 DEF Read
  <2>2. ASSUME NEW d, NEW x, ReadLinks(d, x) \/ ReadSales(d, x) \/ ReadWithdrawals(d, x)
        PROVE  UNCHANGED <<key, mailed, panel>>
    BY <2>1, <2>2 DEF ReadLinks, ReadSales, ReadWithdrawals
  <2>3. ASSUME NEW d, NEW x, Answer(d, x) PROVE UNCHANGED <<key, mailed, panel>>
    BY <2>3 DEF Answer
  <2> QED BY <1>8, <2>2, <2>3 DEF ReadingNext
<1>7. ServingNext \/ PayoutsNext => UNCHANGED <<key, mailed, panel>>
  BY DEF ServingNext, EndConfirm, EndRequest, Refuse, Reply, deskVars, PayoutsNext, ChooseFilter,
         TakeList, SubmitReview
<1> QED BY <1>1, <1>5, <1>6, <1>7, <1>8, <1>9 DEF DeskNext, deskVars

-----------------------------------------------------------------------------
(* The pages.                                                              *)

PageFields  == {"producer", "key", "data", "error", "told", "load", "sheet", "wire"}
SheetFields == {"step", "amount", "sent", "pending", "busy"}

Opened(page) == page.sheet.step # "closed"

\* A row of the page's producer.
OfPage(page, w) == Known(w) /\ withdrawal[w].producer = page.producer

\* The row holds what the sheet sent.
RowIs(page, w) == OfPage(page, w) /\ withdrawal[w].amount = page.sheet.sent

\* The tab is at work on what the sheet sent, or on the code of its row.
ServedAs(page, c) ==
  \/ InRequest(c) /\ tab[c].producer = page.producer /\ tab[c].amount = page.sheet.sent
  \/ /\ tab[c].op \in {"confirm", "expire", "wrong"} /\ tab[c].id = page.sheet.pending
     /\ RowIs(page, page.sheet.pending)

\* The tab is at work, and for the page's producer when it has a code.
ServedFor(page, c) ==
  /\ tab[c] # TabIdle
  /\ tab[c].op \in {"confirm", "expire", "wrong"} => OfPage(page, tab[c].id)

\* What is on its way between a page and the service: about what an open sheet sent.
WireIsSo(page, wire) ==
  \/ wire = NoWire
  \/ wire = Failure
  \/ \E n \in Positive : /\ wire = [at |-> "sent", op |-> "request", amount |-> n]
                         /\ Opened(page) => n = page.sheet.sent
  \/ \E w \in Withdrawals, right \in BOOLEAN :
       /\ wire = [at |-> "sent", op |-> "confirm", id |-> w, right |-> right] /\ OfPage(page, w)
       /\ Opened(page) => w = page.sheet.pending /\ RowIs(page, w)
  \/ \E c \in Tabs : /\ wire = [at |-> "served", slot |-> c] /\ ServedFor(page, c)
                     /\ Opened(page) => ServedAs(page, c)
  \/ \E w : /\ wire = [at |-> "answered", ok |-> TRUE, op |-> "request", id |-> w]
            /\ Opened(page) => RowIs(page, w)
  \/ /\ Underway(page.producer, "confirm", wire)
     /\ Opened(page) => RowIs(page, page.sheet.pending) /\ Queued(page.sheet.pending)

\* What an open sheet says of its row.
SheetIsSo(page) ==
  /\ page.sheet.step \in {"code", "done"} => RowIs(page, page.sheet.pending)
  /\ page.sheet.step = "done" => Queued(page.sheet.pending)

\* The page's own state.
PageShape(page) ==
  /\ DOMAIN page = PageFields /\ DOMAIN page.sheet = SheetFields
  /\ page.sheet.amount \in Nat /\ page.sheet.sent \in Nat
  /\ page = ClosedPage \/ page.producer \in Producers

\* What the page shows and was told, and what it loads.
PageReads(page) ==
  /\ page.data # Blank => DataIsSo(page.producer, page.data)
  /\ ToldOf(page.producer, page.told)
  /\ LoadIsSo(page.producer, page.load)

PageIsSo(page) ==
  PageShape(page) /\ PageReads(page) /\ SheetIsSo(page) /\ WireIsSo(page, page.wire)

PagesInv == /\ dash = [d \in Dashboards |-> dash[d]]
            /\ \A d \in Dashboards : \A page : page = dash[d] => PageIsSo(page)

DeskInv == ServiceInv /\ PanelsInv /\ PagesInv

\* A row goes on being of its producer, and holding what the sheet sent.
LEMMA RowStays ==
  ASSUME RowsStay, NEW page, NEW w
  PROVE  /\ OfPage(page, w) => OfPage(page, w)' /\ w \in Existing
         /\ RowIs(page, w) => RowIs(page, w)' /\ w \in Existing
BY DEF RowsStay, RowIs, OfPage, Known, Existing

\* A tab goes on with what it was doing, or does nothing yet.
TabGoesOn(c) ==
  \/ tab'[c] = tab[c]
  \/ tab[c] = TabIdle
  \/ /\ InRequest(c) /\ InRequest(c)'
     /\ tab'[c].producer = tab[c].producer /\ tab'[c].amount = tab[c].amount

\* What a page shows, loads and was told stays so.
LEMMA ReadsStay ==
  ASSUME Stays, NEW page, PageReads(page)
  PROVE  PageReads(page)'
<1>1. /\ page.data # Blank => DataIsSo(page.producer, page.data)
      /\ ToldOf(page.producer, page.told) /\ LoadIsSo(page.producer, page.load)
  BY DEF PageReads
<1>2. page.data # Blank => DataIsSo(page.producer, page.data)'
  BY <1>1, DataStays
<1>3. ToldOf(page.producer, page.told)' /\ LoadIsSo(page.producer, page.load)'
  BY <1>1, ToldOfStays, LoadStays
<1> QED BY <1>2, <1>3 DEF PageReads

\* A sheet is still right about its row after a step of the service.
LEMMA SheetStays ==
  ASSUME Stays, NEW page, SheetIsSo(page)
  PROVE  SheetIsSo(page)'
<1>1. \A w : RowIs(page, w) => RowIs(page, w)' /\ w \in Existing
  BY RowStays DEF Stays
<1>2. \A w \in Existing : Queued(w) => Queued(w)'
  BY DEF Stays, QueuedStay
<1> QED BY <1>1, <1>2 DEF SheetIsSo

\* A page is left alone by the service while the tab that serves it goes on.
LEMMA PageStays ==
  ASSUME Stays, NEW page, PageIsSo(page),
         \A c \in Tabs : page.wire = [at |-> "served", slot |-> c] => TabGoesOn(c)
  PROVE  PageIsSo(page)'
<1>1. PageShape(page)' /\ PageReads(page)' /\ SheetIsSo(page)'
  BY ReadsStay, SheetStays DEF PageIsSo, PageShape
<1>2. \A w : /\ RowIs(page, w) => RowIs(page, w)' /\ w \in Existing
             /\ OfPage(page, w) => OfPage(page, w)'
  BY RowStays DEF Stays
<1>3. \A w \in Existing : Queued(w) => Queued(w)'
  BY DEF Stays, QueuedStay
<1>4. ASSUME NEW c \in Tabs, page.wire = [at |-> "served", slot |-> c], ServedFor(page, c)
      PROVE  ServedFor(page, c)' /\ (ServedAs(page, c) => ServedAs(page, c)')
  <2>1. TabGoesOn(c) /\ tab[c] # TabIdle
    BY <1>4 DEF ServedFor
  <2>2. CASE tab'[c] = tab[c]
    BY <1>2, <1>4, <2>2 DEF ServedAs, ServedFor, InRequest
  <2>3. CASE /\ InRequest(c) /\ InRequest(c)'
             /\ tab'[c].producer = tab[c].producer /\ tab'[c].amount = tab[c].amount
    <3>1. tab'[c].op \in {"counting", "creating"} /\ tab[c].op \in {"counting", "creating"}
      BY <2>3 DEF InRequest
    <3>2. tab'[c] # TabIdle
      BY <3>1 DEF TabIdle
    <3> QED BY <2>3, <3>1, <3>2 DEF ServedAs, ServedFor
  <2> QED BY <2>1, <2>2, <2>3 DEF TabGoesOn
<1>5. WireIsSo(page, page.wire)'
  <2> DEFINE wire == page.wire
  <2>1. CASE wire = NoWire \/ wire = Failure
    BY <2>1 DEF WireIsSo
  <2>2. CASE \E n \in Positive : /\ wire = [at |-> "sent", op |-> "request", amount |-> n]
                                 /\ Opened(page) => n = page.sheet.sent
    BY <2>2 DEF WireIsSo, Opened
  <2>3. CASE \E w \in Withdrawals, right \in BOOLEAN :
               /\ wire = [at |-> "sent", op |-> "confirm", id |-> w, right |-> right]
               /\ OfPage(page, w)
               /\ Opened(page) => w = page.sheet.pending /\ RowIs(page, w)
    BY <1>2, <2>3, Zenon DEF WireIsSo, Opened
  <2>4. CASE \E c \in Tabs : /\ wire = [at |-> "served", slot |-> c] /\ ServedFor(page, c)
                             /\ Opened(page) => ServedAs(page, c)
    BY <1>4, <2>4, Zenon DEF WireIsSo, Opened
  <2>5. CASE \E w : /\ wire = [at |-> "answered", ok |-> TRUE, op |-> "request", id |-> w]
                    /\ Opened(page) => RowIs(page, w)
    BY <1>2, <2>5, Zenon DEF WireIsSo, Opened
  <2>6. CASE /\ Underway(page.producer, "confirm", wire)
             /\ Opened(page) => RowIs(page, page.sheet.pending) /\ Queued(page.sheet.pending)
    <3>1. Underway(page.producer, "confirm", wire)'
      BY <2>6, UnderwayStays
    <3> QED BY <1>2, <1>3, <2>6, <3>1, Zenon DEF WireIsSo, Opened
  <2>7. WireIsSo(page, wire)
    BY DEF PageIsSo
  <2> QED BY <2>1, <2>2, <2>3, <2>4, <2>5, <2>6, <2>7 DEF WireIsSo
<1> QED BY <1>1, <1>5 DEF PageIsSo

\* A page that answers its user while the service rests.
LEMMA PageRests ==
  ASSUME UNCHANGED producerVars, NEW page, PageIsSo(page)
  PROVE  PageIsSo(page)'
<1>1. Stays
  BY RowsRest DEF producerVars
<1>2. \A c \in Tabs : TabGoesOn(c)
  BY DEF producerVars, TabGoesOn
<1> QED BY <1>1, <1>2, PageStays

\* One page moves on while the service and the other pages rest.
LEMMA PageMoves ==
  ASSUME PagesInv, UNCHANGED producerVars, NEW d \in Dashboards, NEW page,
         dash' = [dash EXCEPT ![d] = page], PageIsSo(page)
  PROVE  PagesInv'
<1>1. \A e \in Dashboards : dash'[e] = IF e = d THEN page ELSE dash[e]
  BY DEF PagesInv
<1>2. dash' = [e \in Dashboards |-> dash'[e]]
  BY DEF PagesInv
<1>3. ASSUME NEW e \in Dashboards, NEW next, next = dash'[e] PROVE PageIsSo(next)'
  <2>1. PageIsSo(next)
    BY <1>1, <1>3 DEF PagesInv
  <2> QED BY <2>1, PageRests
<1> QED BY <1>2, <1>3 DEF PagesInv

\* The fields of a page that is turned.
LEMMA PageTurns ==
  ASSUME PagesInv, NEW d \in Dashboards, NEW f, Page(d, f)
  PROVE  \E page : /\ dash' = [dash EXCEPT ![d] = page]
                   /\ DOMAIN page = PageFields
                   /\ \A x \in PageFields : page[x] = IF x \in DOMAIN f THEN f[x] ELSE dash[d][x]
<1> DEFINE page == [x \in DOMAIN dash[d] |-> IF x \in DOMAIN f THEN f[x] ELSE dash[d][x]]
<1>1. DOMAIN dash[d] = PageFields
  BY DEF PagesInv, PageIsSo, PageShape
<1>2. dash' = [dash EXCEPT ![d] = page]
  BY Zenon DEF Page
<1>3. /\ DOMAIN page = PageFields
      /\ \A x \in PageFields : page[x] = IF x \in DOMAIN f THEN f[x] ELSE dash[d][x]
  BY <1>1
<1> HIDE DEF page
<1> QED BY <1>2, <1>3

\* So do those of a sheet.
LEMMA SheetTurns ==
  ASSUME PagesInv, NEW d \in Dashboards, NEW f
  PROVE  /\ DOMAIN Sheet(d, f) = SheetFields
         /\ \A x \in SheetFields :
              Sheet(d, f)[x] = IF x \in DOMAIN f THEN f[x] ELSE dash[d].sheet[x]
BY DEF PagesInv, PageIsSo, PageShape, Sheet

\* What a page is, of one that is there.
LEMMA PageIs ==
  ASSUME PagesInv, NEW d \in Dashboards
  PROVE  /\ PageShape(dash[d]) /\ PageReads(dash[d])
         /\ SheetIsSo(dash[d]) /\ WireIsSo(dash[d], dash[d].wire)
         /\ \/ dash[d].data # Blank \/ dash[d].load # NoWire \/ dash[d].wire # NoWire
            \/ Opened(dash[d])
            => dash[d].producer \in Producers
<1>1. /\ PageShape(dash[d]) /\ PageReads(dash[d])
      /\ SheetIsSo(dash[d]) /\ WireIsSo(dash[d], dash[d].wire)
  BY DEF PagesInv, PageIsSo
<1>2. /\ ClosedPage.data = Blank /\ ClosedPage.load = NoWire /\ ClosedPage.wire = NoWire
      /\ ~Opened(ClosedPage)
  BY DEF ClosedPage, ClosedSheet, Opened
<1> QED BY <1>1, <1>2 DEF PageShape

\* A link that is opened starts a page that knows nothing yet.
LEMMA OpenPageKeeps ==
  ASSUME DeskInv, NEW d \in Dashboards, NEW p \in Producers, NEW k, OpenPage(d, p, k)
  PROVE  PagesInv'
<1>1. PICK load : load = Asked({})
  OBVIOUS
<1>2. LoadIsSo(p, load)
  BY <1>1 DEF LoadIsSo, Asked, ToldOf
<1>3. PICK page : page = [ClosedPage EXCEPT !.producer = p, !.key = k, !.load = load]
  OBVIOUS
<1>4. /\ DOMAIN page = PageFields /\ page.producer = p /\ page.load = load /\ page.data = Blank
      /\ page.told = {} /\ page.sheet = ClosedSheet /\ page.wire = NoWire
  BY <1>3 DEF ClosedPage, PageFields
<1>5. PageShape(page) /\ SheetIsSo(page) /\ WireIsSo(page, page.wire)
  BY <1>4 DEF ClosedSheet, PageShape, SheetIsSo, WireIsSo, SheetFields
<1>6. PageReads(page)
  BY <1>2, <1>4 DEF PageReads, ToldOf
<1> QED BY <1>1, <1>3, <1>5, <1>6, PageMoves DEF OpenPage, DeskInv, PageIsSo

\* A page that changes neither its sheet nor what is on its way.
LEMMA PageOnly ==
  ASSUME PagesInv, NEW d \in Dashboards, NEW page, dash' = [dash EXCEPT ![d] = page],
         UNCHANGED producerVars, DOMAIN page = PageFields,
         page.producer = dash[d].producer, page.sheet = dash[d].sheet, page.wire = dash[d].wire,
         page.producer \in Producers, PageReads(page)
  PROVE  PagesInv'
<1>1. PageShape(page)
  BY PageIs DEF PageShape
<1>2. SheetIsSo(page)
  BY PageIs DEF SheetIsSo, RowIs, OfPage
<1>3. WireIsSo(page, page.wire)
  <2>1. WireIsSo(dash[d], page.wire)
    BY PageIs
  <2>2. \A w : (RowIs(dash[d], w) <=> RowIs(page, w)) /\ (OfPage(dash[d], w) <=> OfPage(page, w))
    BY DEF RowIs, OfPage
  <2>3. \A c : (ServedAs(dash[d], c) <=> ServedAs(page, c)) /\ (ServedFor(dash[d], c) <=> ServedFor(page, c))
    BY <2>2 DEF ServedAs, ServedFor
  <2>4. Opened(dash[d]) <=> Opened(page)
    BY DEF Opened
  <2> QED BY <2>1, <2>2, <2>3, <2>4 DEF WireIsSo
<1> QED BY <1>1, <1>2, <1>3, PageMoves DEF PageIsSo

\* A load that goes on, or ends with what the page shows from then on.
LEMMA LoadMoves ==
  ASSUME PagesInv, NEW d \in Dashboards, dash[d].producer \in Producers, UNCHANGED producerVars,
         NEW f, Page(d, f), "load" \in DOMAIN f, DOMAIN f \subseteq {"load", "error", "data"},
         LoadIsSo(dash[d].producer, f["load"]),
         "data" \in DOMAIN f => DataIsSo(dash[d].producer, f["data"])
  PROVE  PagesInv'
<1>1. PICK page : /\ dash' = [dash EXCEPT ![d] = page] /\ DOMAIN page = PageFields
                  /\ \A x \in PageFields : page[x] = IF x \in DOMAIN f THEN f[x] ELSE dash[d][x]
  BY PageTurns
<1>2. /\ page.load = f["load"] /\ page.producer = dash[d].producer /\ page.sheet = dash[d].sheet
      /\ page.wire = dash[d].wire /\ page.told = dash[d].told
      /\ page.data = IF "data" \in DOMAIN f THEN f["data"] ELSE dash[d].data
  BY <1>1 DEF PageFields
<1>3. PageReads(dash[d])
  BY PageIs
<1>4. PageReads(page)
  BY <1>2, <1>3 DEF PageReads
<1> QED BY <1>1, <1>2, <1>4, PageOnly

\* A page that loads again.
LEMMA RefreshKeeps ==
  ASSUME DeskInv, NEW d \in Dashboards, Refresh(d)
  PROVE  PagesInv'
<1>1. dash[d].producer \in Producers /\ PageReads(dash[d]) /\ PagesInv
  BY PageIs DEF Refresh, DeskInv
<1>2. PICK f : f = [load |-> Asked(dash[d].told)]
  OBVIOUS
<1>3. DOMAIN f = {"load"} /\ f["load"] = Asked(dash[d].told)
  BY <1>2
<1>4. LoadIsSo(dash[d].producer, f["load"])
  BY <1>1, <1>3 DEF PageReads, LoadIsSo, Asked
<1> QED BY <1>1, <1>2, <1>3, <1>4, LoadMoves DEF Refresh

\* A load that is let in, or not.
LEMMA AdmitLoadKeeps ==
  ASSUME DeskInv, NEW d \in Dashboards, AdmitLoad(d)
  PROVE  PagesInv'
<1>1. dash[d].load.at = "asked" /\ dash[d].load # NoWire
  BY DEF AdmitLoad, NoWire
<1>2. dash[d].producer \in Producers /\ PageReads(dash[d]) /\ PagesInv
  BY <1>1, PageIs DEF DeskInv
<1>3. PICK load : load = IF Authentic(d) THEN Reading("load", dash[d].load.told) ELSE Failure
  OBVIOUS
<1>4. LoadIsSo(dash[d].producer, load)
  <2>1. CASE load = Failure
    BY <2>1 DEF LoadIsSo
  <2>2. CASE load = Reading("load", dash[d].load.told)
    <3>1. ToldOf(dash[d].producer, dash[d].load.told)
      BY <1>1, <1>2 DEF PageReads, LoadIsSo, Failure, Underway, ReadingIsSo, ReplyIsSo
    <3>2. /\ DOMAIN load = ReadingFields /\ load.at = "reading" /\ load.op = "load"
          /\ load.told = dash[d].load.told
          /\ load.links = Blank /\ load.earned = Blank /\ load.rows = Blank
      BY <2>2 DEF Reading, ReadingFields
    <3> QED BY <3>1, <3>2 DEF LoadIsSo, Underway, ReadingIsSo
  <2> QED BY <1>3, <2>1, <2>2
<1>5. PICK f : f = [load |-> load]
  OBVIOUS
<1>6. DOMAIN f = {"load"} /\ f["load"] = load
  BY <1>5
<1> QED BY <1>2, <1>3, <1>4, <1>5, <1>6, LoadMoves DEF AdmitLoad

\* A page that hears of its load, or does not.
LEMMA TakeLoadKeeps ==
  ASSUME DeskInv, NEW d \in Dashboards, NEW arrives \in BOOLEAN, TakeLoad(d, arrives)
  PROVE  PagesInv'
<1>1. dash[d].load # NoWire /\ (arrives => dash[d].load.at = "answered")
  BY DEF TakeLoad
<1>2. dash[d].producer \in Producers /\ PageReads(dash[d]) /\ PagesInv
  BY <1>1, PageIs DEF DeskInv
<1>3. PICK f : /\ Page(d, f)
               /\ \/ f = [load |-> NoWire, error |-> "unreachable"]
                  \/ f = [load |-> NoWire, error |-> "replaced"]
                  \/ /\ f = [load |-> NoWire, error |-> "none", data |-> dash[d].load.data]
                     /\ arrives /\ dash[d].load.ok
  BY DEF TakeLoad
<1>4. /\ "load" \in DOMAIN f /\ f["load"] = NoWire /\ DOMAIN f \subseteq {"load", "error", "data"}
      /\ "data" \in DOMAIN f => f["data"] = dash[d].load.data /\ arrives /\ dash[d].load.ok
  BY <1>3
<1>5. arrives /\ dash[d].load.ok => DataIsSo(dash[d].producer, dash[d].load.data)
  <2> SUFFICES ASSUME arrives, dash[d].load.ok
               PROVE  DataIsSo(dash[d].producer, dash[d].load.data)
    OBVIOUS
  <2>1. dash[d].load # Failure
    BY DEF Failure
  <2> QED BY <1>1, <1>2, <2>1 DEF PageReads, LoadIsSo, Underway, ReadingIsSo, ReplyIsSo
<1>6. LoadIsSo(dash[d].producer, f["load"])
  BY <1>4 DEF LoadIsSo
<1>7. UNCHANGED producerVars
  BY DEF TakeLoad
<1> QED BY <1>2, <1>3, <1>4, <1>5, <1>6, <1>7, LoadMoves

\* A page that changes its sheet, what is on its way, or what it shows.
LEMMA DataMoves ==
  ASSUME PagesInv, NEW d \in Dashboards, dash[d].producer \in Producers, UNCHANGED producerVars,
         NEW f, Page(d, f), NEW sheet, NEW wire, NEW data, NEW told,
         DOMAIN f \subseteq {"sheet", "wire", "data", "told"},
         sheet = IF "sheet" \in DOMAIN f THEN f["sheet"] ELSE dash[d].sheet,
         wire = IF "wire" \in DOMAIN f THEN f["wire"] ELSE dash[d].wire,
         data = IF "data" \in DOMAIN f THEN f["data"] ELSE dash[d].data,
         told = IF "told" \in DOMAIN f THEN f["told"] ELSE dash[d].told,
         DOMAIN sheet = SheetFields, sheet.amount \in Nat, sheet.sent \in Nat,
         data # Blank => DataIsSo(dash[d].producer, data), ToldOf(dash[d].producer, told),
         \A page : page.producer = dash[d].producer /\ page.sheet = sheet
                  => SheetIsSo(page) /\ WireIsSo(page, wire)
  PROVE  PagesInv'
<1>1. PICK page : /\ dash' = [dash EXCEPT ![d] = page] /\ DOMAIN page = PageFields
                  /\ \A x \in PageFields : page[x] = IF x \in DOMAIN f THEN f[x] ELSE dash[d][x]
  BY PageTurns
<1>2. /\ page.sheet = sheet /\ page.wire = wire /\ page.data = data /\ page.told = told
      /\ page.producer = dash[d].producer /\ page.load = dash[d].load
  BY <1>1 DEF PageFields
<1>3. PageShape(page)
  BY <1>1, <1>2, PageIs DEF PageShape
<1>4. PageReads(page)
  BY <1>2, PageIs DEF PageReads
<1>5. SheetIsSo(page) /\ WireIsSo(page, page.wire)
  BY <1>2
<1> QED BY <1>1, <1>3, <1>4, <1>5, PageMoves DEF PageIsSo

\* A page that changes its sheet or what is on its way only.
LEMMA SheetMoves ==
  ASSUME PagesInv, NEW d \in Dashboards, dash[d].producer \in Producers, UNCHANGED producerVars,
         NEW f, Page(d, f), NEW sheet, NEW wire,
         DOMAIN f \subseteq {"sheet", "wire"},
         sheet = IF "sheet" \in DOMAIN f THEN f["sheet"] ELSE dash[d].sheet,
         wire = IF "wire" \in DOMAIN f THEN f["wire"] ELSE dash[d].wire,
         DOMAIN sheet = SheetFields, sheet.amount \in Nat, sheet.sent \in Nat,
         \A page : page.producer = dash[d].producer /\ page.sheet = sheet
                  => SheetIsSo(page) /\ WireIsSo(page, wire)
  PROVE  PagesInv'
<1>1. /\ dash[d].data # Blank => DataIsSo(dash[d].producer, dash[d].data)
      /\ ToldOf(dash[d].producer, dash[d].told)
  BY PageIs DEF PageReads
<1>2. "data" \notin DOMAIN f /\ "told" \notin DOMAIN f /\ DOMAIN f \subseteq {"sheet", "wire", "data", "told"}
  OBVIOUS
<1> QED BY <1>1, <1>2, DataMoves

\* What is on its way stays about the same request while the sheet does.
LEMMA WireOnly ==
  ASSUME NEW old, NEW page, NEW wire, WireIsSo(old, wire), page.producer = old.producer,
         Opened(page) => /\ Opened(old) /\ page.sheet.sent = old.sheet.sent
                         /\ page.sheet.pending = old.sheet.pending
  PROVE  WireIsSo(page, wire)
<1>1. \A w : OfPage(old, w) <=> OfPage(page, w)
  BY DEF OfPage
<1>2. Opened(page) => \A w : RowIs(old, w) <=> RowIs(page, w)
  BY <1>1 DEF RowIs
<1>3. Opened(page) => \A c : ServedAs(old, c) <=> ServedAs(page, c)
  BY <1>2 DEF ServedAs
<1>4. \A c : ServedFor(old, c) <=> ServedFor(page, c)
  BY <1>1 DEF ServedFor
<1> QED BY <1>1, <1>2, <1>3, <1>4 DEF WireIsSo

\* An open page has a producer.
LEMMA OpenedPages ==
  ASSUME DeskInv, NEW d \in Dashboards, Opened(dash[d]) \/ dash[d].wire # NoWire
  PROVE  /\ PagesInv /\ dash[d].producer \in Producers /\ PageShape(dash[d]) /\ PageReads(dash[d])
         /\ SheetIsSo(dash[d]) /\ WireIsSo(dash[d], dash[d].wire)
BY PageIs DEF DeskInv

\* The sheet opens with the balance as its amount, and has sent nothing.
LEMMA OpenSheetKeeps ==
  ASSUME DeskInv, NEW d \in Dashboards, OpenSheet(d)
  PROVE  PagesInv'
<1>1. PagesInv /\ dash[d].data # Blank /\ dash[d].wire = NoWire /\ UNCHANGED producerVars
  BY DEF OpenSheet, DeskInv
<1>2. dash[d].producer \in Producers /\ dash[d].data.balance \in Nat
  BY <1>1, PageIs DEF PageReads, DataIsSo
<1>3. PICK s : s = [ClosedSheet EXCEPT !.step = "details", !.amount = dash[d].data.balance]
  OBVIOUS
<1>4. PICK f : f = [sheet |-> s]
  OBVIOUS
<1>5. Page(d, f)
  BY <1>3, <1>4 DEF OpenSheet
<1>6. DOMAIN f = {"sheet"} /\ f["sheet"] = s
  BY <1>4
<1>7. DOMAIN s = SheetFields /\ s.amount \in Nat /\ s.sent \in Nat /\ s.step = "details"
  BY <1>2, <1>3 DEF ClosedSheet, SheetFields
<1>8. \A page : page.sheet = s => SheetIsSo(page) /\ WireIsSo(page, dash[d].wire)
  BY <1>1, <1>7 DEF SheetIsSo, WireIsSo
<1> QED BY <1>1, <1>2, <1>5, <1>6, <1>7, <1>8, SheetMoves

\* The user types, goes back to the details, or closes the sheet: what was sent, and
\* the row it made, stay as they are.
LEMMA SheetEdited ==
  ASSUME DeskInv, NEW d \in Dashboards, Opened(dash[d]), UNCHANGED producerVars,
         NEW s, Page(d, [sheet |-> s]),
         DOMAIN s = SheetFields, s.amount \in Nat, s.sent \in Nat,
         \/ s.step = "closed"
         \/ /\ s.step = "details" /\ s.sent = dash[d].sheet.sent
            /\ s.pending = dash[d].sheet.pending
  PROVE  PagesInv'
<1>1. /\ PagesInv /\ dash[d].producer \in Producers /\ PageShape(dash[d])
      /\ WireIsSo(dash[d], dash[d].wire)
  BY OpenedPages
<1>2. PICK f : f = [sheet |-> s]
  OBVIOUS
<1>3. DOMAIN f = {"sheet"} /\ f["sheet"] = s /\ Page(d, f)
  BY <1>2
<1>4. ASSUME NEW page, page.producer = dash[d].producer, page.sheet = s
      PROVE  SheetIsSo(page) /\ WireIsSo(page, dash[d].wire)
  <2>1. SheetIsSo(page)
    BY <1>4 DEF SheetIsSo
  <2>2. Opened(page) => /\ Opened(dash[d]) /\ page.sheet.sent = dash[d].sheet.sent
                        /\ page.sheet.pending = dash[d].sheet.pending
    BY <1>4 DEF Opened
  <2> QED BY <1>1, <1>4, <2>1, <2>2, WireOnly
<1> QED BY <1>1, <1>3, <1>4, SheetMoves

\* Typing, going back and closing are such edits.
LEMMA EditKeeps ==
  ASSUME DeskInv, NEW d \in Dashboards,
         CloseSheet(d) \/ ChangeDetails(d) \/ \E n \in Amounts : TypeAmount(d, n)
  PROVE  PagesInv'
<1>1. Opened(dash[d]) /\ UNCHANGED producerVars
  BY DEF CloseSheet, ChangeDetails, TypeAmount, Opened
<1>2. PagesInv /\ PageShape(dash[d])
  BY <1>1, OpenedPages
<1>3. CASE CloseSheet(d)
  <2>1. /\ DOMAIN ClosedSheet = SheetFields /\ ClosedSheet.amount \in Nat
        /\ ClosedSheet.sent \in Nat /\ ClosedSheet.step = "closed"
    BY DEF ClosedSheet, SheetFields
  <2> QED BY <1>1, <1>3, <2>1, SheetEdited DEF CloseSheet
<1>4. CASE ChangeDetails(d)
  <2>1. PICK s : s = Sheet(d, [step |-> "details"])
    OBVIOUS
  <2>2. /\ DOMAIN s = SheetFields
        /\ \A x \in SheetFields : s[x] = IF x \in {"step"} THEN "details" ELSE dash[d].sheet[x]
    BY <1>2, <2>1, SheetTurns
  <2>3. /\ s.step = "details" /\ s.amount = dash[d].sheet.amount /\ s.sent = dash[d].sheet.sent
        /\ s.pending = dash[d].sheet.pending
    BY <2>2 DEF SheetFields
  <2> QED BY <1>1, <1>2, <1>4, <2>1, <2>2, <2>3, SheetEdited DEF ChangeDetails, PageShape
<1>5. ASSUME NEW n \in Amounts, TypeAmount(d, n)
      PROVE  PagesInv'
  <2>1. PICK s : s = Sheet(d, [amount |-> n])
    OBVIOUS
  <2>2. /\ DOMAIN s = SheetFields
        /\ \A x \in SheetFields : s[x] = IF x \in {"amount"} THEN n ELSE dash[d].sheet[x]
    BY <1>2, <2>1, SheetTurns
  <2>3. /\ s.step = dash[d].sheet.step /\ s.amount = n /\ s.sent = dash[d].sheet.sent
        /\ s.pending = dash[d].sheet.pending
    BY <2>2 DEF SheetFields
  <2>4. n \in Nat /\ dash[d].sheet.step = "details"
    BY <1>5, WithdrawalBounds DEF TypeAmount
  <2> QED BY <1>1, <1>2, <1>5, <2>1, <2>2, <2>3, <2>4, SheetEdited DEF TypeAmount, PageShape
<1> QED BY <1>3, <1>4, <1>5

\* What is sent is what the sheet remembers to have sent.
LEMMA SubmitDetailsKeeps ==
  ASSUME DeskInv, NEW d \in Dashboards, SubmitDetails(d)
  PROVE  PagesInv'
<1>1. /\ Opened(dash[d]) /\ UNCHANGED producerVars /\ dash[d].sheet.step = "details"
      /\ dash[d].sheet.amount >= MinWithdrawal
  BY DEF SubmitDetails, DetailsOk, Opened
<1>2. /\ PagesInv /\ dash[d].producer \in Producers /\ PageShape(dash[d])
  BY <1>1, OpenedPages
<1>3. PICK n : n = dash[d].sheet.amount
  OBVIOUS
<1>4. n \in Positive
  <2>1. MinWithdrawal \in Nat \ {0} /\ n \in Nat
    BY <1>2, <1>3, DeskConstants DEF PageShape
  <2> QED BY <1>1, <1>3, <2>1 DEF Positive
<1>5. PICK s : s = Sheet(d, [busy |-> TRUE, sent |-> n])
  OBVIOUS
<1>6. PICK wire : wire = [at |-> "sent", op |-> "request", amount |-> n]
  OBVIOUS
<1>7. PICK f : f = [sheet |-> s, wire |-> wire]
  OBVIOUS
<1>8. Page(d, f)
  BY <1>3, <1>5, <1>6, <1>7 DEF SubmitDetails
<1>9. DOMAIN f = {"sheet", "wire"} /\ f["sheet"] = s /\ f["wire"] = wire
  BY <1>7
<1>10. /\ DOMAIN s = SheetFields /\ s.sent = n /\ s.amount = n /\ s.step = "details"
  <2>1. PICK g : g = [busy |-> TRUE, sent |-> n]
    OBVIOUS
  <2>2. DOMAIN g = {"busy", "sent"} /\ g["sent"] = n
    BY <2>1
  <2>3. /\ DOMAIN s = SheetFields
        /\ \A x \in SheetFields : s[x] = IF x \in DOMAIN g THEN g[x] ELSE dash[d].sheet[x]
    BY <1>2, <1>5, <2>1, SheetTurns
  <2> QED BY <1>1, <1>3, <2>2, <2>3 DEF SheetFields
<1>11. ASSUME NEW page, page.sheet = s
       PROVE  SheetIsSo(page) /\ WireIsSo(page, wire)
  BY <1>4, <1>6, <1>10, <1>11 DEF SheetIsSo, WireIsSo
<1>12. n \in Nat
  BY <1>4 DEF Positive
<1> QED BY <1>1, <1>2, <1>8, <1>9, <1>10, <1>11, <1>12, SheetMoves

\* The code is sent for the row that the sheet waits for.
LEMMA SubmitCodeKeeps ==
  ASSUME DeskInv, NEW d \in Dashboards, NEW right \in BOOLEAN, SubmitCode(d, right)
  PROVE  PagesInv'
<1>1. Opened(dash[d]) /\ UNCHANGED producerVars /\ dash[d].sheet.step = "code"
  BY DEF SubmitCode, Opened
<1>2. /\ PagesInv /\ dash[d].producer \in Producers /\ PageShape(dash[d]) /\ SheetIsSo(dash[d])
  BY <1>1, OpenedPages
<1>3. PICK w : w = dash[d].sheet.pending
  OBVIOUS
<1>4. RowIs(dash[d], w) /\ Known(w) /\ w \in Withdrawals
  BY <1>1, <1>2, <1>3 DEF SheetIsSo, RowIs, OfPage, Known
<1>5. PICK s : s = Sheet(d, [busy |-> TRUE])
  OBVIOUS
<1>6. PICK wire : wire = [at |-> "sent", op |-> "confirm", id |-> w, right |-> right]
  OBVIOUS
<1>7. PICK f : f = [sheet |-> s, wire |-> wire]
  OBVIOUS
<1>8. Page(d, f)
  BY <1>3, <1>5, <1>6, <1>7 DEF SubmitCode
<1>9. DOMAIN f = {"sheet", "wire"} /\ f["sheet"] = s /\ f["wire"] = wire
  BY <1>7
<1>10. /\ DOMAIN s = SheetFields /\ s.sent = dash[d].sheet.sent /\ s.amount = dash[d].sheet.amount
       /\ s.step = "code" /\ s.pending = w
  <2>1. PICK g : g = [busy |-> TRUE]
    OBVIOUS
  <2>2. s = Sheet(d, g) /\ DOMAIN g = {"busy"}
    BY <1>5, <2>1
  <2>3. /\ DOMAIN s = SheetFields
        /\ \A x \in SheetFields : s[x] = IF x \in DOMAIN g THEN g[x] ELSE dash[d].sheet[x]
    BY <1>2, <2>2, SheetTurns
  <2> QED BY <1>1, <1>3, <2>2, <2>3 DEF SheetFields
<1>11. ASSUME NEW page, page.producer = dash[d].producer, page.sheet = s
       PROVE  SheetIsSo(page) /\ WireIsSo(page, wire)
  <2>1. RowIs(page, w) /\ OfPage(page, w) /\ page.sheet.pending = w /\ page.sheet.step = "code"
    BY <1>4, <1>10, <1>11 DEF RowIs, OfPage
  <2>2. SheetIsSo(page)
    BY <2>1 DEF SheetIsSo
  <2>3. WireIsSo(page, wire)
    BY <1>4, <1>6, <2>1 DEF WireIsSo
  <2> QED BY <2>2, <2>3
<1>12. dash[d].sheet.amount \in Nat /\ dash[d].sheet.sent \in Nat
  BY <1>2 DEF PageShape
<1> QED BY <1>1, <1>2, <1>8, <1>9, <1>10, <1>11, <1>12, SheetMoves

\* The user hears of what was done, or does not.
LEMMA LoseAnswerKeeps ==
  ASSUME DeskInv, NEW d \in Dashboards, LoseAnswer(d)
  PROVE  PagesInv'
<1>1. dash[d].wire # NoWire /\ UNCHANGED producerVars
  BY DEF LoseAnswer
<1>2. /\ PagesInv /\ dash[d].producer \in Producers /\ PageShape(dash[d]) /\ SheetIsSo(dash[d])
  BY <1>1, OpenedPages
<1>3. PICK s : s = IF dash[d].sheet.step = "closed" THEN ClosedSheet ELSE Sheet(d, [busy |-> FALSE])
  OBVIOUS
<1>4. PICK f : f = [wire |-> NoWire, sheet |-> s]
  OBVIOUS
<1>5. Page(d, f) /\ DOMAIN f = {"sheet", "wire"} /\ f["sheet"] = s /\ f["wire"] = NoWire
  BY <1>3, <1>4 DEF LoseAnswer
<1>6. /\ DOMAIN s = SheetFields /\ s.sent \in Nat /\ s.amount \in Nat
      /\ \/ s.step = "closed"
         \/ s.sent = dash[d].sheet.sent /\ s.step = dash[d].sheet.step
            /\ s.pending = dash[d].sheet.pending
  <2>1. CASE s = ClosedSheet
    BY <2>1 DEF ClosedSheet, SheetFields
  <2>2. CASE s = Sheet(d, [busy |-> FALSE])
    <3>1. PICK g : g = [busy |-> FALSE]
      OBVIOUS
    <3>2. s = Sheet(d, g) /\ DOMAIN g = {"busy"}
      BY <2>2, <3>1
    <3>3. /\ DOMAIN s = SheetFields
          /\ \A x \in SheetFields : s[x] = IF x \in DOMAIN g THEN g[x] ELSE dash[d].sheet[x]
      BY <1>2, <3>2, SheetTurns
    <3> QED BY <1>2, <3>2, <3>3 DEF SheetFields, PageShape
  <2> QED BY <1>3, <2>1, <2>2
<1>7. ASSUME NEW page, page.producer = dash[d].producer, page.sheet = s
      PROVE  SheetIsSo(page) /\ WireIsSo(page, NoWire)
  BY <1>2, <1>6, <1>7 DEF SheetIsSo, RowIs, OfPage, WireIsSo
<1> QED BY <1>1, <1>2, <1>5, <1>6, <1>7, SheetMoves

\* What an answer that went well tells an open sheet.
LEMMA AnswersAreSo ==
  ASSUME NEW page, NEW wire, WireIsSo(page, wire), wire.at = "answered", wire.ok
  PROVE  /\ wire.op = "confirm" =>
              /\ DataIsSo(page.producer, wire.data)
              /\ Opened(page) => /\ RowIs(page, page.sheet.pending) /\ Queued(page.sheet.pending)
         /\ wire.op # "confirm" => wire.op = "request" /\ (Opened(page) => RowIs(page, wire.id))
BY DEF WireIsSo, NoWire, Failure, Underway, ReadingIsSo, ReplyIsSo

\* The sheet goes on to the code of the row it asked for, or to the end.
LEMMA TakeAnswerKeeps ==
  ASSUME DeskInv, NEW d \in Dashboards, TakeAnswer(d)
  PROVE  PagesInv'
<1>1. dash[d].wire.at = "answered" /\ dash[d].wire # NoWire /\ UNCHANGED producerVars
  BY DEF TakeAnswer, NoWire
<1>2. /\ PagesInv /\ dash[d].producer \in Producers /\ PageShape(dash[d]) /\ PageReads(dash[d])
      /\ SheetIsSo(dash[d]) /\ WireIsSo(dash[d], dash[d].wire)
  BY <1>1, OpenedPages
<1>3. PICK r : r = dash[d].wire
  OBVIOUS
<1>4. PICK data : data = IF r.ok /\ r.op = "confirm" THEN r.data ELSE dash[d].data
  OBVIOUS
<1>5. PICK s : s = IF ~(dash[d].sheet.step # "closed") THEN ClosedSheet
                   ELSE IF ~r.ok THEN Sheet(d, [busy |-> FALSE])
                   ELSE IF r.op = "confirm" THEN Sheet(d, [busy |-> FALSE, step |-> "done"])
                   ELSE Sheet(d, [busy |-> FALSE, step |-> "code", pending |-> r.id])
  OBVIOUS
<1>0. PICK told : told = IF r.ok /\ r.op = "confirm" THEN r.data.told ELSE dash[d].told
  OBVIOUS
<1>6. PICK f : f = [wire |-> NoWire, data |-> data, told |-> told, sheet |-> s]
  OBVIOUS
<1>7. Page(d, f)
  BY <1>0, <1>3, <1>4, <1>5, <1>6 DEF TakeAnswer
<1>8. /\ DOMAIN f = {"sheet", "wire", "data", "told"} /\ f["sheet"] = s /\ f["wire"] = NoWire
      /\ f["data"] = data /\ f["told"] = told
  BY <1>6
<1>9. r.ok => /\ r.op = "confirm" =>
                   /\ DataIsSo(dash[d].producer, r.data)
                   /\ Opened(dash[d]) => /\ RowIs(dash[d], dash[d].sheet.pending)
                                         /\ Queued(dash[d].sheet.pending)
              /\ r.op # "confirm" => (Opened(dash[d]) => RowIs(dash[d], r.id))
  BY <1>1, <1>2, <1>3, AnswersAreSo
<1>10. /\ data # Blank => DataIsSo(dash[d].producer, data)
       /\ ToldOf(dash[d].producer, told)
  BY <1>0, <1>2, <1>4, <1>9 DEF PageReads, DataIsSo
<1>11. DOMAIN s = SheetFields /\ s.sent \in Nat /\ s.amount \in Nat
       /\ \/ s.step = "closed"
          \/ /\ Opened(dash[d]) /\ s.sent = dash[d].sheet.sent
             /\ \/ s.step = dash[d].sheet.step /\ s.pending = dash[d].sheet.pending
                \/ /\ s.step = "done" /\ s.pending = dash[d].sheet.pending
                   /\ r.ok /\ r.op = "confirm"
                \/ s.step = "code" /\ s.pending = r.id /\ r.ok /\ r.op # "confirm"
  <2>1. CASE ~Opened(dash[d])
    BY <1>5, <2>1 DEF ClosedSheet, SheetFields, Opened
  <2>2. ASSUME NEW g, s = Sheet(d, g), DOMAIN g \subseteq SheetFields,
               "sent" \notin DOMAIN g, "amount" \notin DOMAIN g
        PROVE  /\ DOMAIN s = SheetFields /\ s.sent \in Nat /\ s.amount \in Nat
               /\ s.sent = dash[d].sheet.sent
               /\ s.step = IF "step" \in DOMAIN g THEN g["step"] ELSE dash[d].sheet.step
               /\ s.pending = IF "pending" \in DOMAIN g THEN g["pending"] ELSE dash[d].sheet.pending
    <3>1. /\ DOMAIN s = SheetFields
          /\ \A x \in SheetFields : s[x] = IF x \in DOMAIN g THEN g[x] ELSE dash[d].sheet[x]
      BY <1>2, <2>2, SheetTurns
    <3> QED BY <1>2, <2>2, <3>1 DEF SheetFields, PageShape
  <2>3. CASE Opened(dash[d]) /\ ~r.ok
    <3>1. PICK g : g = [busy |-> FALSE]
      OBVIOUS
    <3>2. s = Sheet(d, g) /\ DOMAIN g = {"busy"} /\ DOMAIN g \subseteq SheetFields
      BY <1>5, <2>3, <3>1 DEF Opened, SheetFields
    <3> QED BY <2>2, <2>3, <3>2
  <2>4. CASE Opened(dash[d]) /\ r.ok /\ r.op = "confirm"
    <3>1. PICK g : g = [busy |-> FALSE, step |-> "done"]
      OBVIOUS
    <3>2. /\ s = Sheet(d, g) /\ DOMAIN g = {"busy", "step"} /\ DOMAIN g \subseteq SheetFields
          /\ g["step"] = "done"
      BY <1>5, <2>4, <3>1 DEF Opened, SheetFields
    <3> QED BY <2>2, <2>4, <3>2
  <2>5. CASE Opened(dash[d]) /\ r.ok /\ r.op # "confirm"
    <3>1. PICK g : g = [busy |-> FALSE, step |-> "code", pending |-> r.id]
      OBVIOUS
    <3>2. /\ s = Sheet(d, g) /\ DOMAIN g = {"busy", "step", "pending"}
          /\ DOMAIN g \subseteq SheetFields
          /\ g["step"] = "code" /\ g["pending"] = r.id
      BY <1>5, <2>5, <3>1 DEF Opened, SheetFields
    <3> QED BY <2>2, <2>5, <3>2
  <2> QED BY <2>1, <2>3, <2>4, <2>5
<1>12. ASSUME NEW page, page.producer = dash[d].producer, page.sheet = s
       PROVE  SheetIsSo(page) /\ WireIsSo(page, NoWire)
  <2>1. WireIsSo(page, NoWire)
    BY DEF WireIsSo
  <2>2. s.step # "closed" => \A w : RowIs(dash[d], w) <=> RowIs(page, w)
    BY <1>11, <1>12 DEF RowIs, OfPage
  <2>3. SheetIsSo(page)
    BY <1>2, <1>9, <1>11, <1>12, <2>2 DEF SheetIsSo
  <2> QED BY <2>1, <2>3
<1> QED BY <1>1, <1>2, <1>7, <1>8, <1>10, <1>11, <1>12, DataMoves

\* What a page that waits for a tab, or to be taken, has sent.
LEMMA WiresAreSo ==
  ASSUME NEW page, NEW wire, WireIsSo(page, wire)
  PROVE  /\ wire.at = "served" => /\ ~Opened(page) \/ ServedAs(page, wire.slot)
                                  /\ ServedFor(page, wire.slot)
         /\ wire.at = "sent" /\ wire.op = "request" =>
              wire.amount \in Positive /\ (Opened(page) => wire.amount = page.sheet.sent)
         /\ wire.at = "sent" /\ wire.op = "confirm" =>
              \E w \in Withdrawals, right \in BOOLEAN :
                /\ wire = [at |-> "sent", op |-> "confirm", id |-> w, right |-> right]
                /\ OfPage(page, w) /\ (Opened(page) => w = page.sheet.pending /\ RowIs(page, w))
         /\ wire.at = "reading" =>
              /\ Underway(page.producer, "confirm", wire) /\ ReadingIsSo(page.producer, wire)
              /\ Opened(page) => RowIs(page, page.sheet.pending) /\ Queued(page.sheet.pending)
<1>1. CASE wire = NoWire \/ wire = Failure
  BY <1>1 DEF NoWire, Failure
<1>2. CASE \E n \in Positive : /\ wire = [at |-> "sent", op |-> "request", amount |-> n]
                               /\ Opened(page) => n = page.sheet.sent
  BY <1>2
<1>3. CASE \E w \in Withdrawals, right \in BOOLEAN :
             /\ wire = [at |-> "sent", op |-> "confirm", id |-> w, right |-> right]
             /\ OfPage(page, w)
             /\ Opened(page) => w = page.sheet.pending /\ RowIs(page, w)
  <2>1. wire.at = "sent" /\ wire.op = "confirm"
    BY <1>3
  <2> QED BY <1>3, <2>1
<1>4. CASE \E c \in Tabs : /\ wire = [at |-> "served", slot |-> c] /\ ServedFor(page, c)
                           /\ Opened(page) => ServedAs(page, c)
  BY <1>4
<1>5. CASE \E w : /\ wire = [at |-> "answered", ok |-> TRUE, op |-> "request", id |-> w]
                  /\ Opened(page) => RowIs(page, w)
  <2>1. wire.at = "answered"
    BY <1>5
  <2> QED BY <2>1
<1>6. CASE /\ Underway(page.producer, "confirm", wire)
           /\ Opened(page) => RowIs(page, page.sheet.pending) /\ Queued(page.sheet.pending)
  <2>1. wire.at \in {"reading", "answered"}
        /\ (wire.at = "reading" => ReadingIsSo(page.producer, wire))
    BY <1>6 DEF Underway, ReadingIsSo, ReplyIsSo
  <2> QED BY <1>6, <2>1
<1> QED BY <1>1, <1>2, <1>3, <1>4, <1>5, <1>6 DEF WireIsSo

\* A dashboard that is read goes on, or is answered.
LEMMA ReadKeeps ==
  ASSUME DeskInv, NEW d \in Dashboards, NEW x \in {"load", "wire"}, dash[d][x].at = "reading",
         UNCHANGED producerVars, NEW y, y.op = dash[d][x].op,
         ReadingIsSo(dash[d].producer, y) \/ ReplyIsSo(dash[d].producer, y),
         NEW f, f = [z \in {x} |-> y], Page(d, f)
  PROVE  PagesInv'
<1>1. dash[d].producer \in Producers /\ PageShape(dash[d]) /\ PageReads(dash[d]) /\ PagesInv
      /\ SheetIsSo(dash[d]) /\ WireIsSo(dash[d], dash[d].wire)
  BY PageIs DEF DeskInv, NoWire
<1>2. DOMAIN f = {x} /\ f[x] = y
  OBVIOUS
<1>3. CASE x = "load"
  <2>1. y.op = "load"
    BY <1>1, <1>3 DEF PageReads, LoadIsSo, NoWire, Failure, Underway
  <2>2. LoadIsSo(dash[d].producer, f["load"])
    BY <1>2, <1>3, <2>1 DEF LoadIsSo, Underway
  <2> QED BY <1>1, <1>2, <1>3, <2>2, LoadMoves
<1>4. CASE x = "wire"
  <2>1. /\ y.op = "confirm"
        /\ Opened(dash[d]) => /\ RowIs(dash[d], dash[d].sheet.pending)
                              /\ Queued(dash[d].sheet.pending)
    BY <1>1, <1>4, WiresAreSo DEF Underway
  <2>2. ASSUME NEW page, page.producer = dash[d].producer, page.sheet = dash[d].sheet
        PROVE  SheetIsSo(page) /\ WireIsSo(page, y)
    <3>1. \A w : RowIs(dash[d], w) <=> RowIs(page, w)
      BY <2>2 DEF RowIs, OfPage
    <3>2. SheetIsSo(page)
      BY <1>1, <2>2, <3>1 DEF SheetIsSo
    <3>3. Opened(page) => RowIs(page, page.sheet.pending) /\ Queued(page.sheet.pending)
      BY <2>1, <2>2, <3>1 DEF Opened
    <3>4. Underway(page.producer, "confirm", y)
      BY <2>1, <2>2 DEF Underway
    <3> QED BY <3>2, <3>3, <3>4 DEF WireIsSo
  <2>3. /\ DOMAIN dash[d].sheet = SheetFields
        /\ dash[d].sheet.amount \in Nat /\ dash[d].sheet.sent \in Nat
    BY <1>1 DEF PageShape
  <2>4. DOMAIN f = {"wire"} /\ f["wire"] = y
    BY <1>2, <1>4
  <2> QED BY <1>1, <2>2, <2>3, <2>4, SheetMoves
<1> QED BY <1>3, <1>4

\* What is being read of a dashboard.
LEMMA ReadingIs ==
  ASSUME DeskInv, NEW d \in Dashboards, NEW x \in {"load", "wire"}, dash[d][x].at = "reading"
  PROVE  dash[d].producer \in Producers /\ ReadingIsSo(dash[d].producer, dash[d][x])
<1>1. dash[d].producer \in Producers /\ PageReads(dash[d]) /\ WireIsSo(dash[d], dash[d].wire)
  BY PageIs DEF DeskInv, NoWire
<1>2. CASE x = "load"
  BY <1>1, <1>2 DEF PageReads, LoadIsSo, NoWire, Failure, Underway, ReplyIsSo
<1>3. CASE x = "wire"
  BY <1>1, <1>3, WiresAreSo
<1> QED BY <1>1, <1>2, <1>3

\* One of the queries of a dashboard.
LEMMA QueryKeeps ==
  ASSUME DeskInv, NEW d \in Dashboards, NEW x \in {"load", "wire"}, dash[d][x].at = "reading",
         NEW f, Read(d, x, f), DOMAIN f \subseteq {"links", "earned", "rows"},
         "links" \in DOMAIN f => LinksAreSo(f["links"]),
         "earned" \in DOMAIN f => f["earned"] \in Nat,
         "rows" \in DOMAIN f => RowsAreSo(dash[d][x].told, f["rows"])
  PROVE  PagesInv'
<1>1. PICK r : r = dash[d][x]
  OBVIOUS
<1>2. dash[d].producer \in Producers /\ ReadingIsSo(dash[d].producer, r)
  BY <1>1, ReadingIs
<1>3. PICK y : y = [z \in DOMAIN r |-> IF z \in DOMAIN f THEN f[z] ELSE r[z]]
  OBVIOUS
<1>4. PICK g : g = [z \in {x} |-> y]
  OBVIOUS
<1>5. Page(d, g) /\ UNCHANGED producerVars
  BY <1>1, <1>3, <1>4 DEF Read
<1>6. DOMAIN y = ReadingFields
      /\ \A z \in ReadingFields : y[z] = IF z \in DOMAIN f THEN f[z] ELSE r[z]
  BY <1>2, <1>3 DEF ReadingIsSo
<1>7. /\ y.at = r.at /\ y.op = r.op /\ y.told = r.told
      /\ y.links = IF "links" \in DOMAIN f THEN f["links"] ELSE r.links
      /\ y.earned = IF "earned" \in DOMAIN f THEN f["earned"] ELSE r.earned
      /\ y.rows = IF "rows" \in DOMAIN f THEN f["rows"] ELSE r.rows
  BY <1>6 DEF ReadingFields
<1>8. ReadingIsSo(dash[d].producer, y)
  BY <1>1, <1>2, <1>6, <1>7 DEF ReadingIsSo
<1> QED BY <1>1, <1>4, <1>5, <1>7, <1>8, ReadKeeps

\* Links, sales and withdrawals are read one after the other.
LEMMA QueriesKeep ==
  ASSUME DeskInv, NEW d \in Dashboards, NEW x \in {"load", "wire"},
         ReadLinks(d, x) \/ ReadSales(d, x) \/ ReadWithdrawals(d, x)
  PROVE  PagesInv'
<1>0. RowsInv /\ FiniteRows
  BY DEF DeskInv, ServiceInv, WithdrawalsInv
<1>1. dash[d][x].at = "reading"
  BY DEF ReadLinks, ReadSales, ReadWithdrawals
<1>2. dash[d].producer \in Producers /\ ReadingIsSo(dash[d].producer, dash[d][x])
  BY <1>1, ReadingIs
<1>3. CASE ReadLinks(d, x)
  <2>1. PICK f : f = [links |-> [g \in FilmsOf(dash[d].producer) |-> link[g].share]]
    OBVIOUS
  <2>2. DOMAIN f = {"links"} /\ LinksAreSo(f["links"])
    BY <1>0, <1>2, <2>1, LinksRead
  <2>3. Read(d, x, f)
    BY <1>3, <2>1 DEF ReadLinks
  <2> QED BY <1>1, <2>2, <2>3, QueryKeeps
<1>4. CASE ReadSales(d, x)
  <2>1. PICK f : f = [earned |-> EarnedBy(dash[d][x].links)]
    OBVIOUS
  <2>2. LinksAreSo(dash[d][x].links)
    BY <1>2, <1>4 DEF ReadSales, ReadingIsSo
  <2>3. DOMAIN f = {"earned"} /\ f["earned"] \in Nat
    BY <1>0, <2>1, <2>2, EarnedByNat
  <2>4. Read(d, x, f)
    BY <1>4, <2>1 DEF ReadSales
  <2> QED BY <1>1, <2>3, <2>4, QueryKeeps
<1>5. CASE ReadWithdrawals(d, x)
  <2>1. PICK rs \in Windows(dash[d].producer) : Read(d, x, [rows |-> [w \in rs |-> withdrawal[w]]])
    BY <1>5 DEF ReadWithdrawals
  <2>2. PICK f : f = [rows |-> [w \in rs |-> withdrawal[w]]]
    OBVIOUS
  <2>3. ToldOf(dash[d].producer, dash[d][x].told)
    BY <1>2 DEF ReadingIsSo
  <2>4. RowsAreSo(dash[d][x].told, [w \in rs |-> withdrawal[w]])
    BY <1>0, <2>3, WindowsCover
  <2>5. DOMAIN f = {"rows"} /\ RowsAreSo(dash[d][x].told, f["rows"])
    BY <2>2, <2>4
  <2>6. Read(d, x, f)
    BY <2>1, <2>2
  <2> QED BY <1>1, <2>5, <2>6, QueryKeeps
<1> QED BY <1>3, <1>4, <1>5

\* The answer is computed of what was read.
LEMMA AnswerDataKeeps ==
  ASSUME DeskInv, NEW d \in Dashboards, NEW x \in {"load", "wire"}, Answer(d, x)
  PROVE  PagesInv'
<1>1. PICK r : r = dash[d][x]
  OBVIOUS
<1>2. r.at = "reading" /\ r.earned # Blank /\ r.rows # Blank /\ UNCHANGED producerVars
  BY <1>1 DEF Answer
<1>3. dash[d].producer \in Producers /\ ReadingIsSo(dash[d].producer, r)
  BY <1>1, <1>2, ReadingIs
<1>4. PICK taken : taken = SumFunction([w \in SpokenFor(r.rows) |-> r.rows[w].amount])
  OBVIOUS
<1>5. PICK data : data = [balance |-> Left(r.earned, taken), earned |-> r.earned,
                          rows |-> DOMAIN r.rows, told |-> r.told]
  OBVIOUS
<1>6. DataIsSo(dash[d].producer, data)
  BY <1>2, <1>3, <1>4, <1>5, AnswerComputed DEF DeskInv, ServiceInv, WithdrawalsInv
<1>7. PICK y : y = [at |-> "answered", ok |-> TRUE, op |-> r.op, data |-> data]
  OBVIOUS
<1>8. PICK f : f = [z \in {x} |-> y]
  OBVIOUS
<1>9. Page(d, f)
  BY <1>1, <1>4, <1>5, <1>7, <1>8 DEF Answer
<1>10. y.op = dash[d][x].op /\ ReplyIsSo(dash[d].producer, y)
  BY <1>1, <1>6, <1>7 DEF ReplyIsSo
<1> QED BY <1>1, <1>2, <1>8, <1>9, <1>10, ReadKeeps

\* Pages that stay as they are go on being so, and so do those that have turned.
LEMMA PagesGoOn ==
  ASSUME PagesInv, Stays, dash' = [e \in Dashboards |-> dash'[e]],
         \A e \in Dashboards :
           \/ /\ dash'[e] = dash[e]
              /\ \A c \in Tabs : dash[e].wire = [at |-> "served", slot |-> c] => TabGoesOn(c)
           \/ \E page : dash'[e] = page /\ PageIsSo(page)'
  PROVE  PagesInv'
<1>1. ASSUME NEW e \in Dashboards, NEW next, next = dash'[e] PROVE PageIsSo(next)'
  <2>1. CASE /\ dash'[e] = dash[e]
             /\ \A c \in Tabs : dash[e].wire = [at |-> "served", slot |-> c] => TabGoesOn(c)
    <3>1. next = dash[e] /\ PageIsSo(next)
      BY <1>1, <2>1 DEF PagesInv
    <3> QED BY <2>1, <3>1, PageStays
  <2>2. CASE \E page : dash'[e] = page /\ PageIsSo(page)'
    <3>1. PICK page : dash'[e] = page /\ PageIsSo(page)'
      BY <2>2
    <3>2. page = next
      BY <1>1, <3>1
    <3> QED BY <3>1, <3>2
  <2> QED BY <2>1, <2>2
<1> QED BY <1>1 DEF PagesInv

\* A page whose request is taken, answered or refused changes nothing else.
LEMMA WireTurns ==
  ASSUME Stays, NEW old, PageShape(old), PageReads(old), SheetIsSo(old), NEW page, NEW wire,
         DOMAIN page = PageFields, page.wire = wire, page.producer = old.producer,
         page.sheet = old.sheet, page.data = old.data, page.told = old.told, page.load = old.load,
         old.producer \in Producers, WireIsSo(page, wire)'
  PROVE  PageIsSo(page)'
<1>1. PageShape(page)'
  BY DEF PageShape
<1>2. SheetIsSo(page)
  BY DEF SheetIsSo, RowIs, OfPage
<1>3. PageReads(page)
  BY DEF PageReads
<1>4. SheetIsSo(page)' /\ PageReads(page)'
  BY <1>2, <1>3, SheetStays, ReadsStay
<1> QED BY <1>1, <1>4 DEF PageIsSo

\* The pages whose tab ends hear of it, and the others wait on.
LEMMA RepliesKeep ==
  ASSUME PagesInv, Stays, NEW c \in Tabs, NEW answers,
         dash' = [e \in Dashboards |->
                    IF dash[e].wire.at = "served" /\ dash[e].wire.slot = c
                    THEN [dash[e] EXCEPT !.wire = answers[e]] ELSE dash[e]],
         \A k \in Tabs : k # c => TabGoesOn(k),
         \A e \in Dashboards : \A page :
           /\ page.producer = dash[e].producer /\ ToldOf(page.producer, dash[e].told)
           /\ ServedFor(page, c) /\ (~Opened(page) \/ ServedAs(page, c))
           => WireIsSo(page, answers[e])'
  PROVE  PagesInv'
<1>1. /\ dash' = [e \in Dashboards |-> dash'[e]]
      /\ \A e \in Dashboards :
           dash'[e] = IF dash[e].wire.at = "served" /\ dash[e].wire.slot = c
                      THEN [dash[e] EXCEPT !.wire = answers[e]] ELSE dash[e]
  OBVIOUS
<1>2. ASSUME NEW e \in Dashboards, dash[e].wire.at = "served", dash[e].wire.slot = c
      PROVE  \E page : dash'[e] = page /\ PageIsSo(page)'
  <2>1. /\ PageShape(dash[e]) /\ PageReads(dash[e]) /\ SheetIsSo(dash[e])
        /\ WireIsSo(dash[e], dash[e].wire) /\ dash[e].producer \in Producers
    <3>1. dash[e].wire # NoWire
      BY <1>2 DEF NoWire
    <3> QED BY <3>1, PageIs
  <2>2. (~Opened(dash[e]) \/ ServedAs(dash[e], c)) /\ ServedFor(dash[e], c)
    BY <1>2, <2>1, WiresAreSo
  <2>3. PICK page : page = [dash[e] EXCEPT !.wire = answers[e]]
    OBVIOUS
  <2>4. /\ DOMAIN page = PageFields /\ page.wire = answers[e] /\ page.producer = dash[e].producer
        /\ page.sheet = dash[e].sheet /\ page.data = dash[e].data /\ page.load = dash[e].load
        /\ page.told = dash[e].told
    BY <2>1, <2>3 DEF PageShape, PageFields
  <2>5. (~Opened(page) \/ ServedAs(page, c)) /\ ServedFor(page, c)
    BY <2>2, <2>4 DEF Opened, ServedAs, ServedFor, RowIs, OfPage
  <2>6. ToldOf(page.producer, dash[e].told)
    BY <2>1, <2>4 DEF PageReads
  <2>7. WireIsSo(page, answers[e])'
    BY <2>4, <2>5, <2>6
  <2>8. PICK wire : wire = answers[e]
    OBVIOUS
  <2>9. WireIsSo(page, wire)' /\ page.wire = wire
    BY <2>4, <2>7, <2>8
  <2>10. PageIsSo(page)'
    BY <2>1, <2>4, <2>9, WireTurns
  <2> QED BY <1>1, <1>2, <2>3, <2>10
<1>3. ASSUME NEW e \in Dashboards, ~(dash[e].wire.at = "served" /\ dash[e].wire.slot = c)
      PROVE  /\ dash'[e] = dash[e]
             /\ \A k \in Tabs : dash[e].wire = [at |-> "served", slot |-> k] => TabGoesOn(k)
  BY <1>1, <1>3
<1> QED BY <1>1, <1>2, <1>3, PagesGoOn

\* A reply is the same for every page that waits for the tab.
LEMMA ReplyKeeps ==
  ASSUME PagesInv, Stays, NEW c \in Tabs, NEW answer, Reply(c, answer),
         \A k \in Tabs : k # c => TabGoesOn(k),
         \A page : ~Opened(page) \/ ServedAs(page, c) => WireIsSo(page, answer)'
  PROVE  PagesInv'
<1>1. PICK answers : answers = [e \in Dashboards |-> answer]
  OBVIOUS
<1>2. \A e \in Dashboards : answers[e] = answer
  BY <1>1
<1>3. dash' = [e \in Dashboards |-> IF dash[e].wire.at = "served" /\ dash[e].wire.slot = c
                                    THEN [dash[e] EXCEPT !.wire = answers[e]] ELSE dash[e]]
  BY <1>2 DEF Reply
<1>4. ASSUME NEW e \in Dashboards, NEW page, ~Opened(page) \/ ServedAs(page, c)
      PROVE  WireIsSo(page, answers[e])'
  BY <1>2, <1>4
<1> QED BY <1>3, <1>4, RepliesKeep

\* The service takes a request of a page, or turns it away.
LEMMA AdmitKeeps ==
  ASSUME DeskInv, NEW d \in Dashboards, NEW c \in Tabs, Admit(d, c)
  PROVE  PagesInv' /\ [ServiceNext]_producerVars
<1>1. dash[d].wire.at = "sent" /\ dash[d].wire # NoWire
  BY DEF Admit, NoWire
<1>2. /\ PagesInv /\ dash[d].producer \in Producers /\ PageShape(dash[d]) /\ PageReads(dash[d])
      /\ SheetIsSo(dash[d]) /\ WireIsSo(dash[d], dash[d].wire)
  BY <1>1, OpenedPages
<1>3. PICK p \in Producers : p = dash[d].producer
  BY <1>2
<1>4. ASSUME NEW wire, Page(d, [wire |-> wire]), Stays, \A k \in Tabs : TabGoesOn(k),
             \A page : page.producer = p /\ page.sheet = dash[d].sheet => WireIsSo(page, wire)'
      PROVE  PagesInv'
  <2>1. PICK f : f = [wire |-> wire]
    OBVIOUS
  <2>2. DOMAIN f = {"wire"} /\ f["wire"] = wire /\ Page(d, f)
    BY <1>4, <2>1
  <2>3. PICK page : /\ dash' = [dash EXCEPT ![d] = page] /\ DOMAIN page = PageFields
                    /\ \A x \in PageFields : page[x] = IF x \in DOMAIN f THEN f[x] ELSE dash[d][x]
    BY <1>2, <2>2, PageTurns
  <2>4. /\ page.wire = wire /\ page.producer = p /\ page.sheet = dash[d].sheet
        /\ page.data = dash[d].data /\ page.load = dash[d].load /\ page.told = dash[d].told
    BY <1>3, <2>2, <2>3 DEF PageFields
  <2>5. PageIsSo(page)'
    BY <1>2, <1>3, <1>4, <2>3, <2>4, WireTurns
  <2>6. dash' = [e \in Dashboards |-> dash'[e]] /\ dash'[d] = page
        /\ \A e \in Dashboards : e # d => dash'[e] = dash[e]
    BY <1>2, <2>3 DEF PagesInv
  <2>7. \A e \in Dashboards :
          \/ /\ dash'[e] = dash[e]
             /\ \A k \in Tabs : dash[e].wire = [at |-> "served", slot |-> k] => TabGoesOn(k)
          \/ \E q : dash'[e] = q /\ PageIsSo(q)'
    BY <1>4, <2>5, <2>6
  <2> QED BY <1>2, <1>4, <2>6, <2>7, PagesGoOn
<1>6. tab = [k \in Tabs |-> tab[k]]
  BY DEF DeskInv, ServiceInv, WithdrawalsInv, TabsRemember
<1>7. PICK served : served = [at |-> "served", slot |-> c]
  OBVIOUS
<1>8. CASE /\ dash[d].wire.op = "request" /\ BeginRequest(c, p, dash[d].wire.amount)
           /\ Page(d, [wire |-> served])
  <2>1. PICK n \in Positive : /\ dash[d].wire.amount = n
                              /\ Opened(dash[d]) => n = dash[d].sheet.sent
    BY <1>1, <1>2, <1>8, WiresAreSo
  <2>2. BeginRequest(c, p, n)
    BY <1>8, <2>1
  <2>3. /\ withdrawal' = withdrawal /\ tab[c] = TabIdle
        /\ tab'[c].op = "counting" /\ tab'[c].producer = p /\ tab'[c].amount = n
        /\ \A k \in Tabs : k # c => tab'[k] = tab[k]
    BY <1>6, <2>2 DEF BeginRequest
  <2>4. \A k \in Tabs : TabGoesOn(k)
    BY <2>3 DEF TabGoesOn
  <2>5. ASSUME NEW page, page.producer = p, page.sheet = dash[d].sheet
        PROVE  WireIsSo(page, served)'
    <3>1. ServedFor(page, c)'
      BY <2>3 DEF ServedFor, TabIdle
    <3>2. Opened(page) => ServedAs(page, c)'
      BY <2>1, <2>3, <2>5 DEF ServedAs, InRequest, Opened
    <3> QED BY <1>7, <3>1, <3>2 DEF WireIsSo, Opened
  <2>6. ServiceNext
    BY <1>3, <2>1, <2>2, Zenon DEF ServiceNext
  <2>7. Stays
    BY <2>3, RowsRest
  <2> QED BY <1>4, <1>8, <2>4, <2>5, <2>6, <2>7
<1>9. CASE /\ dash[d].wire.op = "confirm" /\ BeginConfirm(c, dash[d].wire.id, dash[d].wire.right)
           /\ Page(d, [wire |-> served])
  <2>1. PICK w \in Withdrawals, right \in BOOLEAN :
          /\ dash[d].wire = [at |-> "sent", op |-> "confirm", id |-> w, right |-> right]
          /\ OfPage(dash[d], w)
          /\ (Opened(dash[d]) => w = dash[d].sheet.pending /\ RowIs(dash[d], w))
    BY <1>1, <1>2, <1>9, WiresAreSo
  <2>2. BeginConfirm(c, w, right)
    BY <1>9, <2>1
  <2>3. /\ withdrawal' = withdrawal /\ tab[c] = TabIdle
        /\ tab'[c].op \in {"confirm", "expire", "wrong"} /\ tab'[c].id = w
        /\ \A k \in Tabs : k # c => tab'[k] = tab[k]
    BY <1>6, <2>2 DEF BeginConfirm
  <2>4. \A k \in Tabs : TabGoesOn(k)
    BY <2>3 DEF TabGoesOn
  <2>5. ASSUME NEW page, page.producer = p, page.sheet = dash[d].sheet
        PROVE  WireIsSo(page, served)'
    <3>1. OfPage(page, w)' /\ (Opened(page) => w = page.sheet.pending /\ RowIs(page, w)')
      BY <1>3, <2>1, <2>3, <2>5 DEF RowIs, OfPage, Known, Opened
    <3>2. ServedFor(page, c)'
      BY <2>3, <3>1 DEF ServedFor, TabIdle
    <3>3. Opened(page) => ServedAs(page, c)'
      BY <2>3, <3>1 DEF ServedAs
    <3> QED BY <1>7, <3>2, <3>3 DEF WireIsSo, Opened
  <2>6. ServiceNext
    BY <2>2, Zenon DEF ServiceNext
  <2>7. Stays
    BY <2>3, RowsRest
  <2> QED BY <1>4, <1>9, <2>4, <2>5, <2>6, <2>7
<1>10. CASE Page(d, [wire |-> Failure]) /\ UNCHANGED producerVars
  <2>1. \A k \in Tabs : TabGoesOn(k)
    BY <1>10 DEF producerVars, TabGoesOn
  <2>2. \A page : WireIsSo(page, Failure)'
    BY DEF WireIsSo
  <2>3. Stays
    BY <1>10, RowsRest DEF producerVars
  <2> QED BY <1>4, <1>10, <2>1, <2>2, <2>3
<1> QED BY <1>3, <1>7, <1>8, <1>9, <1>10, Zenon DEF Admit

\* A tab that ends leaves the others as they are.
LEMMA OthersGoOn ==
  ASSUME ServiceInv, NEW c \in Tabs, tab' = [tab EXCEPT ![c] = TabIdle]
  PROVE  \A k \in Tabs : k # c => TabGoesOn(k)
<1>1. tab = [k \in Tabs |-> tab[k]]
  BY DEF ServiceInv, WithdrawalsInv, TabsRemember
<1> QED BY <1>1 DEF TabGoesOn

\* A request that is committed: its row is what the sheet sent.
LEMMA EndRequestKeeps ==
  ASSUME DeskInv, NEW c \in Tabs, NEW id \in Withdrawals, NEW sent \in BOOLEAN,
         EndRequest(c, id, sent)
  PROVE  PagesInv' /\ ServiceNext
<1>0. ServiceInv /\ PagesInv /\ CommitRequest(c, id)
  BY DEF DeskInv, EndRequest
<1>9. ServiceNext
  BY <1>0, Zenon DEF ServiceNext
<1>1. /\ Stays
      /\ withdrawal'[id].producer = tab[c].producer /\ withdrawal'[id].amount = tab[c].amount
  BY <1>0, <1>9, RequestEnds, ServiceStays
<1>2. /\ withdrawal'[id].status = "AWAITING_CONFIRMATION" /\ tab[c].op = "creating"
      /\ tab' = [tab EXCEPT ![c] = TabIdle]
  BY <1>0 DEF CommitRequest
<1>3. Known(id)'
  BY <1>2 DEF Known, NoWithdrawal
<1>4. PICK went : went = [at |-> "answered", ok |-> TRUE, op |-> "request", id |-> id]
  OBVIOUS
<1>5. PICK answer : Reply(c, answer) /\ (answer = went \/ answer = Failure)
  BY <1>4, Zenon DEF EndRequest
<1>6. ASSUME NEW page, ~Opened(page) \/ ServedAs(page, c)
      PROVE  WireIsSo(page, answer)'
  <2>1. Opened(page) => RowIs(page, id)'
    BY <1>1, <1>2, <1>3, <1>6 DEF ServedAs, RowIs, OfPage
  <2>2. WireIsSo(page, went)'
    BY <1>4, <2>1 DEF WireIsSo, Opened
  <2>3. WireIsSo(page, Failure)'
    BY DEF WireIsSo
  <2> QED BY <1>5, <2>2, <2>3
<1>7. \A k \in Tabs : k # c => TabGoesOn(k)
  BY <1>0, <1>2, OthersGoOn
<1>8. PagesInv'
  BY <1>0, <1>1, <1>5, <1>6, <1>7, ReplyKeeps
<1> QED BY <1>8, <1>9

\* A code that is confirmed, or turned down: a row in the queue, of which the page is
\* told before the dashboard is read.
LEMMA EndConfirmKeeps ==
  ASSUME DeskInv, NEW c \in Tabs, EndConfirm(c)
  PROVE  PagesInv' /\ ServiceNext
<1>0. ServiceInv /\ PagesInv /\ WriteConfirm(c) /\ tab[c].op \in {"confirm", "expire"}
  BY DEF DeskInv, EndConfirm
<1>1. ServiceNext
  BY <1>0, Zenon DEF ServiceNext
<1>2. Stays /\ ServiceInv'
  BY <1>0, <1>1, ServiceStays
<1>3. PICK w : w = tab[c].id
  OBVIOUS
<1>4. w \in Existing /\ withdrawal[w].producer \in Producers
  <2>1. Known(w) /\ RowsInv
    BY <1>0, <1>3 DEF ServiceInv, WithdrawalsInv, TabsRemember
  <2>2. withdrawal[w] \in PayoutRow
    BY <2>1, RowFields
  <2> QED BY <2>1, <2>2 DEF Known, Existing, PayoutRow
<1>5. Confirmed(c) => withdrawal'[w].status = "REQUESTED"
  <2> SUFFICES ASSUME Confirmed(c) PROVE withdrawal'[w].status = "REQUESTED"
    OBVIOUS
  <2>1. withdrawal' = [withdrawal EXCEPT ![w].status = "REQUESTED"]
    BY <1>0, <1>3 DEF Confirmed, WriteConfirm
  <2>2. withdrawal = [v \in Withdrawals |-> withdrawal[v]] /\ withdrawal[w] \in PayoutRow
    BY <1>0, <1>4, HeldRows DEF ServiceInv, WithdrawalsInv, RowsInv
  <2>3. PICK row \in PayoutRow : row = withdrawal[w]
    BY <2>2
  <2>4. withdrawal'[w] = [row EXCEPT !.status = "REQUESTED"]
    BY <1>4, <2>1, <2>2, <2>3 DEF Existing
  <2> QED BY <2>3, <2>4 DEF PayoutRow
<1>6. PICK answers : answers = [e \in Dashboards |->
        IF Confirmed(c) THEN Reading("confirm", dash[e].told \cup {w}) ELSE Failure]
  OBVIOUS
<1>7. \A e \in Dashboards :
        answers[e] = IF Confirmed(c) THEN Reading("confirm", dash[e].told \cup {w}) ELSE Failure
  BY <1>6
<1>8. dash' = [e \in Dashboards |-> IF dash[e].wire.at = "served" /\ dash[e].wire.slot = c
                                    THEN [dash[e] EXCEPT !.wire = answers[e]] ELSE dash[e]]
  BY <1>3, <1>7 DEF EndConfirm
<1>9. ASSUME NEW e \in Dashboards, NEW page,
             page.producer = dash[e].producer, ToldOf(page.producer, dash[e].told),
             ServedFor(page, c), ~Opened(page) \/ ServedAs(page, c)
      PROVE  WireIsSo(page, answers[e])'
  <2>1. CASE ~Confirmed(c)
    BY <1>7, <2>1 DEF WireIsSo
  <2>2. CASE Confirmed(c)
    <3>1. PICK told : told = dash[e].told \cup {w}
      OBVIOUS
    <3>2. PICK wire : wire = Reading("confirm", told)
      OBVIOUS
    <3>3. withdrawal'[w].status = "REQUESTED" /\ tab[c].op = "confirm"
      BY <1>5, <2>2 DEF Confirmed
    <3>4. OfPage(page, w)'
      BY <1>2, <1>3, <1>9, <3>3, RowStays DEF ServedFor, Stays
    <3>5. ToldOf(page.producer, told)'
      <4>1. PICK before : before = dash[e].told
        OBVIOUS
      <4>2. ToldOf(page.producer, before)'
        BY <1>2, <1>9, <4>1, ToldOfStays
      <4>3. told = before \cup {w}
        BY <3>1, <4>1
      <4>4. w \in Existing' /\ withdrawal'[w].producer = page.producer
        BY <3>4 DEF OfPage, Known, Existing
      <4> QED BY <3>3, <4>2, <4>3, <4>4 DEF ToldOf
    <3>6. /\ DOMAIN wire = ReadingFields /\ wire.at = "reading" /\ wire.op = "confirm"
          /\ wire.told = told /\ wire.links = Blank /\ wire.earned = Blank /\ wire.rows = Blank
      BY <3>2 DEF Reading, ReadingFields
    <3>7. Underway(page.producer, "confirm", wire)'
      BY <3>5, <3>6 DEF Underway, ReadingIsSo
    <3>8. Opened(page) => RowIs(page, page.sheet.pending)' /\ Queued(page.sheet.pending)'
      <4> SUFFICES ASSUME Opened(page)
                   PROVE  RowIs(page, page.sheet.pending)' /\ Queued(page.sheet.pending)'
        OBVIOUS
      <4>1. page.sheet.pending = w /\ RowIs(page, w)
        BY <1>3, <1>9, <3>3 DEF ServedAs, InRequest
      <4>2. RowIs(page, w)'
        BY <1>2, <4>1, RowStays DEF Stays
      <4>3. Queued(w)'
        BY <3>3 DEF Queued
      <4> QED BY <4>1, <4>2, <4>3
    <3>9. WireIsSo(page, wire)'
      BY <3>7, <3>8 DEF WireIsSo, Opened
    <3>10. answers[e] = wire
      BY <1>7, <2>2, <3>1, <3>2
    <3> QED BY <3>9, <3>10
  <2> QED BY <2>1, <2>2
<1>10. \A k \in Tabs : k # c => TabGoesOn(k)
  BY <1>0, OthersGoOn DEF WriteConfirm
<1>11. PagesInv'
  BY <1>0, <1>2, <1>8, <1>9, <1>10, RepliesKeep
<1> QED BY <1>1, <1>11

\* A refusal tells nothing of a row.
LEMMA RefuseKeeps ==
  ASSUME DeskInv, NEW c \in Tabs, Refuse(c)
  PROVE  PagesInv' /\ ServiceNext
<1>0. /\ ServiceInv /\ PagesInv /\ Reply(c, Failure)
      /\ WriteWrongCode(c) \/ EndTab(c)
  BY DEF DeskInv, Refuse
<1>1. ServiceNext
  BY <1>0, Zenon DEF ServiceNext
<1>2. Stays
  BY <1>0, <1>1, ServiceStays
<1>3. \A k \in Tabs : k # c => TabGoesOn(k)
  BY <1>0, OthersGoOn DEF WriteWrongCode, EndTab
<1>4. \A page : WireIsSo(page, Failure)'
  BY DEF WireIsSo
<1>5. PagesInv'
  BY <1>0, <1>2, <1>3, <1>4, ReplyKeeps
<1> QED BY <1>1, <1>5

\* The pages of producers while the service is about something else.
LEMMA PagesWait ==
  ASSUME PagesInv, Stays, UNCHANGED dash, \A k \in Tabs : TabGoesOn(k)
  PROVE  PagesInv'
<1>1. dash' = [e \in Dashboards |-> dash'[e]]
  BY DEF PagesInv
<1> QED BY <1>1, PagesGoOn

\* The pages and the service they stand before go on together.
LEMMA DeskStep ==
  ASSUME DeskInv, [DeskNext]_<<producerVars, deskVars>>
  PROVE  DeskInv'
<1>0. ServiceInv /\ PagesInv /\ PanelsInv /\ RowsInv /\ WithdrawalsInv
  BY DEF DeskInv, ServiceInv, WithdrawalsInv
<1>1. PanelsInv'
  BY <1>0, PanelsStep
<1> DEFINE Goal == PagesInv' /\ [ServiceNext]_producerVars
<1>2. ASSUME UNCHANGED producerVars, UNCHANGED dash
      PROVE  Goal
  <2>1. Stays /\ \A k \in Tabs : TabGoesOn(k)
    BY <1>2, RowsRest DEF producerVars, TabGoesOn
  <2> QED BY <1>0, <1>2, <2>1, PagesWait
<1>3. ASSUME ServiceNext, UNCHANGED dash, UNCHANGED tab
      PROVE  Goal
  <2>1. Stays /\ \A k \in Tabs : TabGoesOn(k)
    BY <1>0, <1>3, ServiceStays DEF TabGoesOn
  <2> QED BY <1>0, <1>3, <2>1, PagesWait
<1>4. ASSUME LinksNext PROVE Goal
  <2>1. CASE \E a \in Panels, f \in Films, p \in Producers, share \in RevenueShares :
               SendLink(a, f, p, share)
    <3>1. ServiceNext /\ UNCHANGED <<dash, tab>>
      BY <2>1 DEF SendLink, ServiceNext, Assign
    <3> QED BY <1>3, <3>1
  <2>2. CASE ~\E a \in Panels, f \in Films, p \in Producers, share \in RevenueShares :
                SendLink(a, f, p, share)
    <3>1. UNCHANGED producerVars /\ UNCHANGED dash
      BY <1>4, <2>2 DEF LinksNext, ResendLink, MailLink, TakePanelAnswer, RegisterAccount
    <3> QED BY <1>2, <3>1
  <2> QED BY <2>1, <2>2
<1>5. ASSUME PageNext PROVE Goal
  <2>1. PagesInv'
    BY <1>5, OpenPageKeeps, RefreshKeeps, AdmitLoadKeeps, TakeLoadKeeps DEF PageNext
  <2>2. UNCHANGED producerVars
    BY <1>5, PagesAlone
  <2> QED BY <2>1, <2>2
<1>14. ASSUME ReadingNext PROVE Goal
  <2>1. PICK d \in Dashboards, x \in {"load", "wire"} :
          ReadLinks(d, x) \/ ReadSales(d, x) \/ ReadWithdrawals(d, x) \/ Answer(d, x)
    BY <1>14 DEF ReadingNext
  <2>2. PagesInv'
    BY <2>1, QueriesKeep, AnswerDataKeeps
  <2>3. ASSUME NEW f, Read(d, x, f) PROVE UNCHANGED producerVars
    BY <2>3 DEF Read
  <2>4. UNCHANGED producerVars
    BY <2>1, <2>3 DEF ReadLinks, ReadSales, ReadWithdrawals, Answer
  <2> QED BY <2>2, <2>4
<1>6. ASSUME SheetNext PROVE Goal
  <2>1. PICK d \in Dashboards :
          \/ OpenSheet(d) \/ CloseSheet(d) \/ SubmitDetails(d) \/ ChangeDetails(d)
          \/ TakeAnswer(d) \/ LoseAnswer(d)
          \/ \E n \in Amounts : TypeAmount(d, n)
          \/ \E right \in BOOLEAN : SubmitCode(d, right)
          \/ \E c \in Tabs : Admit(d, c)
    BY <1>6 DEF SheetNext
  <2>2. CASE \E c \in Tabs : Admit(d, c)
    BY <2>2, AdmitKeeps
  <2>3. CASE ~\E c \in Tabs : Admit(d, c)
    <3>1. PagesInv'
      BY <2>1, <2>3, OpenSheetKeeps, EditKeeps, SubmitDetailsKeeps, SubmitCodeKeeps,
         TakeAnswerKeeps, LoseAnswerKeeps
    <3>2. UNCHANGED producerVars
      BY <2>1, <2>3 DEF OpenSheet, CloseSheet, SubmitDetails, ChangeDetails, TakeAnswer, LoseAnswer,
                        TypeAmount, SubmitCode
    <3> QED BY <3>1, <3>2
  <2> QED BY <2>2, <2>3
<1>7. ASSUME ServingNext PROVE Goal
  <2>1. ASSUME NEW c \in Tabs, CountHolds(c), UNCHANGED deskVars
        PROVE  Goal
    <3>1. ServiceNext
      BY <2>1, Zenon DEF ServiceNext
    <3>2. Stays
      BY <1>0, <3>1, ServiceStays
    <3>3. \A k \in Tabs : TabGoesOn(k)
      BY <1>0, <2>1, RequestGoesOn DEF TabGoesOn
    <3> QED BY <1>0, <2>1, <3>1, <3>2, <3>3, PagesWait DEF deskVars
  <2>2. ASSUME NEW c \in Tabs, EndConfirm(c) PROVE Goal
    BY <2>2, EndConfirmKeeps
  <2>3. ASSUME NEW c \in Tabs, Refuse(c) PROVE Goal
    BY <2>3, RefuseKeeps
  <2>4. ASSUME NEW c \in Tabs, NEW id \in Withdrawals, NEW sent \in BOOLEAN, EndRequest(c, id, sent)
        PROVE  Goal
    BY <2>4, EndRequestKeeps
  <2> HIDE DEF Goal
  <2> QED BY <1>7, <2>1, <2>2, <2>3, <2>4 DEF ServingNext
<1>8. ASSUME PayoutsNext PROVE Goal
  <2>1. CASE \E w \in Withdrawals, verdict \in {"PAID", "REJECTED"} :
               Review(w, verdict) /\ UNCHANGED dash
    <3>1. ServiceNext /\ UNCHANGED dash /\ UNCHANGED tab
      BY <2>1 DEF ServiceNext, Review
    <3> QED BY <1>3, <3>1
  <2>2. CASE UNCHANGED producerVars /\ UNCHANGED dash
    BY <1>2, <2>2
  <2> QED BY <1>8, <2>1, <2>2, Zenon DEF PayoutsNext, ChooseFilter, TakeList, SubmitReview
<1>9. ASSUME \E f \in Films, s \in Stores : Sell(f, s), UNCHANGED deskVars
      PROVE  Goal
  <2>1. ServiceNext /\ UNCHANGED dash /\ UNCHANGED tab
    BY <1>9 DEF ServiceNext, Sell, deskVars
  <2> QED BY <1>3, <2>1
<1>10. ASSUME PassTime /\ UNCHANGED deskVars PROVE Goal
  <2>1. ServiceNext /\ UNCHANGED dash /\ UNCHANGED tab
    BY <1>10 DEF ServiceNext, PassTime, deskVars
  <2> QED BY <1>3, <2>1
<1>11. ASSUME UNCHANGED <<producerVars, deskVars>> PROVE Goal
  BY <1>2, <1>11 DEF deskVars
<1> HIDE DEF Goal
<1>12. Goal
  BY <1>4, <1>5, <1>6, <1>7, <1>8, <1>9, <1>10, <1>11, <1>14 DEF DeskNext
<1>13. ServiceInv'
  BY <1>0, <1>12, ServiceStep DEF Goal
<1> QED BY <1>1, <1>12, <1>13 DEF Goal, DeskInv

\* No link is out, and no page is open, at first.
LEMMA DeskInvInit == WithdrawalsInit /\ DeskInit => DeskInv
<1> SUFFICES ASSUME WithdrawalsInit, DeskInit PROVE DeskInv
  OBVIOUS
<1>1. ServiceInv
  BY ServiceInvInit
<1>2. PanelsInv
  BY DEF DeskInit, PanelsInv, PanelIsSo, PanelResting
<1>3. PICK page : page = ClosedPage
  OBVIOUS
<1>4. /\ DOMAIN page = PageFields /\ page.data = Blank /\ page.told = {} /\ page.load = NoWire
      /\ page.wire = NoWire /\ page.sheet = ClosedSheet
  BY <1>3 DEF ClosedPage, PageFields
<1>5. PageIsSo(page)
  BY <1>3, <1>4 DEF PageIsSo, PageShape, PageReads, ToldOf, LoadIsSo, SheetIsSo, WireIsSo,
                    ClosedSheet, SheetFields
<1>6. PagesInv
  BY <1>3, <1>5 DEF DeskInit, PagesInv
<1> QED BY <1>1, <1>2, <1>6 DEF DeskInv

\* What a page shows leaves out what the page was told of and still counts.
LEMMA PagesCount ==
  ASSUME DeskInv
  PROVE  BalanceCountsRequested
<1> SUFFICES ASSUME NEW d \in Dashboards, dash[d].data # Blank,
                    NEW page, page = dash[d].data
             PROVE  /\ page.balance <=
                         Left(page.earned, Amount({w \in page.told \cap page.rows : Charges(w)}))
                    /\ \A w \in page.told \ page.rows : Charges(w) =>
                         /\ Cardinality(page.rows) = ListedRows
                         /\ \A v \in page.rows : withdrawal[w].expiresAt <= withdrawal[v].expiresAt
  BY DEF BalanceCountsRequested
<1> DEFINE S == {w \in page.told \cap page.rows : Charges(w)}
<1>1. PICK p : DataIsSo(p, page)
  BY PageIs DEF DeskInv, PageReads
<1>2. PICK taken \in SUBSET page.rows : /\ page.balance = Left(page.earned, Amount(taken))
                                        /\ Covers(page.told, page.rows, taken)
  BY <1>1 DEF DataIsSo
<1>3. page.rows \subseteq Existing /\ page.earned \in Nat
  BY <1>1 DEF DataIsSo
<1>4. S \subseteq taken
  BY <1>2 DEF Covers, Unlisted
<1>5. Amount(S) \in Nat /\ Amount(taken) \in Nat /\ Amount(S) <= Amount(taken)
  <2>1. RowsInv /\ FiniteRows /\ taken \subseteq Existing /\ S \in SUBSET taken
    BY <1>3, <1>4 DEF DeskInv, ServiceInv, WithdrawalsInv
  <2> HIDE DEF S
  <2> QED BY <2>1, AmountOfPart
<1>6. page.balance <= Left(page.earned, Amount(S))
  <2> HIDE DEF S
  <2> QED BY <1>2, <1>3, <1>5 DEF Left
<1>7. \A w \in page.told \ page.rows : Charges(w) =>
        /\ Cardinality(page.rows) = ListedRows
        /\ \A v \in page.rows : withdrawal[w].expiresAt <= withdrawal[v].expiresAt
  BY <1>2 DEF Covers, Unlisted
<1> QED BY <1>6, <1>7

\* Producers and admins are told what is so, whatever requests, answers, codes and
\* links cross.  The balance on a page, as it was loaded or came with a confirmation,
\* leaves out all that is to be paid or was paid and of which the page had been told
\* before it asked, but for rows beyond the newest that are read; the sheet's code is
\* for the amount it sent, and a link that was sent is the last one (dashboard,
\* requestWithdrawal, confirmWithdrawal, resendLink).
THEOREM DeskAlwaysSaysWhatIs == DeskSpec => []DeskSaysWhatIs
<1>1. DeskInv /\ [DeskNext]_<<producerVars, deskVars>> => DeskInv'
  BY DeskStep
<1>2. DeskInv => DeskSaysWhatIs
  <2> SUFFICES ASSUME DeskInv PROVE DeskSaysWhatIs
    OBVIOUS
  <2>1. BalanceCountsRequested
    BY PagesCount
  <2>2. SheetSaysWhatIs
    BY DEF SheetSaysWhatIs, DeskInv, PagesInv, PageIsSo, SheetIsSo, RowIs, OfPage
  <2>3. ResentIsMailed
    <3> SUFFICES ASSUME NEW a \in Panels, panel[a].notice # Blank
                 PROVE  /\ panel[a].notice.op = "resend" =>
                             <<panel[a].notice.producer, panel[a].notice.key>> \in mailed
                        /\ key[panel[a].notice.producer] >= panel[a].notice.key
      BY DEF ResentIsMailed
    <3>1. PICK m : m = panel[a].notice
      OBVIOUS
    <3>2. Told(m)
      BY <3>1 DEF DeskInv, PanelsInv, PanelIsSo
    <3>3. key[m.producer] \in Nat
      BY <3>2 DEF Told, DeskInv, PanelsInv
    <3> QED BY <3>1, <3>2, <3>3 DEF Told
  <2> QED BY <2>1, <2>2, <2>3 DEF DeskSaysWhatIs
<1> QED BY DeskInvInit, <1>1, <1>2, PTL DEF DeskSpec


-----------------------------------------------------------------------------
(* HomeService.                                                            *)

\* The writes of each instant: they only grow, and none is of the future.
WritesInv ==
  /\ homeTime \in 0..MaxClock
  /\ written \in [0..MaxClock -> Nat]
  /\ \A i, j \in 0..MaxClock : i <= j => written[i] <= written[j]
  /\ \A i \in 0..MaxClock : i >= homeTime => written[i] = Writes

\* A computation that has read the sections read them after all that was written
\* before it began.
ReadWell(x) ==
  x.step # "sections" =>
    x.seen \in Nat /\ \A i \in 0..MaxClock : i < x.at => x.seen >= written[i]

BuildIsSo(x) ==
  x = Free \/ /\ x.at \in 0..homeTime /\ x.process \in Processes
              /\ x # Free /\ ReadWell(x)

\* What a process keeps is its own, and was read after it last dropped what it had.
KeptIsSo(p) ==
  cache[p] # 0 =>
    /\ cache[p] \in Builds /\ build[cache[p]] # Free /\ build[cache[p]].process = p
    /\ build[cache[p]].step # "sections" => build[cache[p]].seen >= dropped[p]

HomeInv ==
  /\ WritesInv
  /\ dropped \in [Processes -> Nat] /\ \A p \in Processes : dropped[p] <= Writes
  /\ build = [b \in Builds |-> build[b]] /\ \A b \in Builds : BuildIsSo(build[b])
  /\ cache = [p \in Processes |-> cache[p]] /\ \A p \in Processes : KeptIsSo(p)

\* Nothing is written or kept at first.
LEMMA HomeInvInit == HomeInit => HomeInv
<1> SUFFICES ASSUME HomeInit PROVE HomeInv
  OBVIOUS
<1>1. MaxClock \in Nat
  BY HomeConstants
<1>2. /\ homeTime = 0 /\ written = [i \in 0..MaxClock |-> 0]
      /\ dropped = [p \in Processes |-> 0] /\ build = [b \in Builds |-> Free]
      /\ cache = [p \in Processes |-> 0]
  BY DEF HomeInit
<1>3. WritesInv
  BY <1>1, <1>2 DEF WritesInv, Writes
<1> QED BY <1>1, <1>2, <1>3 DEF HomeInv, Writes, BuildIsSo, KeptIsSo

\* A commit is the last write of its instant.
LEMMA CommitGrows ==
  ASSUME WritesInv, Commit, UNCHANGED homeTime
  PROVE  /\ WritesInv' /\ Writes \in Nat /\ Writes' = Writes + 1
         /\ \A i \in 0..MaxClock : i < homeTime => written'[i] = written[i]
<1>1. MaxClock \in Nat /\ homeTime \in 0..MaxClock /\ Writes \in Nat
  BY HomeConstants DEF WritesInv, Writes
<1>2. PICK n \in Nat : n = Writes
  BY <1>1
<1>3. written' = [i \in 0..MaxClock |-> IF i >= homeTime THEN n + 1 ELSE written[i]]
  BY <1>2 DEF Commit
<1>4. Writes' = n + 1
  BY <1>1, <1>3 DEF Writes
<1>5. ASSUME NEW i \in 0..MaxClock PROVE written[i] <= n
  BY <1>1, <1>2, <1>5 DEF WritesInv, Writes
<1>6. \A i, j \in 0..MaxClock : i <= j => written'[i] <= written'[j]
  BY <1>1, <1>3, <1>5 DEF WritesInv
<1>7. written' \in [0..MaxClock -> Nat]
  BY <1>1, <1>3 DEF WritesInv
<1> QED BY <1>1, <1>2, <1>3, <1>4, <1>6, <1>7 DEF WritesInv

\* A write leaves what is read and kept as it is.
LEMMA CommitKeeps ==
  ASSUME HomeInv, Commit, UNCHANGED <<cache, build, homeTime, dropped>>
  PROVE  HomeInv'
<1>1. /\ WritesInv' /\ Writes \in Nat /\ Writes' = Writes + 1
      /\ \A i \in 0..MaxClock : i < homeTime => written'[i] = written[i]
  BY CommitGrows DEF HomeInv
<1>2. homeTime \in 0..MaxClock /\ MaxClock \in Nat
  BY HomeConstants DEF HomeInv, WritesInv
<1>3. ASSUME NEW x, BuildIsSo(x) PROVE BuildIsSo(x)'
  BY <1>1, <1>2, <1>3 DEF BuildIsSo, ReadWell
<1>4. ASSUME NEW b \in Builds PROVE BuildIsSo(build[b])'
  <2>1. PICK x : x = build[b]
    OBVIOUS
  <2>2. BuildIsSo(x)'
    BY <1>3, <2>1 DEF HomeInv
  <2> QED BY <2>1, <2>2
<1>5. \A p \in Processes : dropped'[p] <= Writes'
  BY <1>1 DEF HomeInv
<1>6. \A p \in Processes : KeptIsSo(p)'
  BY DEF HomeInv, KeptIsSo
<1> QED BY <1>1, <1>4, <1>5, <1>6 DEF HomeInv

\* One computation goes on, fails, or is the one a process now keeps: what is kept is so
\* after the step if it is so of the new computation.
LEMMA BuildMoves ==
  ASSUME HomeInv, UNCHANGED <<homeTime, written, dropped>>,
         cache' = [p \in Processes |-> cache'[p]],
         build' = [b \in Builds |-> build'[b]],
         \A b \in Builds : build'[b] = build[b] \/ BuildIsSo(build'[b]),
         \A p \in Processes : \/ KeptIsSo(p)'
                              \/ /\ cache'[p] = cache[p]
                                 /\ cache[p] # 0 => build'[cache[p]] = build[cache[p]]
  PROVE  HomeInv'
<1>1. WritesInv'
  BY DEF HomeInv, WritesInv, Writes
<1>2. ASSUME NEW b \in Builds PROVE BuildIsSo(build[b])'
  <2>1. BuildIsSo(build'[b])
    BY DEF HomeInv
  <2> QED BY <2>1 DEF BuildIsSo, ReadWell
<1>3. ASSUME NEW p \in Processes PROVE KeptIsSo(p)'
  BY DEF HomeInv, KeptIsSo
<1> QED BY <1>1, <1>2, <1>3 DEF HomeInv, Writes

\* A reader who finds nothing fresh begins a computation, and the process keeps it.
LEMMA BrowseKeeps ==
  ASSUME HomeInv, NEW p \in Processes, Browse(p)
  PROVE  HomeInv'
<1>1. PICK b \in Builds :
        /\ build[b] = Free
        /\ build' = [x \in Builds |->
             IF x = b THEN [step |-> "sections", at |-> homeTime, process |-> p]
             ELSE IF x = cache[p] /\ build[x].step = "ready" THEN Free ELSE build[x]]
        /\ cache' = [cache EXCEPT ![p] = b]
  BY DEF Browse, Snapshot
<1>2. PICK new : new = [step |-> "sections", at |-> homeTime, process |-> p]
  OBVIOUS
<1>3. homeTime \in 0..homeTime
  BY HomeConstants DEF HomeInv, WritesInv
<1>4. BuildIsSo(new) /\ new # Free /\ new.step = "sections" /\ new.process = p
  BY <1>2, <1>3 DEF BuildIsSo, ReadWell, Free
<1>5. /\ build'[b] = new /\ build' = [x \in Builds |-> build'[x]]
      /\ \A x \in Builds : x # b => \/ build'[x] = Free /\ x = cache[p]
                                    \/ build'[x] = build[x]
  BY <1>1, <1>2
<1>6. \A x \in Builds : build'[x] = build[x] \/ BuildIsSo(build'[x])
  BY <1>4, <1>5 DEF BuildIsSo
<1>7. cache' = [q \in Processes |-> IF q = p THEN b ELSE cache[q]]
  BY <1>1 DEF HomeInv
<1>8. KeptIsSo(p)'
  BY <1>4, <1>5, <1>7 DEF KeptIsSo
<1>9. ASSUME NEW q \in Processes, q # p, cache[q] # 0
      PROVE  build'[cache[q]] = build[cache[q]]
  <2>1. cache[q] \in Builds /\ build[cache[q]] # Free /\ build[cache[q]].process = q
    BY <1>9 DEF HomeInv, KeptIsSo
  <2>2. cache[q] # b
    BY <1>1, <2>1
  <2>3. cache[q] # cache[p]
    BY <1>9, <2>1 DEF HomeInv, KeptIsSo
  <2> QED BY <1>5, <2>1, <2>2, <2>3
<1>10. UNCHANGED <<homeTime, written, dropped>>
  BY DEF Browse
<1>11. \A q \in Processes : \/ KeptIsSo(q)'
                            \/ /\ cache'[q] = cache[q]
                               /\ cache[q] # 0 => build'[cache[q]] = build[cache[q]]
  BY <1>7, <1>8, <1>9
<1>12. cache' = [q \in Processes |-> cache'[q]]
  BY <1>7
<1> QED BY <1>5, <1>6, <1>10, <1>11, <1>12, BuildMoves

\* A computation that reads the sections sees every write up to now.
LEMMA ReadSectionsKeeps ==
  ASSUME HomeInv, NEW b \in Builds, ReadSections(b)
  PROVE  HomeInv'
<1>1. PICK x : x = build[b]
  OBVIOUS
<1>2. PICK new : new = [step |-> "titles", at |-> x.at, process |-> x.process,
                        sections |-> section, seen |-> Writes]
  OBVIOUS
<1>3. /\ build' = [build EXCEPT ![b] = new]
      /\ build[b].step = "sections" /\ UNCHANGED <<cache, homeTime, written, dropped>>
  BY <1>1, <1>2 DEF ReadSections
<1>4. x.at \in 0..homeTime /\ x.process \in Processes
  BY <1>1, <1>3 DEF HomeInv, BuildIsSo, Free
<1>5. Writes \in Nat /\ \A i \in 0..MaxClock : i < homeTime => written[i] <= Writes
  BY HomeConstants DEF HomeInv, WritesInv, Writes
<1>6. homeTime \in Nat
  BY HomeConstants DEF HomeInv, WritesInv
<1>7. ReadWell(new)
  BY <1>2, <1>4, <1>5, <1>6 DEF ReadWell
<1>8. BuildIsSo(new) /\ new # Free /\ new.process = x.process /\ new.seen = Writes
  BY <1>2, <1>4, <1>7 DEF BuildIsSo, Free
<1>9. /\ build' = [y \in Builds |-> build'[y]]
      /\ \A y \in Builds : build'[y] = IF y = b THEN new ELSE build[y]
  BY <1>3 DEF HomeInv
<1>10. ASSUME NEW p \in Processes, cache[p] = b PROVE KeptIsSo(p)'
  BY <1>1, <1>3, <1>5, <1>8, <1>9, <1>10 DEF HomeInv, KeptIsSo
<1>11. \A p \in Processes : \/ KeptIsSo(p)'
                            \/ /\ cache'[p] = cache[p]
                               /\ cache[p] # 0 => build'[cache[p]] = build[cache[p]]
  BY <1>3, <1>9, <1>10 DEF HomeInv, KeptIsSo
<1>12. cache' = [p \in Processes |-> cache'[p]]
  BY <1>3 DEF HomeInv
<1> QED BY <1>3, <1>8, <1>9, <1>11, <1>12, BuildMoves

\* Its rows are kept if its process still waits for it.
LEMMA ReadTitlesKeeps ==
  ASSUME HomeInv, NEW b \in Builds, ReadTitles(b)
  PROVE  HomeInv'
<1>1. PICK x : x = build[b]
  OBVIOUS
<1>2. PICK rows : rows = RowsOf(x.sections, title, class, homeTime)
  OBVIOUS
<1>3. PICK done : done = [step |-> "ready", at |-> x.at, process |-> x.process,
                          seen |-> x.seen, rows |-> rows]
  OBVIOUS
<1>4. PICK new : new = IF cache[x.process] = b THEN done ELSE Free
  OBVIOUS
<1>5. /\ build' = [build EXCEPT ![b] = new]
      /\ build[b].step = "titles" /\ UNCHANGED <<cache, homeTime, written, dropped>>
  BY <1>1, <1>2, <1>3, <1>4 DEF ReadTitles
<1>6. x.at \in 0..homeTime /\ x.process \in Processes /\ ReadWell(x)
  BY <1>1, <1>5 DEF HomeInv, BuildIsSo, Free
<1>7. ReadWell(done)
  BY <1>1, <1>3, <1>5, <1>6 DEF ReadWell
<1>8. BuildIsSo(done) /\ done # Free /\ done.process = x.process /\ done.seen = x.seen
  BY <1>3, <1>6, <1>7 DEF BuildIsSo, Free
<1>9. /\ build' = [y \in Builds |-> build'[y]]
      /\ \A y \in Builds : build'[y] = IF y = b THEN new ELSE build[y]
  BY <1>5 DEF HomeInv
<1>10. ASSUME NEW p \in Processes, cache[p] = b, cache[p] # 0 PROVE KeptIsSo(p)'
  <2>1. x.process = p /\ x.seen >= dropped[p]
    BY <1>1, <1>5, <1>10 DEF HomeInv, KeptIsSo
  <2>2. new = done
    BY <1>4, <1>10, <2>1
  <2> QED BY <1>5, <1>8, <1>9, <1>10, <2>1, <2>2 DEF KeptIsSo
<1>11. \A p \in Processes : \/ KeptIsSo(p)'
                            \/ /\ cache'[p] = cache[p]
                               /\ cache[p] # 0 => build'[cache[p]] = build[cache[p]]
  BY <1>5, <1>9, <1>10 DEF HomeInv, KeptIsSo
<1>12. cache' = [p \in Processes |-> cache'[p]]
  BY <1>5 DEF HomeInv
<1>13. \A y \in Builds : build'[y] = build[y] \/ BuildIsSo(build'[y])
  BY <1>4, <1>8, <1>9 DEF BuildIsSo
<1> QED BY <1>5, <1>9, <1>11, <1>12, <1>13, BuildMoves

\* A computation that fails is kept by no process.
LEMMA FailBuildKeeps ==
  ASSUME HomeInv, NEW b \in Builds, FailBuild(b)
  PROVE  HomeInv'
<1>1. /\ build' = [build EXCEPT ![b] = Free]
      /\ cache' = [p \in Processes |-> IF cache[p] = b THEN 0 ELSE cache[p]]
      /\ UNCHANGED <<homeTime, written, dropped>>
  BY DEF FailBuild
<1>2. /\ build' = [y \in Builds |-> build'[y]]
      /\ \A y \in Builds : build'[y] = IF y = b THEN Free ELSE build[y]
  BY <1>1 DEF HomeInv
<1>3. \A y \in Builds : build'[y] = build[y] \/ BuildIsSo(build'[y])
  BY <1>2 DEF BuildIsSo
<1>4. \A p \in Processes : \/ KeptIsSo(p)'
                           \/ /\ cache'[p] = cache[p]
                              /\ cache[p] # 0 => build'[cache[p]] = build[cache[p]]
  BY <1>1, <1>2 DEF HomeInv, KeptIsSo
<1>5. cache' = [p \in Processes |-> cache'[p]]
  BY <1>1
<1> QED BY <1>1, <1>2, <1>3, <1>4, <1>5, BuildMoves

\* A process that drops what it keeps has seen every write up to now.
LEMMA DropKeeps ==
  ASSUME HomeInv, NEW p \in Processes, invalidate(p), UNCHANGED <<homeTime, written>>
  PROVE  HomeInv'
<1>1. /\ cache' = [cache EXCEPT ![p] = 0]
      /\ build' = [b \in Builds |-> IF cache[p] = b /\ build[b].step = "ready" THEN Free ELSE build[b]]
      /\ dropped' = [dropped EXCEPT ![p] = Writes]
  BY DEF invalidate
<1>2. \A b \in Builds : \/ build'[b] = build[b]
                        \/ build'[b] = Free /\ cache[p] = b
  BY <1>1
<1>3. WritesInv' /\ Writes' = Writes /\ Writes \in Nat
  BY DEF HomeInv, WritesInv, Writes
<1>4. ASSUME NEW b \in Builds PROVE BuildIsSo(build[b])'
  <2>1. BuildIsSo(build'[b])
    BY <1>2 DEF HomeInv, BuildIsSo
  <2> QED BY <2>1 DEF BuildIsSo, ReadWell
<1>5. dropped' \in [Processes -> Nat] /\ \A q \in Processes : dropped'[q] <= Writes'
  BY <1>1, <1>3 DEF HomeInv
<1>6. ASSUME NEW q \in Processes PROVE KeptIsSo(q)'
  <2>1. CASE q = p
    BY <1>1, <2>1 DEF HomeInv, KeptIsSo
  <2>2. CASE q # p
    BY <1>1, <1>2, <2>2 DEF HomeInv, KeptIsSo
  <2> QED BY <2>1, <2>2
<1>7. build' = [b \in Builds |-> build'[b]] /\ cache' = [q \in Processes |-> cache'[q]]
  BY <1>1 DEF HomeInv
<1> QED BY <1>3, <1>4, <1>5, <1>6, <1>7 DEF HomeInv

\* Nothing is written while the clock goes on.
LEMMA TickKeeps ==
  ASSUME HomeInv, TickClock
  PROVE  HomeInv'
<1>1. /\ homeTime < MaxClock /\ homeTime' = homeTime + 1
      /\ UNCHANGED <<cache, build, written, dropped>>
  BY DEF TickClock
<1>2. MaxClock \in Nat /\ homeTime \in 0..MaxClock /\ homeTime' \in 0..MaxClock
  BY <1>1, HomeConstants DEF HomeInv, WritesInv
<1>3. Writes' = Writes
  BY <1>1, <1>2 DEF Writes, HomeInv, WritesInv
<1>4. WritesInv'
  <2>1. \A i \in 0..MaxClock : i >= homeTime' => written'[i] = Writes'
    BY <1>1, <1>2, <1>3 DEF HomeInv, WritesInv
  <2> QED BY <1>1, <1>2, <2>1 DEF HomeInv, WritesInv
<1>5. ASSUME NEW x, BuildIsSo(x) PROVE BuildIsSo(x)'
  BY <1>1, <1>2, <1>5 DEF BuildIsSo, ReadWell
<1>6. ASSUME NEW b \in Builds PROVE BuildIsSo(build[b])'
  <2>1. PICK x : x = build[b]
    OBVIOUS
  <2>2. BuildIsSo(x)'
    BY <1>5, <2>1 DEF HomeInv
  <2> QED BY <1>1, <2>1, <2>2
<1>7. \A p \in Processes : KeptIsSo(p)'
  BY <1>1 DEF HomeInv, KeptIsSo
<1> QED BY <1>1, <1>3, <1>4, <1>6, <1>7 DEF HomeInv

\* Every step of readers, admins and computations.
LEMMA HomeStep ==
  ASSUME HomeInv,
         [\/ HomeNext /\ UNCHANGED titleVars
          \/ ClassifyNext(Inputs) \/ OtherTitleEdit]_<<titleVars, homeVars>>
  PROVE  HomeInv'
<1>1. UNCHANGED <<cache, build, homeTime, written, dropped>> => HomeInv'
  BY DEF HomeInv, WritesInv, Writes, BuildIsSo, ReadWell, KeptIsSo
<1>2. ASSUME HomeNext PROVE HomeInv'
  <2>1. CASE \E p \in Processes : Browse(p)
    BY <2>1, BrowseKeeps
  <2>2. CASE \E b \in Builds : ReadSections(b) \/ ReadTitles(b) \/ FailBuild(b)
    BY <2>2, ReadSectionsKeeps, ReadTitlesKeeps, FailBuildKeeps
  <2>3. ASSUME NEW c \in Desk, NEW ids, NEW k,
               CommitSection(c) \/ CommitCollection(c) \/ Reorder(c, ids) \/ RenameCollection(c, k)
        PROVE  HomeInv'
    BY <2>3, CommitKeeps DEF CommitSection, CommitCollection, Reorder, RenameCollection
  <2>4. ASSUME NEW c \in Desk, NEW s, NEW body, NEW k,
               BeginSection(c, s, body) \/ BeginCollection(c, k) \/ EndDesk(c)
        PROVE  HomeInv'
    BY <1>1, <2>4 DEF BeginSection, BeginCollection, EndDesk
  <2>5. ASSUME NEW c \in Desk, NEW p \in Processes, DropCache(c, p) PROVE HomeInv'
    BY <2>5, DropKeeps DEF DropCache
  <2>6. CASE TickClock
    BY <2>6, TickKeeps
  <2> QED BY <1>2, <2>1, <2>2, <2>3, <2>4, <2>5, <2>6 DEF HomeNext
<1>3. ASSUME ClassifyNext(Inputs) PROVE HomeInv'
  <2>1. ASSUME NEW c \in Editors, Reclassify(c) PROVE HomeInv'
    BY <2>1, CommitKeeps DEF Reclassify
  <2>2. ASSUME NEW c \in Editors, NEW p \in Processes, DropAfterClassify(c, p) PROVE HomeInv'
    BY <2>2, DropKeeps DEF DropAfterClassify
  <2> QED BY <1>1, <1>3, <2>1, <2>2 DEF ClassifyNext, homeVars
<1>4. ASSUME OtherTitleEdit PROVE HomeInv'
  BY <1>1, <1>4, CommitKeeps DEF OtherTitleEdit, homeVars
<1> QED BY <1>1, <1>2, <1>3, <1>4 DEF homeVars

\* Whatever sections, orders, collections and titles are written, and however long
\* computations take or fail, an admin whose process dropped its rows sees the write,
\* and no rows are handed out that miss a write of a minute ago (snapshot, invalidate).
THEOREM HomeIsAlwaysFresh == HomeSpec => []HomeIsFresh
<1>1. /\ HomeInv
      /\ [\/ HomeNext /\ UNCHANGED titleVars
          \/ ClassifyNext(Inputs) \/ OtherTitleEdit]_<<titleVars, homeVars>>
      => HomeInv'
  BY HomeStep
<1>2. HomeInv => HomeIsFresh
  <2> SUFFICES ASSUME HomeInv PROVE HomeIsFresh
    OBVIOUS
  <2>1. OwnWritesShow
    BY DEF OwnWritesShow, HomeInv, KeptIsSo
  <2>2. ASSUME NEW p \in Processes, Kept(p), build[cache[p]].step = "ready", homeTime >= CacheTtl
        PROVE  build[cache[p]].seen >= written[homeTime - CacheTtl]
    <3>1. PICK x : x = build[cache[p]]
      OBVIOUS
    <3>2. x.at \in 0..homeTime /\ ReadWell(x)
      BY <2>2, <3>1 DEF Kept, HomeInv, KeptIsSo, BuildIsSo
    <3>3. /\ CacheTtl \in Nat /\ MaxClock \in Nat /\ homeTime \in 0..MaxClock
          /\ homeTime - x.at < CacheTtl
      BY <2>2, <3>1, HomeConstants DEF Kept, HomeInv, WritesInv
    <3>4. homeTime - CacheTtl \in 0..MaxClock /\ homeTime - CacheTtl < x.at
      BY <2>2, <3>2, <3>3
    <3> QED BY <2>2, <3>1, <3>2, <3>4 DEF ReadWell
  <2> QED BY <2>1, <2>2 DEF HomeIsFresh, StaleForAMinuteAtMost
<1> QED BY HomeInvInit, <1>1, <1>2, PTL DEF HomeSpec

-----------------------------------------------------------------------------
(* The title drawers of the Studio.                                        *)

ClassDomain == DOMAIN Unclassified
DrawerFields == {"open", "title", "genres", "baseline", "typed", "both", "form", "panel", "sent",
                 "asked", "loaded", "clicks"}
PanelFields  == {"base", "draft", "touched"}

\* What the panel shows differs from what it loaded only where the admin chose.
PanelIsKept(p) ==
  /\ DOMAIN p = PanelFields /\ DOMAIN p.base = ClassDomain
  /\ DOMAIN p.draft = ClassDomain \ {"auto"}
  /\ \A k \in DOMAIN p.draft : k \in p.touched \/ p.draft[k] = draftFromDto(p.base)[k]

\* The genres of the form differ from its baseline only where they were typed, or where
\* both saves were under way.
FormIsKept(d) ==
  /\ d.form # NoAsk /\ d.panel # NoAsk => d.both
  /\ \/ d.both \/ d.typed \/ d.genres = d.baseline
     \/ d.form # NoAsk /\ d.asked
  /\ d.form # NoAsk => d.both \/ d.typed \/ d.genres = d.sent

DrawerIsSo(d) ==
  /\ DOMAIN d = DrawerFields /\ d.title \in TitleIds
  /\ d.loaded # NoPanel => PanelIsKept(d.loaded)
  /\ d.panel # NoAsk => d.loaded # NoPanel
  /\ FormIsKept(d)

\* A request that will come to mirror genres onto the joins.
Mirrors(r) ==
  \/ r.step \in {"merge", "save"} /\ "genres" \in DOMAIN r.patch
  \/ r.step \in {"sync", "link"}

\* The genres that it mirrors, and the picks that it keeps for them.
Mirrored(r) == IF r.step \in {"merge", "save"} THEN r.patch.genres ELSE r.genres
KeepsPicks(r) == r.step = "link" => r.links = KeptLinks(r.seen, r.genres)

\* What a drawer has asked for, request r of c, writes what was chosen in it.
AskedOf(d, c, r) ==
  /\ d.panel = [to |-> c] /\ r.step = "classify" =>
       /\ DOMAIN r.input \subseteq d.loaded.touched
       /\ r.input = diffClassification(d.loaded.base, d.loaded.draft)
  /\ d.form = [to |-> c] /\ Mirrors(r) =>
       (d.asked \/ d.both) /\ Mirrored(r) = d.sent /\ KeepsPicks(r)

AskedSo(d, c) == AskedOf(d, c, titleEdit[c])

ClassWhole ==
  class = [t \in TitleIds |-> class[t]] /\ \A t \in TitleIds : DOMAIN class[t] = ClassDomain

FormsInv ==
  /\ titleEdit = [c \in Editors |-> titleEdit[c]] /\ ClassWhole
  /\ forms = [a \in Admins |-> forms[a]]
  /\ \A a \in Admins : InHand(a) =>
       DrawerIsSo(forms[a]) /\ \A c \in Editors : AskedSo(forms[a], c)

\* No drawer is open at first.
LEMMA FormsInvInit == FormsInit => FormsInv
<1> SUFFICES ASSUME FormsInit PROVE FormsInv
  OBVIOUS
<1>1. \A a \in Admins : ~InHand(a)
  BY DEF FormsInit, InHand, NoDrawer
<1> QED BY <1>1 DEF FormsInit, TitlesInit, FormsInv, ClassWhole, ClassDomain

\* A request is not the word for none, nor for one that reloads.
LEMMA AsksDiffer ==
  ASSUME NEW c \in Editors
  PROVE  [to |-> c] # NoAsk /\ [to |-> c] # [to |-> "reload"] /\ NoAsk # [to |-> "reload"]
BY FormsConstants DEF NoAsk

\* A drawer whose fields that a request came from are as they were asks the same of it.
LEMMA AskStays ==
  ASSUME NEW m, NEW d, NEW c, NEW r, AskedOf(m, c, r),
         d.panel = [to |-> c] => m.panel = d.panel /\ d.loaded = m.loaded,
         d.form = [to |-> c] =>
           m.form = d.form /\ d.asked = m.asked /\ d.both = m.both /\ d.sent = m.sent
  PROVE  AskedOf(d, c, r)
<1>1. ASSUME d.panel = [to |-> c], r.step = "classify"
      PROVE  /\ DOMAIN r.input \subseteq d.loaded.touched
             /\ r.input = diffClassification(d.loaded.base, d.loaded.draft)
  BY <1>1 DEF AskedOf
<1>2. ASSUME d.form = [to |-> c], Mirrors(r)
      PROVE  (d.asked \/ d.both) /\ Mirrored(r) = d.sent /\ KeepsPicks(r)
  BY <1>2, Zenon DEF AskedOf
<1> QED BY <1>1, <1>2, Zenon DEF AskedOf

\* One drawer moves on while no request does.
LEMMA DrawerMoves ==
  ASSUME FormsInv, UNCHANGED titleVars, NEW a \in Admins, NEW d, Change(a, d),
         d.open => DrawerIsSo(d) /\ \A c \in Editors : AskedSo(d, c)
  PROVE  FormsInv'
<1>1. /\ forms' = [b \in Admins |-> forms'[b]]
      /\ \A b \in Admins : forms'[b] = IF b = a THEN d ELSE forms[b]
  BY DEF FormsInv, Change
<1>2. ASSUME NEW b \in Admins, InHand(b)'
      PROVE  DrawerIsSo(forms[b])' /\ \A c \in Editors : AskedSo(forms[b], c)'
  <2>1. PICK m : m = forms'[b]
    OBVIOUS
  <2>2. m.open
    BY <1>2, <2>1 DEF InHand
  <2>3. DrawerIsSo(m) /\ \A c \in Editors : AskedSo(m, c)
    <3>1. CASE b = a
      BY <1>1, <2>1, <2>2, <3>1
    <3>2. CASE b # a
      BY <1>1, <2>1, <2>2, <3>2 DEF FormsInv, InHand
    <3> QED BY <3>1, <3>2
  <2> QED BY <2>1, <2>3 DEF DrawerIsSo, FormIsKept, PanelIsKept, AskedSo, AskedOf, Mirrors, Mirrored,
                                    KeepsPicks, titleVars
<1>3. UNCHANGED <<titleEdit, class>>
  BY DEF titleVars
<1> QED BY <1>1, <1>2, <1>3 DEF FormsInv, ClassWhole

\* A drawer that is opened, or closed.
LEMMA OpenKeeps ==
  ASSUME FormsInv, NEW a \in Admins, NEW t \in TitleIds, OpenDrawer(a, t)
  PROVE  FormsInv'
<1>1. PICK d : d = [open |-> TRUE, title |-> t, genres |-> title[t].genres,
                    baseline |-> title[t].genres, typed |-> FALSE, both |-> FALSE,
                    form |-> NoAsk, panel |-> NoAsk, sent |-> {},
                    asked |-> FALSE, loaded |-> NoPanel, clicks |-> forms[a].clicks]
  OBVIOUS
<1>2. Change(a, d) /\ UNCHANGED titleVars
  BY <1>1 DEF OpenDrawer
<1>3. /\ DOMAIN d = DrawerFields /\ d.title = t /\ d.genres = d.baseline /\ d.form = NoAsk /\ d.panel = NoAsk
      /\ d.loaded = NoPanel
  BY <1>1 DEF DrawerFields
<1>4. DrawerIsSo(d)
  BY <1>3 DEF DrawerIsSo, FormIsKept
<1>5. \A c \in Editors : AskedSo(d, c)
  BY <1>3, AsksDiffer DEF AskedSo, AskedOf
<1> QED BY <1>2, <1>4, <1>5, DrawerMoves

\* A drawer is closed only when it waits for nothing (Movies.tsx).
LEMMA CloseKeeps ==
  ASSUME FormsInv, NEW a \in Admins, CloseDrawer(a)
  PROVE  FormsInv'
<1>1. PICK d : d = [NoDrawer EXCEPT !.clicks = forms[a].clicks]
  OBVIOUS
<1>2. Change(a, d) /\ UNCHANGED titleVars
  BY <1>1 DEF CloseDrawer
<1>3. d.open = FALSE
  BY <1>1 DEF NoDrawer
<1> QED BY <1>2, <1>3, DrawerMoves

\* A drawer whose panel is loaded holds what the service keeps.
LEMMA LoadedIsKept ==
  ASSUME NEW c, DOMAIN c = ClassDomain
  PROVE  PanelIsKept([base |-> c, draft |-> draftFromDto(c), touched |-> {}])
<1>1. PICK p : p = [base |-> c, draft |-> draftFromDto(c), touched |-> {}]
  OBVIOUS
<1>2. DOMAIN p = PanelFields /\ p.base = c /\ p.draft = draftFromDto(c)
  BY <1>1 DEF PanelFields
<1>3. DOMAIN draftFromDto(c) = ClassDomain \ {"auto"}
  BY DEF draftFromDto
<1> QED BY <1>1, <1>2, <1>3 DEF PanelIsKept

\* What is known of an open drawer.
LEMMA DrawerIs ==
  ASSUME FormsInv, NEW a \in Admins, InHand(a)
  PROVE  DrawerIsSo(forms[a]) /\ \A c \in Editors : AskedSo(forms[a], c)
BY DEF FormsInv

\* The panel loads itself, once.
LEMMA LoadPanelKeeps ==
  ASSUME FormsInv, NEW a \in Admins, LoadPanel(a)
  PROVE  FormsInv'
<1>1. PICK m : m = forms[a]
  OBVIOUS
<1>2. PICK p : p = [base |-> class[m.title], draft |-> draftFromDto(class[m.title]), touched |-> {}]
  OBVIOUS
<1>3. PICK d : d = [m EXCEPT !.loaded = p]
  OBVIOUS
<1>4. /\ Change(a, d) /\ UNCHANGED titleVars /\ m.open /\ m.loaded = NoPanel
  BY <1>1, <1>2, <1>3 DEF LoadPanel, InHand
<1>5. DrawerIsSo(m) /\ \A c \in Editors : AskedSo(m, c)
  BY <1>1, <1>4, DrawerIs DEF InHand
<1>6. /\ DOMAIN d = DrawerFields /\ d.loaded = p
      /\ \A x \in DrawerFields \ {"loaded"} : d[x] = m[x]
  BY <1>3, <1>5 DEF DrawerIsSo, DrawerFields
<1>7. PanelIsKept(p)
  BY <1>2, <1>5, LoadedIsKept DEF FormsInv, ClassWhole, DrawerIsSo
<1>8. /\ d.title = m.title /\ d.panel = m.panel /\ d.form = m.form /\ d.both = m.both
      /\ d.typed = m.typed /\ d.asked = m.asked /\ d.genres = m.genres /\ d.baseline = m.baseline
      /\ d.sent = m.sent
  BY <1>6 DEF DrawerFields
<1>9. d.panel = NoAsk
  BY <1>4, <1>5, <1>8 DEF DrawerIsSo
<1>10. DrawerIsSo(d)
  BY <1>5, <1>6, <1>7, <1>8, <1>9 DEF DrawerIsSo, FormIsKept
<1>11. \A c \in Editors : AskedSo(d, c)
  BY <1>5, <1>8, <1>9, AsksDiffer, AskStays DEF AskedSo
<1> QED BY <1>4, <1>10, <1>11, DrawerMoves

\* Genres that are typed, and choices in the panel.
LEMMA TypeKeeps ==
  ASSUME FormsInv, NEW a \in Admins, NEW names, TypeGenres(a, names)
  PROVE  FormsInv'
<1>1. PICK m : m = forms[a]
  OBVIOUS
<1>2. PICK d : d = [m EXCEPT !.genres = names, !.typed = TRUE, !.clicks = @ + 1]
  OBVIOUS
<1>3. Change(a, d) /\ UNCHANGED titleVars /\ m.open
  BY <1>1, <1>2 DEF TypeGenres, InHand
<1>4. DrawerIsSo(m) /\ \A c \in Editors : AskedSo(m, c)
  BY <1>1, <1>3, DrawerIs DEF InHand
<1>5. /\ DOMAIN d = DrawerFields /\ d.typed = TRUE
      /\ \A x \in DrawerFields \ {"genres", "typed", "clicks"} : d[x] = m[x]
  BY <1>2, <1>4 DEF DrawerIsSo, DrawerFields
<1>6. /\ d.title = m.title /\ d.panel = m.panel /\ d.form = m.form /\ d.both = m.both
      /\ d.asked = m.asked /\ d.loaded = m.loaded /\ d.sent = m.sent
  BY <1>5 DEF DrawerFields
<1>7. DrawerIsSo(d)
  BY <1>4, <1>5, <1>6 DEF DrawerIsSo, FormIsKept
<1>8. \A c \in Editors : AskedSo(d, c)
  BY <1>4, <1>6, AskStays DEF AskedSo
<1> QED BY <1>3, <1>7, <1>8, DrawerMoves

\* A choice in the panel is remembered as one (ClassificationPanel).
LEMMA EditPanelKeeps ==
  ASSUME FormsInv, NEW a \in Admins, NEW e, EditPanel(a, e)
  PROVE  FormsInv'
<1>1. PICK m : m = forms[a]
  OBVIOUS
<1>2. /\ m.open /\ m.loaded # NoPanel /\ m.panel = NoAsk /\ UNCHANGED titleVars
      /\ Change(a, [m EXCEPT !.loaded.draft[e[1]] = e[2],
                             !.loaded.touched = @ \cup {e[1]}, !.clicks = @ + 1])
  BY <1>1 DEF EditPanel, InHand
<1>3. DrawerIsSo(m) /\ \A c \in Editors : AskedSo(m, c)
  BY <1>1, <1>2, DrawerIs DEF InHand
<1>4. PICK q : q = m.loaded
  OBVIOUS
<1>5. PICK draft : draft = [q.draft EXCEPT ![e[1]] = e[2]]
  OBVIOUS
<1>6. PICK p : p = [[q EXCEPT !.draft = draft] EXCEPT !.touched = q.touched \cup {e[1]}]
  OBVIOUS
<1>7. PICK d : d = [[m EXCEPT !.loaded = p] EXCEPT !.clicks = m.clicks + 1]
  OBVIOUS
<1>8. PanelIsKept(q)
  BY <1>2, <1>3, <1>4 DEF DrawerIsSo
<1>9. /\ DOMAIN p = PanelFields /\ p.base = q.base /\ p.draft = draft
      /\ p.touched = q.touched \cup {e[1]}
  BY <1>6, <1>8 DEF PanelIsKept, PanelFields
<1>10. PanelIsKept(p)
  BY <1>5, <1>8, <1>9 DEF PanelIsKept
<1>11. Change(a, d)
  <2>1. d = [m EXCEPT !.loaded.draft[e[1]] = e[2],
                      !.loaded.touched = @ \cup {e[1]}, !.clicks = @ + 1]
    BY <1>3, <1>4, <1>5, <1>6, <1>7, <1>8 DEF DrawerIsSo, DrawerFields, PanelIsKept, PanelFields
  <2> QED BY <1>2, <2>1
<1>12. /\ DOMAIN d = DrawerFields /\ d.loaded = p
       /\ \A x \in DrawerFields \ {"loaded", "clicks"} : d[x] = m[x]
  BY <1>3, <1>7 DEF DrawerIsSo, DrawerFields
<1>13. /\ d.title = m.title /\ d.panel = m.panel /\ d.form = m.form /\ d.both = m.both
       /\ d.typed = m.typed /\ d.asked = m.asked /\ d.genres = m.genres /\ d.baseline = m.baseline
       /\ d.sent = m.sent
  BY <1>12 DEF DrawerFields
<1>14. p # NoPanel
  BY <1>9 DEF PanelFields, NoPanel
<1>15. DrawerIsSo(d)
  BY <1>3, <1>10, <1>12, <1>13, <1>14 DEF DrawerIsSo, FormIsKept
<1>16. \A c \in Editors : AskedSo(d, c)
  BY <1>2, <1>3, <1>13, AsksDiffer, AskStays DEF AskedSo
<1> QED BY <1>2, <1>11, <1>15, <1>16, DrawerMoves

\* The panel reads again what it has written.
LEMMA ReloadKeeps ==
  ASSUME FormsInv, NEW a \in Admins, PanelReloads(a)
  PROVE  FormsInv'
<1>1. PICK m : m = forms[a]
  OBVIOUS
<1>2. PICK c : c = class[m.title]
  OBVIOUS
<1>3. PICK names : names = legacyGenreNames(c.links)
  OBVIOUS
<1>4. PICK p : p = [base |-> c, draft |-> draftFromDto(c), touched |-> {}]
  OBVIOUS
<1>5. PICK d : d = [m EXCEPT !.panel = NoAsk, !.genres = names, !.baseline = names,
                            !.typed = FALSE, !.loaded = p]
  OBVIOUS
<1>6. /\ m.open /\ m.panel = [to |-> "reload"] /\ UNCHANGED titleVars /\ Change(a, d)
  BY <1>1, <1>2, <1>3, <1>4, <1>5 DEF PanelReloads, InHand
<1>7. DrawerIsSo(m) /\ \A x \in Editors : AskedSo(m, x)
  BY <1>1, <1>6, DrawerIs DEF InHand
<1>8. /\ DOMAIN d = DrawerFields /\ d.loaded = p /\ d.panel = NoAsk /\ d.genres = d.baseline
      /\ \A x \in DrawerFields \ {"panel", "genres", "baseline", "typed", "loaded"} : d[x] = m[x]
  BY <1>5, <1>7 DEF DrawerIsSo, DrawerFields
<1>9. /\ d.title = m.title /\ d.form = m.form /\ d.both = m.both /\ d.asked = m.asked
      /\ d.sent = m.sent
  BY <1>8 DEF DrawerFields
<1>10. PanelIsKept(p)
  BY <1>2, <1>4, <1>7, LoadedIsKept DEF FormsInv, ClassWhole, DrawerIsSo
<1>11. m.panel # NoAsk
  BY <1>6 DEF NoAsk
<1>12. DrawerIsSo(d)
  BY <1>7, <1>8, <1>9, <1>10, <1>11 DEF DrawerIsSo, FormIsKept
<1>13. \A x \in Editors : AskedSo(d, x)
  BY <1>7, <1>8, <1>9, AsksDiffer, AskStays DEF AskedSo
<1> QED BY <1>6, <1>12, <1>13, DrawerMoves

\* A request moves on, and at most the drawer that waits for it.
LEMMA RequestMoves ==
  ASSUME FormsInv, NEW c \in Editors, NEW r, titleEdit' = [titleEdit EXCEPT ![c] = r],
         ClassWhole', forms' = [b \in Admins |-> forms'[b]],
         \A b \in Admins : forms'[b].open =>
           /\ DrawerIsSo(forms'[b]) /\ AskedOf(forms'[b], c, r)
           /\ \A x \in Editors : x # c => AskedSo(forms'[b], x)
  PROVE  FormsInv'
<1>1. /\ titleEdit' = [x \in Editors |-> titleEdit'[x]] /\ titleEdit'[c] = r
      /\ \A x \in Editors : x # c => titleEdit'[x] = titleEdit[x]
  BY DEF FormsInv
<1>2. ASSUME NEW b \in Admins, InHand(b)'
      PROVE  DrawerIsSo(forms[b])' /\ \A x \in Editors : AskedSo(forms[b], x)'
  <2>1. PICK m : m = forms'[b]
    OBVIOUS
  <2>2. m.open
    BY <1>2, <2>1 DEF InHand
  <2>3. /\ DrawerIsSo(m) /\ AskedOf(m, c, r)
        /\ \A x \in Editors : x # c => AskedSo(m, x)
    BY <2>1, <2>2
  <2>4. ASSUME NEW x \in Editors PROVE AskedSo(m, x)'
    <3>1. CASE x = c
      BY <1>1, <2>3, <3>1 DEF AskedSo, AskedOf, Mirrors, Mirrored, KeepsPicks
    <3>2. CASE x # c
      BY <1>1, <2>3, <3>2 DEF AskedSo, AskedOf, Mirrors, Mirrored, KeepsPicks
    <3> QED BY <3>1, <3>2
  <2> QED BY <2>1, <2>3, <2>4 DEF DrawerIsSo, FormIsKept, PanelIsKept, AskedSo, AskedOf, Mirrors, Mirrored, KeepsPicks
<1> QED BY <1>1, <1>2 DEF FormsInv

\* A drawer that sends nothing through c knows nothing of what becomes of c.
LEMMA OthersDoNotAsk ==
  ASSUME NEW c \in Editors, Unused(c), NEW b \in Admins, InHand(b), NEW r
  PROVE  AskedOf(forms[b], c, r)
<1>1. forms[b].form # [to |-> c] /\ forms[b].panel # [to |-> c]
  BY DEF Unused
<1> QED BY <1>1 DEF AskedOf

\* A movie save carries genres only if the form sends them.
LEMMA UpdateAsks ==
  ASSUME NEW c \in Editors, NEW t, NEW body, BeginUpdate(c, t, body)
  PROVE  /\ UNCHANGED class
         /\ \E r : /\ titleEdit' = [titleEdit EXCEPT ![c] = r]
                   /\ Mirrors(r) => /\ "genres" \in DOMAIN body /\ KeepsPicks(r)
                                    /\ Mirrored(r) = body.genres
                   /\ r.step # "classify"
<1> DEFINE stamp == IF Given("status", body) /\ body.status = "published" /\ title[t].publishedAt = 0
                    THEN [publishedAt |-> 1] ELSE NoFields
           cancel == IF Given("isPremiere", body) /\ ~body.isPremiere
                     THEN [premiereStartAt |-> 0] ELSE NoFields
           patch == With(With(body, stamp), cancel)
           r == [step |-> "merge", title |-> t, patch |-> patch]
<1>1. titleEdit' = [titleEdit EXCEPT ![c] = r] /\ UNCHANGED class
  BY Zenon DEF BeginUpdate, Begin
<1>2. "genres" \notin DOMAIN stamp /\ "genres" \notin DOMAIN cancel
  BY DEF NoFields
<1> HIDE DEF stamp, cancel
<1>3. "genres" \in DOMAIN patch => "genres" \in DOMAIN body /\ patch.genres = body.genres
  BY <1>2 DEF With, Given
<1> HIDE DEF patch
<1>4. r.step = "merge" /\ r.patch = patch
  OBVIOUS
<1>5. Mirrors(r) => "genres" \in DOMAIN body /\ KeepsPicks(r) /\ Mirrored(r) = body.genres
  BY <1>3, <1>4 DEF Mirrors, Mirrored, KeepsPicks
<1> HIDE DEF r
<1> QED BY <1>1, <1>4, <1>5

\* The movie form sends genres only if they were typed there, or both saves are under way.
LEMMA SaveFormKeeps ==
  ASSUME FormsInv, NEW a \in Admins, NEW c \in Editors, SaveForm(a, c)
  PROVE  FormsInv'
<1>1. PICK m : m = forms[a]
  OBVIOUS
<1>2. PICK d : d = [m EXCEPT !.form = [to |-> c], !.sent = m.genres,
                            !.asked = m.typed, !.typed = FALSE,
                            !.clicks = @ + 1, !.both = @ \/ m.panel # NoAsk]
  OBVIOUS
<1>3. /\ m.open /\ m.form = NoAsk /\ Unused(c) /\ Change(a, d)
      /\ BeginUpdate(c, m.title, FormBody(m))
  BY <1>1, <1>2 DEF SaveForm, InHand
<1>4. DrawerIsSo(m) /\ \A x \in Editors : AskedSo(m, x)
  BY <1>1, <1>3, DrawerIs DEF InHand
<1>5. /\ DOMAIN d = DrawerFields /\ d.form = [to |-> c] /\ d.sent = m.genres
      /\ \A x \in DrawerFields \ {"form", "sent", "asked", "typed", "clicks", "both"} : d[x] = m[x]
  BY <1>2, <1>4 DEF DrawerIsSo, DrawerFields
<1>6. (d.asked <=> m.typed) /\ (d.both <=> m.both \/ m.panel # NoAsk)
  BY <1>2, <1>4 DEF DrawerIsSo, DrawerFields
<1>7. /\ d.title = m.title /\ d.panel = m.panel /\ d.loaded = m.loaded /\ d.genres = m.genres
      /\ d.baseline = m.baseline
  BY <1>5 DEF DrawerFields
<1>8. d.form # NoAsk
  BY <1>5, AsksDiffer
<1>9. DrawerIsSo(d)
  <2>1. FormIsKept(d)
    BY <1>3, <1>4, <1>5, <1>6, <1>7, <1>8 DEF DrawerIsSo, FormIsKept
  <2> QED BY <1>4, <1>5, <1>7, <2>1 DEF DrawerIsSo
<1>10. PICK r : /\ titleEdit' = [titleEdit EXCEPT ![c] = r] /\ UNCHANGED class
                /\ Mirrors(r) => /\ "genres" \in DOMAIN FormBody(m) /\ KeepsPicks(r)
                                 /\ Mirrored(r) = FormBody(m).genres
                /\ r.step # "classify"
  BY <1>3, UpdateAsks
<1>11. "genres" \in DOMAIN FormBody(m) =>
         (d.asked \/ d.both) /\ FormBody(m).genres = d.sent
  <2>1. "genres" \in DOMAIN FormBody(m) => m.genres # m.baseline /\ FormBody(m).genres = m.genres
    BY DEF FormBody
  <2>2. m.genres # m.baseline => d.asked \/ d.both
    BY <1>3, <1>4, <1>6 DEF DrawerIsSo, FormIsKept
  <2> QED BY <1>5, <2>1, <2>2
<1>12. AskedOf(d, c, r)
  BY <1>10, <1>11 DEF AskedOf
<1>13. ASSUME NEW x \in Editors, x # c PROVE AskedSo(d, x)
  <2>1. d.form # [to |-> x]
    <3>1. PICK f : f = [to |-> x]
      OBVIOUS
    <3>2. f.to = x /\ d.form.to = c
      BY <1>5, <3>1
    <3> QED BY <1>13, <3>1, <3>2
  <2> QED BY <1>4, <1>7, <2>1 DEF AskedSo, AskedOf
<1>14. /\ forms' = [b \in Admins |-> forms'[b]]
       /\ \A b \in Admins : forms'[b] = IF b = a THEN d ELSE forms[b]
  BY <1>3 DEF FormsInv, Change
<1>15. ASSUME NEW b \in Admins, forms'[b].open
       PROVE  /\ DrawerIsSo(forms'[b]) /\ AskedOf(forms'[b], c, r)
              /\ \A x \in Editors : x # c => AskedSo(forms'[b], x)
  <2>1. CASE b = a
    BY <1>9, <1>12, <1>13, <1>14, <2>1
  <2>2. CASE b # a
    <3>1. forms'[b] = forms[b] /\ InHand(b)
      BY <1>14, <1>15, <2>2 DEF InHand
    <3> QED BY <1>3, <3>1, DrawerIs, OthersDoNotAsk
  <2> QED BY <2>1, <2>2
<1>16. ClassWhole'
  BY <1>10 DEF FormsInv, ClassWhole
<1> QED BY <1>10, <1>14, <1>15, <1>16, RequestMoves

\* The panel sends the fields that were chosen in it, and no other.
LEMMA SavePanelKeeps ==
  ASSUME FormsInv, NEW a \in Admins, NEW c \in Editors, SavePanel(a, c)
  PROVE  FormsInv'
<1>1. PICK m : m = forms[a]
  OBVIOUS
<1>2. PICK d : d = [m EXCEPT !.panel = [to |-> c], !.clicks = @ + 1,
                            !.both = @ \/ m.form # NoAsk]
  OBVIOUS
<1>3. PICK diff : diff = diffClassification(m.loaded.base, m.loaded.draft)
  OBVIOUS
<1>4. /\ m.open /\ m.loaded # NoPanel /\ m.panel = NoAsk /\ Unused(c) /\ Change(a, d)
      /\ BeginClassify(c, m.title, diff)
  BY <1>1, <1>2, <1>3 DEF SavePanel, InHand
<1>5. DrawerIsSo(m) /\ \A x \in Editors : AskedSo(m, x)
  BY <1>1, <1>4, DrawerIs DEF InHand
<1>6. /\ DOMAIN d = DrawerFields /\ d.panel = [to |-> c]
      /\ \A x \in DrawerFields \ {"panel", "clicks", "both"} : d[x] = m[x]
      /\ d.both <=> m.both \/ m.form # NoAsk
  BY <1>2, <1>5 DEF DrawerIsSo, DrawerFields
<1>7. /\ d.title = m.title /\ d.form = m.form /\ d.loaded = m.loaded /\ d.genres = m.genres
      /\ d.baseline = m.baseline /\ d.sent = m.sent /\ d.typed = m.typed /\ d.asked = m.asked
  BY <1>6 DEF DrawerFields
<1>8. DrawerIsSo(d)
  <2>1. FormIsKept(d)
    BY <1>5, <1>6, <1>7 DEF DrawerIsSo, FormIsKept
  <2> QED BY <1>4, <1>5, <1>6, <1>7, <2>1 DEF DrawerIsSo
<1>9. DOMAIN diff \subseteq d.loaded.touched
  BY <1>3, <1>4, <1>5, <1>7 DEF DrawerIsSo, PanelIsKept, diffClassification
<1>9b. diff = diffClassification(d.loaded.base, d.loaded.draft)
  BY <1>3, <1>7
<1> DEFINE given == Merged(class[m.title], diff)
<1>10. PICK r : r = [step |-> "classify", title |-> m.title, input |-> diff,
                     auto |-> deriveIndustries(given.countries, given.languages)]
  OBVIOUS
<1>11. r.input = diff /\ r.step = "classify"
  BY <1>10
<1>11b. ~Mirrors(r)
  BY <1>11 DEF Mirrors
<1>12. titleEdit' = [titleEdit EXCEPT ![c] = r] /\ UNCHANGED class
  BY <1>4, <1>10, Zenon DEF BeginClassify, Begin
<1>13. AskedOf(d, c, r)
  BY <1>9, <1>9b, <1>11, <1>11b DEF AskedOf
<1>14. ASSUME NEW x \in Editors, x # c PROVE AskedSo(d, x)
  <2>1. d.panel # [to |-> x]
    <3>1. PICK f : f = [to |-> x]
      OBVIOUS
    <3>2. f.to = x /\ d.panel.to = c
      BY <1>6, <3>1
    <3> QED BY <1>14, <3>1, <3>2
  <2> QED BY <1>5, <1>6, <1>7, <2>1 DEF AskedSo, AskedOf
<1>15. /\ forms' = [b \in Admins |-> forms'[b]]
       /\ \A b \in Admins : forms'[b] = IF b = a THEN d ELSE forms[b]
  BY <1>4 DEF FormsInv, Change
<1>16. ASSUME NEW b \in Admins, forms'[b].open
       PROVE  /\ DrawerIsSo(forms'[b]) /\ AskedOf(forms'[b], c, r)
              /\ \A x \in Editors : x # c => AskedSo(forms'[b], x)
  <2>1. CASE b = a
    BY <1>8, <1>13, <1>14, <1>15, <2>1
  <2>2. CASE b # a
    <3>1. forms'[b] = forms[b] /\ InHand(b)
      BY <1>15, <1>16, <2>2 DEF InHand
    <3> QED BY <1>4, <3>1, DrawerIs, OthersDoNotAsk
  <2> QED BY <2>1, <2>2
<1>17. ClassWhole'
  BY <1>12 DEF FormsInv, ClassWhole
<1> QED BY <1>12, <1>15, <1>16, <1>17, RequestMoves

\* What a request mirrors stays so from one of its steps to the next.
StillMirrors(r, q) == Mirrors(q) /\ Mirrored(r) = Mirrored(q) /\ KeepsPicks(r)

\* A request that goes on is no classification any more, and mirrors genres only if it
\* was to.
LEMMA ServeMoves ==
  ASSUME FormsInv, NEW c \in Editors, Serve(c) \/ EndTitleEdit(c)
  PROVE  /\ ClassWhole'
         /\ \E r : /\ titleEdit' = [titleEdit EXCEPT ![c] = r] /\ r.step # "classify"
                   /\ Mirrors(r) => StillMirrors(r, titleEdit[c])
<1> DEFINE Goal == /\ ClassWhole'
                   /\ \E r : /\ titleEdit' = [titleEdit EXCEPT ![c] = r] /\ r.step # "classify"
                             /\ Mirrors(r) => StillMirrors(r, titleEdit[c])
<1>0. UNCHANGED class => ClassWhole'
  BY DEF FormsInv, ClassWhole
<1>1. ASSUME MergePatch(c) PROVE Goal
  <2>1. PICK r : r = [step |-> "save", title |-> titleEdit[c].title, patch |-> titleEdit[c].patch,
                      row |-> Merged(title[titleEdit[c].title], titleEdit[c].patch)]
    OBVIOUS
  <2>2. r.step = "save" /\ r.patch = titleEdit[c].patch
    BY <2>1
  <2>3. titleEdit' = [titleEdit EXCEPT ![c] = r]
    BY <1>1, <2>1, Zenon DEF MergePatch, Continue
  <2>4. titleEdit[c].step = "merge" /\ UNCHANGED class
    BY <1>1 DEF MergePatch
  <2>5. Mirrors(r) => StillMirrors(r, titleEdit[c])
    BY <2>2, <2>4 DEF Mirrors, StillMirrors, Mirrored, KeepsPicks
  <2> QED BY <1>0, <2>3, <2>4, <2>5, <2>2
<1>2. ASSUME SaveRow(c) PROVE Goal
  <2>1. titleEdit[c].step = "save" /\ UNCHANGED class
    BY <1>2 DEF SaveRow
  <2>2. CASE "genres" \in DOMAIN titleEdit[c].patch
    <3>1. PICK r : r = [step |-> "sync", title |-> titleEdit[c].title,
                        genres |-> titleEdit[c].patch.genres]
      OBVIOUS
    <3>2. PICK q : q = IF Given("genres", titleEdit[c].patch)
                       THEN [step |-> "sync", title |-> titleEdit[c].title,
                             genres |-> titleEdit[c].patch.genres]
                       ELSE Resting
      OBVIOUS
    <3>3. titleEdit' = [titleEdit EXCEPT ![c] = q]
      BY <1>2, <3>2, Zenon DEF SaveRow, Continue
    <3>4. q = r
      BY <2>2, <3>1, <3>2, Zenon DEF Given
    <3>5. titleEdit' = [titleEdit EXCEPT ![c] = r] /\ r.step = "sync"
      BY <3>1, <3>3, <3>4
    <3>6. StillMirrors(r, titleEdit[c])
      <4>1. r.genres = titleEdit[c].patch.genres /\ r.step = "sync"
        BY <3>1
      <4> QED BY <2>1, <2>2, <4>1 DEF Mirrors, StillMirrors, Mirrored, KeepsPicks
    <3> QED BY <1>0, <2>1, <3>5, <3>6
  <2>3. CASE "genres" \notin DOMAIN titleEdit[c].patch
    <3>1. PICK q : q = IF Given("genres", titleEdit[c].patch)
                       THEN [step |-> "sync", title |-> titleEdit[c].title,
                             genres |-> titleEdit[c].patch.genres]
                       ELSE Resting
      OBVIOUS
    <3>2. titleEdit' = [titleEdit EXCEPT ![c] = q]
      BY <1>2, <3>1, Zenon DEF SaveRow, Continue
    <3>3. q = Resting
      BY <2>3, <3>1, Zenon DEF Given
    <3>4. titleEdit' = [titleEdit EXCEPT ![c] = q] /\ q.step = "idle"
      BY <3>2, <3>3 DEF Resting
    <3>5. ~Mirrors(q)
      BY <3>4 DEF Mirrors
    <3> QED BY <1>0, <2>1, <3>4, <3>5
  <2> QED BY <2>2, <2>3
<1>3. ASSUME CommitClassify(c) PROVE Goal
  <2>1. PICK r : r = [step |-> "audit", title |-> titleEdit[c].title]
    OBVIOUS
  <2>2. titleEdit' = [titleEdit EXCEPT ![c] = r]
    BY <1>3, <2>1, Zenon DEF CommitClassify, Continue
  <2>3. titleEdit' = [titleEdit EXCEPT ![c] = r] /\ r.step = "audit"
    BY <2>1, <2>2
  <2>4. ~Mirrors(r)
    BY <2>3 DEF Mirrors
  <2>5. ClassWhole'
    BY <1>3, ZenonT(30) DEF CommitClassify, FormsInv, ClassWhole, Merged
  <2> QED BY <2>3, <2>4, <2>5
<1>4. ASSUME BeginSync(c) PROVE Goal
  <2>1. titleEdit[c].step = "sync" /\ UNCHANGED class
    BY <1>4 DEF BeginSync
  <2>2. PICK seen, names, links, q :
           /\ seen = class[titleEdit[c].title].links /\ names = titleEdit[c].genres
           /\ links = KeptLinks(seen, names)
           /\ q = [step |-> "link", title |-> titleEdit[c].title, seen |-> seen,
                    genres |-> names, links |-> links]
    OBVIOUS
  <2>3. PICK r : r = IF Exists(titleEdit[c].title) THEN q ELSE Resting
    OBVIOUS
  <2>4. titleEdit' = [titleEdit EXCEPT ![c] = r]
    BY <1>4, <2>2, <2>3, Zenon DEF BeginSync, Continue
  <2>5. r = q \/ r = Resting
    BY <2>3
  <2>6. titleEdit' = [titleEdit EXCEPT ![c] = r] /\ r.step # "classify"
    BY <2>2, <2>4, <2>5 DEF Resting
  <2>7. Mirrors(r) => StillMirrors(r, titleEdit[c])
    <3>1. CASE r = q
      <4>1. /\ r.step = "link" /\ r.seen = seen /\ r.genres = names /\ r.links = links
        BY <2>2, <3>1
      <4> QED BY <2>1, <2>2, <4>1 DEF Mirrors, StillMirrors, Mirrored, KeepsPicks
    <3>2. CASE r = Resting
      BY <3>2 DEF Mirrors, Resting
    <3> QED BY <2>5, <3>1, <3>2
  <2> QED BY <1>0, <2>1, <2>6, <2>7
<1>5. ASSUME CommitSync(c) PROVE Goal
  <2>1. PICK r : r = [step |-> "audit", title |-> titleEdit[c].title]
    OBVIOUS
  <2>2. titleEdit' = [titleEdit EXCEPT ![c] = r]
    BY <1>5, <2>1, Zenon DEF CommitSync, Continue
  <2>3. titleEdit' = [titleEdit EXCEPT ![c] = r] /\ r.step = "audit"
    BY <2>1, <2>2
  <2>4. ~Mirrors(r)
    BY <2>3 DEF Mirrors
  <2>5. ClassWhole'
    BY <1>5 DEF CommitSync, FormsInv, ClassWhole
  <2> QED BY <2>3, <2>4, <2>5
<1>6. ASSUME titleEdit' = [titleEdit EXCEPT ![c] = Resting], UNCHANGED class PROVE Goal
  <2>1. Resting.step = "idle"
    BY DEF Resting
  <2>2. ~Mirrors(Resting)
    BY <2>1 DEF Mirrors
  <2> QED BY <1>0, <1>6, <2>1, <2>2
<1>7. Audited(c) /\ UNCHANGED <<title, class>> => Goal
  BY <1>6 DEF Audited, Continue
<1>8. EndTitleEdit(c) => Goal
  BY <1>6 DEF EndTitleEdit
<1> HIDE DEF Goal
<1> QED BY <1>1, <1>2, <1>3, <1>4, <1>5, <1>7, <1>8 DEF Serve, Goal

\* A drawer that hears of its request, or does not.
LEMMA AnswerIsSo ==
  ASSUME NEW m, DrawerIsSo(m), \A x \in Editors : AskedSo(m, x), NEW d,
         \/ m.form # NoAsk /\ (d = FormSaved(m) \/ d = FormFailed(m))
         \/ /\ m.panel # NoAsk
            /\ d = [m EXCEPT !.panel = [to |-> "reload"]] \/ d = [m EXCEPT !.panel = NoAsk]
  PROVE  DrawerIsSo(d) /\ \A x \in Editors : AskedSo(d, x)
<1>0. DOMAIN m = DrawerFields
  BY DEF DrawerIsSo
<1>1. CASE m.form # NoAsk /\ d = FormSaved(m)
  <2>1. /\ DOMAIN d = DrawerFields /\ d.form = NoAsk /\ d.baseline = m.sent
        /\ \A x \in DrawerFields \ {"form", "baseline"} : d[x] = m[x]
    BY <1>0, <1>1 DEF FormSaved, DrawerFields
  <2>2. /\ d.title = m.title /\ d.panel = m.panel /\ d.loaded = m.loaded /\ d.genres = m.genres
        /\ d.both = m.both /\ d.typed = m.typed /\ d.asked = m.asked
    BY <2>1 DEF DrawerFields
  <2>3. DrawerIsSo(d)
    BY <1>1, <2>1, <2>2 DEF DrawerIsSo, FormIsKept
  <2>4. \A x \in Editors : AskedSo(d, x)
    BY <2>1, <2>2, AsksDiffer, AskStays DEF AskedSo
  <2> QED BY <2>3, <2>4
<1>2. CASE m.form # NoAsk /\ d = FormFailed(m)
  <2>1. /\ DOMAIN d = DrawerFields /\ d.form = NoAsk /\ (d.typed <=> m.typed \/ m.asked)
        /\ \A x \in DrawerFields \ {"form", "typed"} : d[x] = m[x]
    BY <1>0, <1>2 DEF FormFailed, DrawerFields
  <2>2. /\ d.title = m.title /\ d.panel = m.panel /\ d.loaded = m.loaded /\ d.genres = m.genres
        /\ d.both = m.both /\ d.baseline = m.baseline /\ d.asked = m.asked
    BY <2>1 DEF DrawerFields
  <2>3. DrawerIsSo(d)
    BY <1>2, <2>1, <2>2 DEF DrawerIsSo, FormIsKept
  <2>4. \A x \in Editors : AskedSo(d, x)
    BY <2>1, <2>2, AsksDiffer, AskStays DEF AskedSo
  <2> QED BY <2>3, <2>4
<1>3. CASE /\ m.panel # NoAsk
           /\ d = [m EXCEPT !.panel = [to |-> "reload"]] \/ d = [m EXCEPT !.panel = NoAsk]
  <2>1. /\ DOMAIN d = DrawerFields /\ d.panel \in {[to |-> "reload"], NoAsk}
        /\ \A x \in DrawerFields \ {"panel"} : d[x] = m[x]
    BY <1>0, <1>3 DEF DrawerFields
  <2>2. /\ d.title = m.title /\ d.form = m.form /\ d.loaded = m.loaded /\ d.genres = m.genres
        /\ d.both = m.both /\ d.baseline = m.baseline /\ d.asked = m.asked /\ d.typed = m.typed
        /\ d.sent = m.sent
    BY <2>1 DEF DrawerFields
  <2>3. DrawerIsSo(d)
    BY <1>3, <2>1, <2>2 DEF DrawerIsSo, FormIsKept
  <2>4. \A x \in Editors : AskedSo(d, x)
    BY <2>1, <2>2, AsksDiffer, AskStays DEF AskedSo
  <2> QED BY <2>3, <2>4
<1> QED BY <1>1, <1>2, <1>3

\* A request goes on, and the drawer that waits for it may hear of it.
LEMMA ServeKeeps ==
  ASSUME FormsInv, NEW c \in Editors, Serve(c) \/ EndTitleEdit(c),
         \/ UNCHANGED forms
         \/ \E a \in Admins : InHand(a) /\ (Answered(a, c) \/ Failed(a, c))
  PROVE  FormsInv'
<1>1. PICK r : /\ titleEdit' = [titleEdit EXCEPT ![c] = r] /\ r.step # "classify"
               /\ Mirrors(r) => StillMirrors(r, titleEdit[c])
  BY ServeMoves
<1>2. ClassWhole'
  BY ServeMoves
<1>3. ASSUME NEW m, \A x \in Editors : AskedSo(m, x)
      PROVE  AskedOf(m, c, r)
  <2>1. AskedSo(m, c)
    BY <1>3
  <2> QED BY <1>1, <2>1 DEF AskedSo, AskedOf, StillMirrors
<1>4. /\ forms' = [b \in Admins |-> forms'[b]]
      /\ \A b \in Admins : forms'[b].open =>
           DrawerIsSo(forms'[b]) /\ \A x \in Editors : AskedSo(forms'[b], x)
  <2>1. CASE UNCHANGED forms
    BY <2>1, DrawerIs DEF FormsInv, InHand
  <2>2. ASSUME NEW a \in Admins, InHand(a), Answered(a, c) \/ Failed(a, c)
        PROVE  /\ forms' = [b \in Admins |-> forms'[b]]
               /\ \A b \in Admins : forms'[b].open =>
                    DrawerIsSo(forms'[b]) /\ \A x \in Editors : AskedSo(forms'[b], x)
    <3>1. PICK m : m = forms[a]
      OBVIOUS
    <3>2. PICK d : /\ Change(a, d)
                   /\ \/ m.form # NoAsk /\ (d = FormSaved(m) \/ d = FormFailed(m))
                      \/ /\ m.panel # NoAsk
                         /\ d = [m EXCEPT !.panel = [to |-> "reload"]] \/ d = [m EXCEPT !.panel = NoAsk]
      <4>1. [to |-> c] # NoAsk
        BY AsksDiffer
      <4> QED BY <2>2, <3>1, <4>1 DEF Answered, Failed
    <3>3. DrawerIsSo(m) /\ \A x \in Editors : AskedSo(m, x)
      BY <2>2, <3>1, DrawerIs
    <3>4. DrawerIsSo(d) /\ \A x \in Editors : AskedSo(d, x)
      BY <3>2, <3>3, AnswerIsSo
    <3>5. /\ forms' = [b \in Admins |-> forms'[b]]
          /\ \A b \in Admins : forms'[b] = IF b = a THEN d ELSE forms[b]
      BY <3>2 DEF FormsInv, Change
    <3> QED BY <3>4, <3>5, DrawerIs DEF InHand
  <2> QED BY <2>1, <2>2
<1> QED BY <1>1, <1>2, <1>3, <1>4, RequestMoves

\* Every step of drawers and requests.
LEMMA FormsStep ==
  ASSUME FormsInv, [FormsNext]_formVars
  PROVE  FormsInv'
<1>1. CASE UNCHANGED formVars
  BY <1>1 DEF formVars, titleVars, FormsInv, ClassWhole, InHand, DrawerIsSo, FormIsKept, PanelIsKept,
              AskedSo, AskedOf, Mirrors, Mirrored, KeepsPicks
<1>2. ASSUME NEW c \in Editors, ServeAndAnswer(c) \/ FailAndAnswer(c) PROVE FormsInv'
  BY <1>2, ServeKeeps DEF ServeAndAnswer, FailAndAnswer
<1> QED BY <1>1, <1>2, OpenKeeps, LoadPanelKeeps, CloseKeeps, ReloadKeeps, TypeKeeps, EditPanelKeeps,
           SaveFormKeeps, SavePanelKeeps DEF FormsNext

\* What lands is the step of the service on its own request, whatever the drawers do.
LEMMA LandsByService ==
  ASSUME FormsInv, [FormsNext]_formVars, NEW c \in Editors, NEW t, NEW step \in {"classify", "link"},
         Lands(c, step, t)
  PROVE  IF step = "classify" THEN CommitClassify(c) ELSE CommitSync(c)
<1>1. titleEdit[c].step = step /\ titleEdit'[c].step = "audit"
  BY DEF Lands
<1>2. titleEdit[c] # Resting /\ titleEdit'[c] # titleEdit[c] /\ titleEdit' # titleEdit
  BY <1>1 DEF Resting
<1>3. titleEdit = [x \in Editors |-> titleEdit[x]]
  BY DEF FormsInv
<1>4. \A q \in Editors : \A i, body : ~BeginUpdate(q, i, body) /\ ~BeginClassify(q, i, body)
  <2>1. ASSUME NEW q \in Editors, NEW r, Begin(q, r) PROVE FALSE
    <3>1. titleEdit[q] = Resting /\ titleEdit' = [titleEdit EXCEPT ![q] = r]
      BY <2>1, Zenon DEF Begin
    <3> QED BY <1>2, <1>3, <3>1
  <2> QED BY <2>1, Zenon DEF BeginUpdate, BeginClassify
<1>5. PICK x \in Editors : ServeAndAnswer(x) \/ FailAndAnswer(x)
  <2>1. \A b \in Admins, i \in TitleIds : ~OpenDrawer(b, i)
    BY <1>2 DEF OpenDrawer, titleVars
  <2>2. \A b \in Admins : ~LoadPanel(b) /\ ~CloseDrawer(b) /\ ~PanelReloads(b)
    BY <1>2 DEF LoadPanel, CloseDrawer, PanelReloads, titleVars
  <2>3. /\ \A b \in Admins, names \in GenreTexts : ~TypeGenres(b, names)
        /\ \A b \in Admins, e \in PanelEdits : ~EditPanel(b, e)
    BY <1>2, Zenon DEF TypeGenres, EditPanel, titleVars
  <2>4. \A b \in Admins, q \in Editors : ~SaveForm(b, q) /\ ~SavePanel(b, q)
    BY <1>4, Zenon DEF SaveForm, SavePanel
  <2>5. FormsNext
    BY <1>2 DEF formVars, titleVars
  <2> QED BY <2>1, <2>2, <2>3, <2>4, <2>5, Zenon DEF FormsNext
<1>6. PICK r : titleEdit' = [titleEdit EXCEPT ![x] = r]
  <2>1. Serve(x) \/ EndTitleEdit(x)
    BY <1>5, Zenon DEF ServeAndAnswer, FailAndAnswer
  <2> QED BY <2>1, ServeMoves
<1>7. x = c
  BY <1>2, <1>3, <1>6
<1>8. ~EndTitleEdit(c)
  <2>1. ASSUME EndTitleEdit(c) PROVE FALSE
    <3>1. titleEdit' = [titleEdit EXCEPT ![c] = Resting]
      BY <2>1, Zenon DEF EndTitleEdit
    <3> QED BY <1>1, <1>3, <3>1 DEF Resting
  <2> QED BY <2>1
<1>9. Serve(c)
  BY <1>5, <1>7, <1>8, Zenon DEF ServeAndAnswer, FailAndAnswer
<1>10. /\ MergePatch(c) => titleEdit[c].step = "merge"
       /\ SaveRow(c) => titleEdit[c].step = "save"
       /\ BeginSync(c) => titleEdit[c].step = "sync"
       /\ CommitClassify(c) => titleEdit[c].step = "classify"
       /\ CommitSync(c) => titleEdit[c].step = "link"
       /\ Audited(c) => titleEdit[c].step = "audit"
  BY Zenon DEF MergePatch, SaveRow, BeginSync, CommitClassify, CommitSync, Audited
<1>11. CASE step = "classify"
  <2>1. CommitClassify(c)
    BY <1>1, <1>9, <1>10, <1>11 DEF Serve
  <2> QED BY <1>11, <2>1
<1>12. CASE step = "link"
  <2>1. CommitSync(c)
    BY <1>1, <1>9, <1>10, <1>12 DEF Serve
  <2> QED BY <1>12, <2>1
<1> QED BY <1>11, <1>12

\* A classification that is written changes what the panel chose, to what it chose, and
\* nothing else (diffClassification, update).
LEMMA PanelWrites ==
  ASSUME FormsInv, [FormsNext]_formVars, NEW c \in Editors, NEW a \in Sender(c, "panel"),
         NEW t, t = forms[a].title, Lands(c, "classify", t),
         NEW kept, kept = forms[a].loaded, NEW k \in DOMAIN kept.draft
  PROVE  /\ class'[t][k] # class[t][k] => k \in kept.touched
         /\ kept.draft[k] # draftFromDto(kept.base)[k] => class'[t][k] = kept.draft[k]
<1>1. t = titleEdit[c].title /\ titleEdit[c].step = "classify"
  BY DEF Lands
<1>2. a \in Admins /\ InHand(a) /\ forms[a].panel = [to |-> c]
  BY DEF Sender
<1>3. PICK input : input = titleEdit[c].input
  OBVIOUS
<1>4. /\ DOMAIN input \subseteq kept.touched /\ k \in ClassDomain \ {"auto"}
      /\ input = diffClassification(kept.base, kept.draft)
      /\ t \in TitleIds
  <2>1. DrawerIsSo(forms[a]) /\ AskedSo(forms[a], c)
    BY <1>2, DrawerIs
  <2>2. kept # NoPanel
    BY <1>2, <2>1, AsksDiffer DEF DrawerIsSo
  <2> QED BY <1>1, <1>2, <1>3, <2>1, <2>2 DEF AskedSo, AskedOf, DrawerIsSo, PanelIsKept
<1>5. CommitClassify(c)
  BY LandsByService
<1>6. PICK given : given = Merged(class[t], input)
  OBVIOUS
<1>7. PICK auto : auto = titleEdit[c].auto \ given.manual
  OBVIOUS
<1>8. class' = [class EXCEPT ![t] = [given EXCEPT !.auto = auto]]
  BY <1>1, <1>3, <1>5, <1>6, <1>7 DEF CommitClassify
<1>9. DOMAIN class[t] = ClassDomain
  BY <1>4 DEF FormsInv, ClassWhole
<1>10. class'[t] = [given EXCEPT !.auto = auto]
  BY <1>4, <1>8 DEF FormsInv, ClassWhole
<1>11. DOMAIN given = ClassDomain /\ given[k] = IF k \in DOMAIN input THEN input[k] ELSE class[t][k]
  BY <1>4, <1>6, <1>9 DEF Merged, Given
<1>12. class'[t][k] = given[k]
  BY <1>4, <1>10, <1>11
<1>13. kept.draft[k] # draftFromDto(kept.base)[k] => k \in DOMAIN input /\ input[k] = kept.draft[k]
  BY <1>4 DEF diffClassification
<1> QED BY <1>4, <1>11, <1>12, <1>13

\* Genres reach the joins only from a form in which they were typed, or whose saves were
\* both under way, and they are the genres it sent (MovieEditor's save, syncLegacy).
LEMMA FormWrites ==
  ASSUME FormsInv, [FormsNext]_formVars, NEW c \in Editors, NEW a \in Sender(c, "form"),
         NEW t, t = forms[a].title, Lands(c, "link", t)
  PROVE  /\ forms[a].asked \/ forms[a].both
         /\ Tops(class'[t].links) = forms[a].sent \cap TopGenres
<1>1. t = titleEdit[c].title /\ titleEdit[c].step = "link"
  BY DEF Lands
<1>2. a \in Admins /\ InHand(a) /\ forms[a].form = [to |-> c]
  BY DEF Sender
<1>3. DrawerIsSo(forms[a]) /\ AskedSo(forms[a], c)
  BY <1>2, DrawerIs
<1>4. /\ forms[a].asked \/ forms[a].both
      /\ Mirrored(titleEdit[c]) = forms[a].sent /\ KeepsPicks(titleEdit[c])
  <2>1. Mirrors(titleEdit[c])
    BY <1>1 DEF Mirrors
  <2> QED BY <1>2, <1>3, <2>1 DEF AskedSo, AskedOf
<1>5. titleEdit[c].links = KeptLinks(titleEdit[c].seen, forms[a].sent)
  BY <1>1, <1>4 DEF Mirrored, KeepsPicks
<1>6. CommitSync(c)
  BY LandsByService
<1>7. PICK links : links = titleEdit[c].links
  OBVIOUS
<1>8. class' = [class EXCEPT ![t].links = links]
  BY <1>1, <1>6, <1>7 DEF CommitSync
<1>9. class = [x \in TitleIds |-> class[x]] /\ t \in TitleIds /\ "links" \in DOMAIN class[t]
  BY <1>3 DEF FormsInv, ClassWhole, DrawerIsSo, ClassDomain, Unclassified
<1>10. class'[t].links = links
  BY <1>8, <1>9
<1> QED BY <1>4, <1>5, <1>7, <1>10, KeptTops

\* An admin's drawer writes what was changed in it and nothing else, whatever other
\* admins save meanwhile and however the answers cross (MovieEditor's and
\* ClassificationPanel's save, diffClassification).
THEOREM DrawersWriteTheirEdits == FormsSpec => DrawerWritesItsEdits
<1>1. FormsInv /\ [FormsNext]_formVars => FormsInv'
  BY FormsStep
<1>2. ASSUME FormsInv, [FormsNext]_formVars
      PROVE  \A c \in Editors, a \in Admins :
               a \in Sender(c, "panel") /\ Lands(c, "classify", forms[a].title) =>
                 LET kept == forms[a].loaded
                     t == forms[a].title
                 IN  \A k \in DOMAIN kept.draft :
                       /\ class'[t][k] # class[t][k] => k \in kept.touched
                       /\ kept.draft[k] # draftFromDto(kept.base)[k] =>
                            class'[t][k] = kept.draft[k]
  BY <1>2, PanelWrites
<1>3. ASSUME FormsInv, [FormsNext]_formVars
      PROVE  \A c \in Editors, a \in Admins :
               a \in Sender(c, "form") /\ Lands(c, "link", forms[a].title) =>
                 /\ forms[a].asked \/ forms[a].both
                 /\ Tops(class'[forms[a].title].links) = forms[a].sent \cap TopGenres
  BY <1>3, FormWrites
<1> QED BY FormsInvInit, <1>1, <1>2, <1>3, PTL
        DEF FormsSpec, DrawerWritesItsEdits, PanelWritesItsEdits, FormKeepsPicks

-----------------------------------------------------------------------------
(* The rules drawer of the Studio.                                         *)

FieldValues == (SUBSET STRING) \cup Seq(STRING) \cup Int \cup {EmptyText, "any", "yes", "no"}

Forms ==
  {f \in [FormKeys -> FieldValues] :
     /\ \A k \in ListKeys : checkRuleValue(k, f[k])
     /\ \A k \in NumberKeys : f[k] \in Int \cup {EmptyText}
     /\ \A k \in FlagKeys : f[k] \in {"any", "yes", "no"}}

Drafts == [top : Forms, anyOf : Seq(Forms)]

\* A key has one kind, and none is the branches.
LEMMA KeyKinds ==
  /\ ListKeys \cap NumberKeys = {} /\ ListKeys \cap FlagKeys = {} /\ NumberKeys \cap FlagKeys = {}
  /\ "anyOf" \notin FormKeys /\ FormKeys = ListKeys \cup NumberKeys \cup FlagKeys
BY DEF ListKeys, NumberKeys, FlagKeys, FormKeys

\* What stands for a field with nothing in it (RulesForm).
LEMMA NothingIs ==
  /\ \A k \in NumberKeys : NothingChosen(k) = EmptyText
  /\ \A k \in FlagKeys : NothingChosen(k) = "any"
  /\ \A k \in ListKeys : checkRuleValue(k, NothingChosen(k))
<1>1. ASSUME NEW k \in NumberKeys PROVE NothingChosen(k) = EmptyText
  BY DEF NothingChosen, ListKeys, NumberKeys, FlagKeys
<1>2. ASSUME NEW k \in FlagKeys PROVE NothingChosen(k) = "any"
  BY DEF NothingChosen, ListKeys, NumberKeys, FlagKeys
<1>3. ASSUME NEW k \in ListKeys PROVE checkRuleValue(k, NothingChosen(k))
  <2>1. CASE k = "collectionsAny"
    <3>1. NothingChosen("collectionsAny") = <<>>
      BY DEF NothingChosen, ListKeys, NumberKeys, FlagKeys
    <3>2. <<>> \in Seq(STRING)
      OBVIOUS
    <3>3. checkRuleValue("collectionsAny", <<>>)
      BY <3>2 DEF checkRuleValue, NumberKeys, FlagKeys
    <3> QED BY <2>1, <3>1, <3>3
  <2>2. CASE k # "collectionsAny"
    <3>1. NothingChosen(k) = {}
      BY <2>2, KeyKinds DEF NothingChosen, NumberKeys, FlagKeys, ListKeys
    <3> QED BY <2>2, <3>1, KeyKinds DEF checkRuleValue
  <2> QED BY <2>1, <2>2
<1> QED BY <1>1, <1>2, <1>3

\* A form is made field by field.
LEMMA FormFields ==
  ASSUME NEW f, f = [k \in FormKeys |-> f[k]],
         \A k \in ListKeys : checkRuleValue(k, f[k]),
         \A k \in NumberKeys : f[k] \in Int \cup {EmptyText},
         \A k \in FlagKeys : f[k] \in {"any", "yes", "no"}
  PROVE  f \in Forms
<1>1. ASSUME NEW k \in FormKeys PROVE f[k] \in FieldValues
  <2>1. CASE k \in ListKeys
    BY <2>1 DEF checkRuleValue, FieldValues
  <2>2. CASE k \in NumberKeys
    BY <2>2 DEF FieldValues
  <2>3. CASE k \in FlagKeys
    BY <2>3 DEF FieldValues
  <2> QED BY <2>1, <2>2, <2>3, KeyKinds
<1>2. f \in [FormKeys -> FieldValues]
  BY <1>1, Zenon
<1> QED BY <1>2, Zenon DEF Forms

\* The form the drawer starts with when it cannot show the rules.
LEMMA EmptyIsForm == emptyRulesForm \in Forms
<1>1. PICK f : f = emptyRulesForm
  OBVIOUS
<1>2. f = [k \in FormKeys |-> NothingChosen(k)]
  BY <1>1 DEF emptyRulesForm
<1>3. f = [k \in FormKeys |-> f[k]] /\ \A k \in FormKeys : f[k] = NothingChosen(k)
  BY <1>2, Zenon
<1>4. \A k \in ListKeys : checkRuleValue(k, f[k])
  BY <1>3, NothingIs, KeyKinds, Zenon
<1>5. /\ \A k \in NumberKeys : f[k] = EmptyText
      /\ \A k \in FlagKeys : f[k] = "any"
  BY <1>3, NothingIs, KeyKinds
<1>6. f \in Forms
  BY <1>3, <1>4, <1>5, FormFields
<1> QED BY <1>1, <1>6

-----------------------------------------------------------------------------
(* From rules to the form and back.                                        *)

\* Rules that parse make a form without errors (formFromRules).
LEMMA RulesMakeForm ==
  ASSUME NEW r, FieldsParse(r)
  PROVE  formFromRules(r) \in Forms /\ ~Invalid(formFromRules(r))
<1>1. PICK f : f = formFromRules(r)
  OBVIOUS
<1>2. /\ f = [k \in FormKeys |-> f[k]]
      /\ \A k \in FormKeys : f[k] = IF k \notin DOMAIN r THEN NothingChosen(k)
                                   ELSE IF k \in FlagKeys THEN IF r[k] THEN "yes" ELSE "no"
                                   ELSE r[k]
  BY <1>1, Zenon DEF formFromRules
<1>3. \A k \in DOMAIN r : k # "anyOf" => checkRuleValue(k, r[k])
  BY Zenon DEF FieldsParse
<1>4. ASSUME NEW k \in ListKeys PROVE checkRuleValue(k, f[k])
  <2>1. k \in FormKeys /\ k \notin FlagKeys /\ k # "anyOf"
    BY KeyKinds
  <2>2. f[k] = NothingChosen(k) \/ (k \in DOMAIN r /\ f[k] = r[k])
    BY <1>2, <2>1
  <2> QED BY <1>3, <2>1, <2>2, NothingIs, Zenon
<1>5. ASSUME NEW k \in NumberKeys PROVE f[k] = EmptyText \/ f[k] \in Nat
  <2>1. k \in FormKeys /\ k \notin FlagKeys /\ k # "anyOf"
    BY KeyKinds
  <2>2. f[k] = NothingChosen(k) \/ (k \in DOMAIN r /\ f[k] = r[k])
    BY <1>2, <2>1
  <2>3. k \in DOMAIN r => r[k] \in Nat
    BY <1>3, <2>1 DEF checkRuleValue
  <2> QED BY <2>2, <2>3, NothingIs
<1>6. ASSUME NEW k \in FlagKeys PROVE f[k] \in {"any", "yes", "no"}
  <2>1. k \in FormKeys
    BY KeyKinds
  <2> QED BY <1>2, <2>1, NothingIs
<1>7. f \in Forms
  BY <1>2, <1>4, <1>5, <1>6, FormFields
<1>8. ~Invalid(f)
  BY <1>5, KeyKinds DEF Invalid, checkRuleValue
<1> QED BY <1>1, <1>7, <1>8

\* The form of rules without empty lists makes the same rules again (rulesFromForm).
LEMMA FormKeepsRules ==
  ASSUME NEW r, FieldsParse(r), ~EmptyListIn(r)
  PROVE  rulesFromForm(formFromRules(r)) = [k \in DOMAIN r \ {"anyOf"} |-> r[k]]
<1>1. PICK f : f = formFromRules(r)
  OBVIOUS
<1>2. \A k \in FormKeys : f[k] = IF k \notin DOMAIN r THEN NothingChosen(k)
                                ELSE IF k \in FlagKeys THEN IF r[k] THEN "yes" ELSE "no"
                                ELSE r[k]
  BY <1>1, Zenon DEF formFromRules
<1>3. /\ DOMAIN r \subseteq FormKeys \cup {"anyOf"}
      /\ \A k \in DOMAIN r : k # "anyOf" => checkRuleValue(k, r[k])
  BY Zenon DEF FieldsParse
<1>4. ASSUME NEW k \in DOMAIN r, k # "anyOf" PROVE f[k] # NothingChosen(k)
  <2>1. k \in FormKeys /\ checkRuleValue(k, r[k])
    BY <1>3, <1>4
  <2>2. CASE k \in ListKeys
    BY <1>2, <2>1, <2>2, KeyKinds DEF EmptyListIn
  <2>3. CASE k \in NumberKeys
    <3>1. f[k] \in Nat
      BY <1>2, <2>1, <2>3, KeyKinds DEF checkRuleValue
    <3> QED BY <2>3, <3>1, NothingIs, EditorConstants
  <2>4. CASE k \in FlagKeys
    BY <1>2, <2>1, <2>4, NothingIs
  <2> QED BY <2>1, <2>2, <2>3, <2>4, KeyKinds
<1>5. PICK given : given = {k \in FormKeys : f[k] # NothingChosen(k)}
  OBVIOUS
<1>6. given = DOMAIN r \ {"anyOf"}
  BY <1>2, <1>3, <1>4, <1>5, KeyKinds
<1>7. rulesFromForm(f) = [k \in given |-> IF k \in FlagKeys THEN f[k] = "yes" ELSE f[k]]
  BY <1>5, Zenon DEF rulesFromForm
<1>8. ASSUME NEW k \in given PROVE (IF k \in FlagKeys THEN f[k] = "yes" ELSE f[k]) = r[k]
  <2>1. k \in FormKeys /\ k \in DOMAIN r /\ k # "anyOf"
    BY <1>5, <1>6
  <2>2. CASE k \in FlagKeys
    <3>1. r[k] \in BOOLEAN /\ f[k] = IF r[k] THEN "yes" ELSE "no"
      BY <1>2, <1>3, <2>1, <2>2, Zenon DEF checkRuleValue
    <3>2. CASE r[k] = TRUE
      <4>1. f[k] = "yes"
        BY <3>1, <3>2
      <4> QED BY <2>2, <3>2, <4>1, Zenon
    <3>3. CASE r[k] = FALSE
      <4>1. f[k] = "no"
        BY <3>1, <3>3
      <4>2. (f[k] = "yes") = FALSE
        BY <4>1
      <4> QED BY <2>2, <3>3, <4>2, Zenon
    <3> QED BY <3>1, <3>2, <3>3, Zenon
  <2>3. CASE k \notin FlagKeys
    BY <1>2, <2>1, <2>3
  <2> QED BY <2>2, <2>3
<1>9. rulesFromForm(f) = [k \in given |-> r[k]]
  BY <1>7, <1>8, Zenon
<1> QED BY <1>1, <1>6, <1>9

\* A form without errors makes rules that parse, with no branches among its keys.
LEMMA FormMakesRules ==
  ASSUME NEW f \in Forms, ~Invalid(f)
  PROVE  FieldsParse(rulesFromForm(f)) /\ DOMAIN rulesFromForm(f) \subseteq FormKeys
<1>1. PICK given : given = {k \in FormKeys : f[k] # NothingChosen(k)}
  OBVIOUS
<1>2. PICK r : r = [k \in given |-> IF k \in FlagKeys THEN f[k] = "yes" ELSE f[k]]
  OBVIOUS
<1>3. r = rulesFromForm(f)
  BY <1>1, <1>2, Zenon DEF rulesFromForm
<1>4. DOMAIN r = given /\ isPlainObject(r)
  BY <1>2, Zenon DEF isPlainObject
<1>5. given \subseteq FormKeys /\ "anyOf" \notin given
  BY <1>1, KeyKinds
<1>6. ASSUME NEW k \in given PROVE checkRuleValue(k, r[k])
  <2>1. CASE k \in ListKeys
    <3>1. r[k] = f[k]
      BY <1>2, <2>1, KeyKinds
    <3>2. checkRuleValue(k, f[k])
      BY <2>1 DEF Forms
    <3> QED BY <3>1, <3>2
  <2>2. CASE k \in NumberKeys
    <3>1. r[k] = f[k] /\ f[k] # EmptyText
      BY <1>1, <1>2, <2>2, KeyKinds, NothingIs
    <3>2. checkRuleValue(k, f[k])
      BY <2>2, <3>1 DEF Invalid
    <3> QED BY <3>1, <3>2
  <2>3. CASE k \in FlagKeys
    <3>1. r[k] = (f[k] = "yes")
      BY <1>2, <2>3, Zenon
    <3>2. r[k] \in BOOLEAN
      BY <3>1, Zenon
    <3> QED BY <2>3, <3>2, KeyKinds, Zenon DEF checkRuleValue
  <2> QED BY <1>5, <2>1, <2>2, <2>3, KeyKinds
<1>7. FieldsParse(r)
  BY <1>4, <1>5, <1>6, Zenon DEF FieldsParse
<1> QED BY <1>3, <1>4, <1>5, <1>7

\* What parses has an array of branches, each of which parses.
LEMMA BranchesParse ==
  ASSUME NEW r, parseRulesAt(r)
  PROVE  /\ FieldsParse(r)
         /\ \E n \in Nat : DOMAIN anyOfs(r) = 1..n
         /\ "anyOf" \in DOMAIN r => r["anyOf"] = [i \in DOMAIN anyOfs(r) |-> anyOfs(r)[i]]
         /\ \A i \in DOMAIN anyOfs(r) : FieldsParse(anyOfs(r)[i])
<1>1. FieldsParse(r) /\ \A i \in DOMAIN anyOfs(r) : FieldsParse(anyOfs(r)[i])
  BY Zenon DEF parseRulesAt
<1>2. CASE "anyOf" \in DOMAIN r
  <2>1. anyOfs(r) = r["anyOf"] /\ IsArray(r["anyOf"])
    BY <1>1, <1>2, Zenon DEF anyOfs, FieldsParse
  <2>2. PICK v : v = r["anyOf"]
    OBVIOUS
  <2>3. PICK n : n = Len(v)
    OBVIOUS
  <2>4. n \in Nat /\ v = [i \in 1..n |-> v[i]]
    BY <2>1, <2>2, <2>3, Zenon DEF IsArray
  <2>5. DOMAIN v = 1..n
    BY <2>4, Zenon
  <2>6. v = [i \in DOMAIN v |-> v[i]]
    BY <2>4, <2>5, Zenon
  <2> QED BY <1>1, <2>1, <2>2, <2>4, <2>5, <2>6, Zenon
<1>3. CASE "anyOf" \notin DOMAIN r
  <2>1. anyOfs(r) = <<>>
    BY <1>3 DEF anyOfs
  <2>2. DOMAIN anyOfs(r) = 1..0
    BY <2>1
  <2>3. 0 \in Nat
    OBVIOUS
  <2> QED BY <1>1, <1>3, <2>2, <2>3, Zenon
<1> QED BY <1>2, <1>3

\* Rules the form can show make a draft without errors.
LEMMA RulesMakeDraft ==
  ASSUME NEW r, parseRulesAt(r)
  PROVE  draftFromRules(r) \in Drafts /\ ~FormErrors(draftFromRules(r))
<1>1. PICK b : b = anyOfs(r)
  OBVIOUS
<1>2. PICK n \in Nat : DOMAIN b = 1..n
  BY <1>1, BranchesParse
<1>3. PICK branches : branches = [i \in 1..n |-> formFromRules(b[i])]
  OBVIOUS
<1>4. PICK top : top = formFromRules(r)
  OBVIOUS
<1>5. draftFromRules(r) = [top |-> top, anyOf |-> branches]
  BY <1>1, <1>2, <1>3, <1>4, Zenon DEF draftFromRules
<1>6. top \in Forms /\ ~Invalid(top)
  BY <1>4, BranchesParse, RulesMakeForm
<1>7. \A i \in 1..n : branches[i] \in Forms /\ ~Invalid(branches[i])
  <2>1. SUFFICES ASSUME NEW i \in 1..n PROVE branches[i] \in Forms /\ ~Invalid(branches[i])
    OBVIOUS
  <2>2. FieldsParse(b[i])
    BY <1>1, <1>2, BranchesParse
  <2>3. branches[i] = formFromRules(b[i])
    BY <1>3, Zenon
  <2> QED BY <2>2, <2>3, RulesMakeForm
<1>8. branches \in Seq(Forms) /\ DOMAIN branches = 1..n
  BY <1>2, <1>3, <1>7
<1>9. PICK d : d = [top |-> top, anyOf |-> branches]
  OBVIOUS
<1>10. d \in Drafts /\ d.top = top /\ d.anyOf = branches
  BY <1>6, <1>8, <1>9 DEF Drafts
<1>11. ~FormErrors(d)
  BY <1>6, <1>7, <1>8, <1>10 DEF FormErrors
<1> QED BY <1>5, <1>9, <1>10, <1>11

\* ... and the draft the same rules (rulesFromDraft).
LEMMA DraftKeepsRules ==
  ASSUME NEW r, parseRulesAt(r), ~formUnsupported(r)
  PROVE  rulesFromDraft(draftFromRules(r)) = r
<1>1. PICK b : b = anyOfs(r)
  OBVIOUS
<1>2. PICK top : top = formFromRules(r)
  OBVIOUS
<1>3. PICK shown : shown = [i \in DOMAIN b |-> formFromRules(b[i])]
  OBVIOUS
<1>4. PICK d : d = [top |-> top, anyOf |-> shown]
  OBVIOUS
<1>5. d = draftFromRules(r) /\ d.top = top /\ d.anyOf = shown
  BY <1>1, <1>2, <1>3, <1>4 DEF draftFromRules
<1>6. /\ FieldsParse(r) /\ ~EmptyListIn(r)
      /\ \A i \in DOMAIN b : /\ FieldsParse(b[i]) /\ ~EmptyListIn(b[i])
                            /\ "anyOf" \notin DOMAIN b[i]
  BY <1>1, BranchesParse, Zenon DEF formUnsupported
<1>7. PICK own : own = rulesFromForm(top)
  OBVIOUS
<1>8. own = [k \in DOMAIN r \ {"anyOf"} |-> r[k]]
  BY <1>2, <1>6, <1>7, FormKeepsRules
<1>9. isPlainObject(r)
  BY <1>6 DEF FieldsParse
<1>10. CASE "anyOf" \notin DOMAIN r
  <2>1. b = <<>>
    BY <1>1, <1>10 DEF anyOfs
  <2>2. shown = <<>>
    BY <1>3, <2>1
  <2>3. rulesFromDraft(d) = own
    BY <1>5, <1>7, <2>2 DEF rulesFromDraft
  <2>4. DOMAIN r \ {"anyOf"} = DOMAIN r
    BY <1>10
  <2>5. own = r
    BY <1>8, <1>9, <2>4 DEF isPlainObject
  <2> QED BY <1>5, <2>3, <2>5
<1>11. CASE "anyOf" \in DOMAIN r
  <2>1. b = r["anyOf"] /\ b # <<>>
    BY <1>1, <1>11 DEF anyOfs, formUnsupported
  <2>2. b = [i \in DOMAIN b |-> b[i]] /\ \E n \in Nat : DOMAIN b = 1..n
    BY <1>1, <1>11, <2>1, BranchesParse
  <2>3. shown # <<>> /\ DOMAIN shown = DOMAIN b
    <3>1. DOMAIN shown = DOMAIN b
      BY <1>3
    <3>2. ASSUME DOMAIN b = {} PROVE FALSE
      BY <2>1, <2>2, <3>2
    <3> QED BY <3>1, <3>2
  <2>4. ASSUME NEW i \in DOMAIN b PROVE rulesFromForm(shown[i]) = b[i]
    <3>1. shown[i] = formFromRules(b[i])
      BY <1>3
    <3>2. rulesFromForm(shown[i]) = [k \in DOMAIN b[i] \ {"anyOf"} |-> b[i][k]]
      BY <1>6, <3>1, FormKeepsRules
    <3>3. DOMAIN b[i] \ {"anyOf"} = DOMAIN b[i]
      BY <1>6
    <3>4. isPlainObject(b[i])
      BY <1>6 DEF FieldsParse
    <3> QED BY <3>2, <3>3, <3>4 DEF isPlainObject
  <2>5. PICK branches : branches = [i \in DOMAIN shown |-> rulesFromForm(shown[i])]
    OBVIOUS
  <2>6. branches = b
    BY <2>2, <2>3, <2>4, <2>5
  <2>7. rulesFromDraft(d) = [k \in DOMAIN own \cup {"anyOf"} |-> IF k = "anyOf" THEN branches ELSE own[k]]
    BY <1>5, <1>7, <2>3, <2>5, Zenon DEF rulesFromDraft
  <2>8. DOMAIN own \cup {"anyOf"} = DOMAIN r
    BY <1>8, <1>11
  <2>9. \A k \in DOMAIN r : (IF k = "anyOf" THEN branches ELSE own[k]) = r[k]
    BY <1>8, <2>1, <2>6
  <2>10. rulesFromDraft(d) = [k \in DOMAIN r |-> r[k]]
    BY <2>7, <2>8, <2>9
  <2> QED BY <1>5, <1>9, <2>10 DEF isPlainObject
<1> QED BY <1>10, <1>11

\* A draft without errors makes rules that parse: what goes into the text can be saved
\* from there.
LEMMA DraftMakesRules ==
  ASSUME NEW d \in Drafts, ~FormErrors(d)
  PROVE  parseRulesAt(rulesFromDraft(d))
<1>1. PICK own : own = rulesFromForm(d.top)
  OBVIOUS
<1>2. PICK shown : shown = d.anyOf
  OBVIOUS
<1>3. d.top \in Forms /\ ~Invalid(d.top) /\ shown \in Seq(Forms)
      /\ \A i \in DOMAIN shown : ~Invalid(shown[i])
  BY <1>2 DEF Drafts, FormErrors
<1>4. FieldsParse(own) /\ DOMAIN own \subseteq FormKeys
  BY <1>1, <1>3, FormMakesRules
<1>5. "anyOf" \notin DOMAIN own
  BY <1>4, KeyKinds
<1>6. CASE shown = <<>>
  <2>1. rulesFromDraft(d) = own
    BY <1>1, <1>2, <1>6 DEF rulesFromDraft
  <2>2. anyOfs(own) = <<>>
    BY <1>5 DEF anyOfs
  <2> QED BY <1>4, <2>1, <2>2 DEF parseRulesAt
<1>7. CASE shown # <<>>
  <2>1. PICK branches : branches = [i \in DOMAIN shown |-> rulesFromForm(shown[i])]
    OBVIOUS
  <2>2. PICK r : r = [k \in DOMAIN own \cup {"anyOf"} |-> IF k = "anyOf" THEN branches ELSE own[k]]
    OBVIOUS
  <2>3. rulesFromDraft(d) = r
    BY <1>1, <1>2, <1>7, <2>1, <2>2, Zenon DEF rulesFromDraft
  <2>4. r["anyOf"] = branches /\ DOMAIN r = DOMAIN own \cup {"anyOf"}
    BY <2>2
  <2>5. \A k \in DOMAIN own : r[k] = own[k]
    BY <1>5, <2>2
  <2>6. IsArray(branches)
    BY <1>3, <2>1 DEF IsArray
  <2>7. isPlainObject(r)
    BY <2>2, Zenon DEF isPlainObject
  <2>8. FieldsParse(r)
    <3>1. \A k \in DOMAIN r \ {"anyOf"} : checkRuleValue(k, r[k])
      BY <1>4, <1>5, <2>4, <2>5, Zenon DEF FieldsParse
    <3> QED BY <1>4, <2>4, <2>6, <2>7, <3>1, Zenon DEF FieldsParse
  <2>9. anyOfs(r) = branches
    BY <2>4 DEF anyOfs
  <2>10. ASSUME NEW i \in DOMAIN branches
         PROVE  FieldsParse(branches[i]) /\ "anyOf" \notin DOMAIN branches[i]
    <3>1. shown[i] \in Forms /\ ~Invalid(shown[i]) /\ branches[i] = rulesFromForm(shown[i])
      BY <1>3, <2>1
    <3> QED BY <3>1, FormMakesRules, KeyKinds
  <2> QED BY <2>3, <2>8, <2>9, <2>10, Zenon DEF parseRulesAt
<1> QED BY <1>6, <1>7

-----------------------------------------------------------------------------
(* The drawer.                                                             *)

DrawerInv ==
  drawer.open =>
    /\ DOMAIN drawer = {"open", "stored", "text", "changes", "tab", "draft"}
    /\ drawer.draft \in Drafts /\ drawer.tab \in {"form", "json"}

\* A drawer that was changed holds a draft again.
LEMMA ChangedIsSo ==
  ASSUME DrawerInv, drawer.open, NEW x \in Drafts,
         Changed([drawer EXCEPT !.draft = x]) \/ drawer' = [drawer EXCEPT !.draft = x]
  PROVE  DrawerInv'
BY DEF DrawerInv, Changed

\* A drawer whose draft is left alone holds it still.
LEMMA SameDraftIsSo ==
  ASSUME DrawerInv, drawer.open, NEW d, DOMAIN d = DOMAIN drawer,
         d.draft = drawer.draft, d.tab \in {"form", "json"}, drawer' = d
  PROVE  DrawerInv'
BY DEF DrawerInv

\* A field of a form takes what its picker or field offers (RuleFields).
LEMMA FieldIsSet ==
  ASSUME NEW f \in Forms, NEW k, NEW v,
         \/ k \in ListKeys /\ checkRuleValue(k, v)
         \/ k \in NumberKeys /\ v \in Int \cup {EmptyText}
         \/ k \in FlagKeys /\ v \in {"any", "yes", "no"}
  PROVE  [f EXCEPT ![k] = v] \in Forms
<1>1. PICK g : g = [f EXCEPT ![k] = v]
  OBVIOUS
<1>2. f \in [FormKeys -> FieldValues]
  BY Zenon DEF Forms
<1>3. g = [x \in FormKeys |-> g[x]] /\ \A x \in FormKeys : g[x] = IF x = k THEN v ELSE f[x]
  BY <1>1, <1>2
<1>4. ASSUME NEW x \in ListKeys PROVE checkRuleValue(x, g[x])
  <2>1. checkRuleValue(x, f[x])
    BY Zenon DEF Forms
  <2>2. x = k => checkRuleValue(x, v)
    BY KeyKinds
  <2> QED BY <1>3, <2>1, <2>2, KeyKinds
<1>5. ASSUME NEW x \in NumberKeys PROVE g[x] \in Int \cup {EmptyText}
  <2>1. f[x] \in Int \cup {EmptyText}
    BY Zenon DEF Forms
  <2> QED BY <1>3, <2>1, KeyKinds
<1>6. ASSUME NEW x \in FlagKeys PROVE g[x] \in {"any", "yes", "no"}
  <2>1. f[x] \in {"any", "yes", "no"}
    BY Zenon DEF Forms
  <2> QED BY <1>3, <2>1, KeyKinds
<1>7. g \in Forms
  BY <1>3, <1>4, <1>5, <1>6, FormFields
<1> QED BY <1>1, <1>7

\* A form with one field changed is a form, at the top or in a branch (RuleFields).
LEMMA SetFieldKeeps ==
  ASSUME DrawerInv, NEW i \in Nat, NEW k, NEW v, SetField(i, k, v),
         \/ k \in ListKeys /\ checkRuleValue(k, v)
         \/ k \in NumberKeys /\ v \in Int \cup {EmptyText}
         \/ k \in FlagKeys /\ v \in {"any", "yes", "no"}
  PROVE  DrawerInv' /\ drawer'.tab = drawer.tab
<1>1. PICK d : d = drawer.draft
  OBVIOUS
<1>2. drawer.open /\ d \in Drafts
  BY <1>1 DEF SetField, Changing, DrawerInv
<1>3. CASE i = 0
  <2>1. PICK top : top = [d.top EXCEPT ![k] = v]
    OBVIOUS
  <2>2. PICK x : x = [d EXCEPT !.top = top]
    OBVIOUS
  <2>3. top \in Forms /\ x \in Drafts
    BY <1>2, <2>1, <2>2, FieldIsSet DEF Drafts
  <2>4. Changed([drawer EXCEPT !.draft = x])
    <3>1. Changed([drawer EXCEPT !.draft.top[k] = v])
      BY <1>3 DEF SetField
    <3> QED BY <1>1, <2>1, <2>2, <3>1, Zenon
  <2>5. drawer'.tab = drawer.tab
    BY <1>2, <2>4 DEF Changed, DrawerInv
  <2> QED BY <1>2, <2>3, <2>4, <2>5, ChangedIsSo
<1>4. CASE i # 0
  <2>1. i \in DOMAIN d.anyOf /\ Changed([drawer EXCEPT !.draft.anyOf[i][k] = v])
    BY <1>1, <1>4 DEF SetField
  <2>2. PICK f : f = [d.anyOf[i] EXCEPT ![k] = v]
    OBVIOUS
  <2>3. PICK branches : branches = [d.anyOf EXCEPT ![i] = f]
    OBVIOUS
  <2>4. PICK x : x = [d EXCEPT !.anyOf = branches]
    OBVIOUS
  <2>5. d.anyOf \in Seq(Forms) /\ d.anyOf[i] \in Forms
    BY <1>2, <2>1 DEF Drafts
  <2>6. branches \in Seq(Forms)
    <3>1. f \in Forms
      BY <2>2, <2>5, FieldIsSet
    <3> QED BY <2>1, <2>3, <2>5, <3>1
  <2>7. x \in Drafts
    BY <1>2, <2>4, <2>6 DEF Drafts
  <2>8. Changed([drawer EXCEPT !.draft = x])
    BY <1>1, <2>1, <2>2, <2>3, <2>4, Zenon
  <2>9. drawer'.tab = drawer.tab
    BY <1>2, <2>8 DEF Changed, DrawerInv
  <2> QED BY <1>2, <2>7, <2>8, <2>9, ChangedIsSo
<1> QED BY <1>3, <1>4

\* Opening, typing and switching leave a draft in the drawer, and the tab is kept by
\* whatever is changed in it.
LEMMA EditorStep ==
  ASSUME DrawerInv, [EditorNext]_drawer
  PROVE  /\ DrawerInv'
         /\ \/ drawer'.tab = drawer.tab \/ showForm \/ showJson \/ ~drawer'.open
            \/ \E r \in StoredRules : OpenRules(r)
<1> DEFINE Goal == /\ DrawerInv'
                   /\ \/ drawer'.tab = drawer.tab \/ showForm \/ showJson \/ ~drawer'.open
                      \/ \E r \in StoredRules : OpenRules(r)
<1>1. UNCHANGED drawer => Goal
  BY DEF DrawerInv
<1>2. ASSUME NEW r \in StoredRules, OpenRules(r) PROVE Goal
  <2>1. parseRulesAt(r)
    BY EditorConstants
  <2>2. [top |-> emptyRulesForm, anyOf |-> <<>>] \in Drafts
    BY EmptyIsForm DEF Drafts
  <2>3. PICK x : x = IF formUnsupported(r) THEN [top |-> emptyRulesForm, anyOf |-> <<>>]
                     ELSE draftFromRules(r)
    OBVIOUS
  <2>4. x \in Drafts
    BY <2>1, <2>2, <2>3, RulesMakeDraft
  <2>5. PICK t : t = IF formUnsupported(r) THEN "json" ELSE "form"
    OBVIOUS
  <2>6. t \in {"form", "json"}
    BY <2>5
  <2>7. drawer' = [open |-> TRUE, stored |-> r, text |-> r, changes |-> 0, tab |-> t, draft |-> x]
    BY <1>2, <2>3, <2>5, Zenon DEF OpenRules
  <2>8. DrawerInv'
    BY <2>4, <2>6, <2>7 DEF DrawerInv
  <2> QED BY <1>2, <2>8
<1>3. ASSUME showForm PROVE Goal
  <2>1. PICK x : x = draftFromRules(drawer.text)
    OBVIOUS
  <2>2. x \in Drafts
    BY <1>3, <2>1, RulesMakeDraft DEF showForm
  <2>3. drawer.open /\ drawer' = [drawer EXCEPT !.draft = x, !.tab = "form"]
    BY <1>3, <2>1, Zenon DEF showForm
  <2>4. DrawerInv'
    BY <2>2, <2>3 DEF DrawerInv
  <2> QED BY <1>3, <2>4
<1>4. ASSUME showJson PROVE Goal
  <2>1. PICK x : x = rulesFromDraft(drawer.draft)
    OBVIOUS
  <2>2. drawer.open /\ drawer' = [drawer EXCEPT !.text = x, !.tab = "json"]
    BY <1>4, <2>1, Zenon DEF showJson
  <2>3. DrawerInv'
    BY <2>2 DEF DrawerInv
  <2> QED BY <1>4, <2>3
<1>5. ASSUME addBranch PROVE Goal
  <2>1. drawer.open /\ drawer.draft \in Drafts
    BY <1>5 DEF addBranch, Changing, DrawerInv
  <2>2. PICK branches : branches = Append(drawer.draft.anyOf, emptyRulesForm)
    OBVIOUS
  <2>3. branches \in Seq(Forms)
    BY <2>1, <2>2, EmptyIsForm DEF Drafts
  <2>4. PICK x : x = [drawer.draft EXCEPT !.anyOf = branches]
    OBVIOUS
  <2>5. x \in Drafts
    BY <2>1, <2>3, <2>4 DEF Drafts
  <2>6. Changed([drawer EXCEPT !.draft = x])
    BY <1>5, <2>2, <2>4, Zenon DEF addBranch
  <2>7. DrawerInv'
    BY <2>1, <2>5, <2>6, ChangedIsSo
  <2>8. drawer'.tab = drawer.tab
    BY <2>1, <2>6 DEF Changed, DrawerInv
  <2> QED BY <2>7, <2>8
<1>6. ASSUME NEW i \in Nat, removeBranch(i) PROVE Goal
  <2>1. drawer.open /\ drawer.draft \in Drafts /\ i \in DOMAIN drawer.draft.anyOf
    BY <1>6 DEF removeBranch, Changing, DrawerInv
  <2>2. PICK b : b = drawer.draft.anyOf
    OBVIOUS
  <2>3. PICK branches : branches = RemoveAt(b, i)
    OBVIOUS
  <2>4. branches \in Seq(Forms)
    <3>1. b \in Seq(Forms) /\ i \in 1..Len(b)
      BY <2>1, <2>2 DEF Drafts
    <3>2. branches = SubSeq(b, 1, i - 1) \o SubSeq(b, i + 1, Len(b))
      BY <2>3 DEF RemoveAt
    <3>3. SubSeq(b, 1, i - 1) \in Seq(Forms) /\ SubSeq(b, i + 1, Len(b)) \in Seq(Forms)
      BY <3>1
    <3> QED BY <3>2, <3>3
  <2>5. PICK x : x = [drawer.draft EXCEPT !.anyOf = branches]
    OBVIOUS
  <2>6. x \in Drafts
    BY <2>1, <2>4, <2>5 DEF Drafts
  <2>7. Changed([drawer EXCEPT !.draft = x])
    BY <1>6, <2>2, <2>3, <2>5, Zenon DEF removeBranch
  <2>8. DrawerInv'
    BY <2>1, <2>6, <2>7, ChangedIsSo
  <2>9. drawer'.tab = drawer.tab
    BY <2>1, <2>7 DEF Changed, DrawerInv
  <2> QED BY <2>8, <2>9
<1>7. ASSUME saveRules \/ cancelRules PROVE Goal
  <2>1. drawer'.open = FALSE
    BY <1>7 DEF saveRules, cancelRules, NoDrawerOpen
  <2> QED BY <2>1 DEF DrawerInv
<1>8. ASSUME NEW text \in JsonTexts, TypeJson(text) PROVE Goal
  <2>1. drawer.open /\ Changed([drawer EXCEPT !.text = text])
    BY <1>8 DEF TypeJson, Changing
  <2>2. drawer'.tab = drawer.tab /\ DrawerInv'
    BY <2>1 DEF Changed, DrawerInv
  <2> QED BY <2>2
<1>9. ASSUME NEW i \in Nat, NEW k, NEW v, SetField(i, k, v),
             \/ k \in ListKeys /\ checkRuleValue(k, v)
             \/ k \in NumberKeys /\ v \in Int \cup {EmptyText}
             \/ k \in FlagKeys /\ v \in {"any", "yes", "no"}
      PROVE  Goal
  BY <1>9, SetFieldKeeps
<1>10. ASSUME NEW i \in 0..2,
              \/ \E c \in ListChoices : SetField(i, c[1], c[2])
              \/ \E x \in NumberTexts : SetField(i, "minPlays7d", x)
              \/ \E f \in {"any", "yes", "no"} : SetField(i, "premiere", f)
       PROVE  Goal
  <2>1. i \in Nat
    OBVIOUS
  <2>2. "minPlays7d" \in NumberKeys /\ "premiere" \in FlagKeys
    BY DEF NumberKeys, FlagKeys
  <2>3. \A c \in ListChoices : SetField(i, c[1], c[2]) => Goal
    BY <1>9, <2>1, EditorConstants
  <2>4. \A x \in NumberTexts : SetField(i, "minPlays7d", x) => Goal
    BY <1>9, <2>1, <2>2, EditorConstants
  <2>5. \A f \in {"any", "yes", "no"} : SetField(i, "premiere", f) => Goal
    BY <1>9, <2>1, <2>2
  <2> HIDE DEF Goal
  <2> QED BY <1>10, <2>3, <2>4, <2>5
<1> HIDE DEF Goal
<1>11. ASSUME NEW i \in 0..2, removeBranch(i) PROVE Goal
  <2>1. i \in Nat
    OBVIOUS
  <2> QED BY <1>6, <1>11, <2>1
<1>12. Goal
  BY <1>1, <1>2, <1>3, <1>4, <1>5, <1>7, <1>8, <1>10, <1>11 DEF EditorNext
<1> QED BY <1>12 DEF Goal

\* What Save would store after the switch is what it would have stored before.
LEMMA SwitchKeeps ==
  ASSUME DrawerInv, showForm \/ showJson
  PROVE  current(drawer') = current(drawer)
<1>1. CASE showForm
  <2>1. PICK r : r = drawer.text
    OBVIOUS
  <2>2. /\ drawer.open /\ drawer.tab = "json" /\ parseRulesAt(r) /\ ~formUnsupported(r)
        /\ drawer' = [drawer EXCEPT !.draft = draftFromRules(r), !.tab = "form"]
    BY <1>1, <2>1, Zenon DEF showForm
  <2>3. drawer'.tab = "form" /\ drawer'.draft = draftFromRules(r)
    BY <2>2 DEF DrawerInv
  <2>4. current(drawer') = rulesFromDraft(draftFromRules(r))
    BY <2>2, <2>3, RulesMakeDraft DEF current
  <2>5. current(drawer) = r
    BY <2>1, <2>2 DEF current
  <2> QED BY <2>2, <2>4, <2>5, DraftKeepsRules
<1>2. CASE showJson
  <2>1. PICK d : d = drawer.draft
    OBVIOUS
  <2>2. /\ drawer.open /\ drawer.tab = "form" /\ ~FormErrors(d)
        /\ drawer' = [drawer EXCEPT !.text = rulesFromDraft(d), !.tab = "json"]
    BY <1>2, <2>1, Zenon DEF showJson
  <2>3. drawer'.tab = "json" /\ drawer'.text = rulesFromDraft(d) /\ d \in Drafts
    BY <2>1, <2>2 DEF DrawerInv
  <2>4. current(drawer') = rulesFromDraft(d)
    BY <2>2, <2>3, DraftMakesRules DEF current
  <2>5. current(drawer) = rulesFromDraft(d)
    BY <2>1, <2>2 DEF current
  <2> QED BY <2>4, <2>5
<1> QED BY <1>1, <1>2

\* A drawer that opens would store what is stored.
LEMMA RulesOpenAsStored ==
  ASSUME NEW r \in StoredRules, OpenRules(r)
  PROVE  current(drawer') = drawer'.stored
<1>1. PICK d : d = drawer'
  OBVIOUS
<1>2. parseRulesAt(r)
  BY EditorConstants
<1>3. CASE formUnsupported(r)
  <2>1. d.tab = "json" /\ d.text = r /\ d.stored = r
    BY <1>1, <1>3 DEF OpenRules
  <2> QED BY <1>1, <1>2, <2>1 DEF current
<1>4. CASE ~formUnsupported(r)
  <2>1. d.tab = "form" /\ d.draft = draftFromRules(r) /\ d.stored = r
    BY <1>1, <1>4 DEF OpenRules
  <2> QED BY <1>1, <1>2, <1>4, <2>1, RulesMakeDraft, DraftKeepsRules DEF current
<1> QED BY <1>3, <1>4

\* However rules are typed, picked, branched and switched to and fro, neither opening the
\* drawer nor a switch between its tabs changes what Save would store (RulesDrawer).
THEOREM TabsAlwaysKeepRules == EditorSpec => TabsKeepRules
<1>1. EditorInit => DrawerInv
  BY DEF EditorInit, DrawerInv, NoDrawerOpen
<1>2. DrawerInv /\ [EditorNext]_drawer => DrawerInv'
  BY EditorStep
<1>3. DrawerInv /\ [EditorNext]_drawer =>
        [/\ drawer.open /\ drawer'.open /\ drawer'.tab # drawer.tab =>
              current(drawer') = current(drawer)
         /\ ~drawer.open /\ drawer'.open => current(drawer') = drawer'.stored]_drawer
  <2> SUFFICES ASSUME DrawerInv, [EditorNext]_drawer, drawer' # drawer
               PROVE  /\ drawer.open /\ drawer'.open /\ drawer'.tab # drawer.tab =>
                           current(drawer') = current(drawer)
                      /\ ~drawer.open /\ drawer'.open => current(drawer') = drawer'.stored
    OBVIOUS
  <2>1. ASSUME drawer.open, drawer'.open, drawer'.tab # drawer.tab
        PROVE  current(drawer') = current(drawer)
    <3>1. \A r \in StoredRules : ~OpenRules(r)
      BY <2>1 DEF OpenRules
    <3> QED BY <2>1, <3>1, EditorStep, SwitchKeeps
  <2>2. ASSUME ~drawer.open, drawer'.open
        PROVE  current(drawer') = drawer'.stored
    <3>1. PICK r \in StoredRules : OpenRules(r)
      BY <2>2 DEF EditorNext, showForm, showJson, addBranch, saveRules, cancelRules, TypeJson,
                        removeBranch, SetField, Changing
    <3> QED BY <3>1, RulesOpenAsStored
  <2> QED BY <2>1, <2>2
<1> QED BY <1>1, <1>2, <1>3, PTL DEF EditorSpec, TabsKeepRules

=============================================================================
