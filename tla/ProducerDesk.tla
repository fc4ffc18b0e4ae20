---------------------------- MODULE ProducerDesk ----------------------------
(***************************************************************************)
(* What producers and admins have in front of them over Withdrawals: the   *)
(* dashboard that opens with a mailed link, its withdrawal sheet, the      *)
(* panel that links a film and mails the link, the tab of payouts.         *)
(***************************************************************************)
EXTENDS Withdrawals

CONSTANTS Dashboards,     \* browser tabs with a producer's page
          Panels,         \* admins with a film's producer panel open
          MinWithdrawal,  \* MIN_WITHDRAWAL_MINOR
          ListedRows,     \* withdrawals the dashboard reads, the newest ones
          MaxKeys,        \* bound: keys ever issued to a producer
          Blank         \* null

ASSUME DeskConstants ==
  MinWithdrawal \in Nat \ {0} /\ ListedRows \in Nat \ {0} /\ MaxKeys \in Nat

VARIABLES key,     \* the key each producer's row holds the hash of, 0 without a row
          mailed,  \* links that arrived
          panel,
          dash,
          payouts  \* the admin's tab of payouts

deskVars == <<key, mailed, panel, dash, payouts>>

PanelResting == [op |-> "idle", notice |-> Blank]
NoWire       == [at |-> "none"]
Failure      == [at |-> "answered", ok |-> FALSE]
ClosedSheet  == [step |-> "closed", amount |-> 0, sent |-> 0, pending |-> Blank, busy |-> FALSE]
ClosedPage   == [producer |-> Blank, key |-> 0, data |-> Blank, error |-> "none", told |-> {},
                 load |-> NoWire, sheet |-> ClosedSheet, wire |-> NoWire]

\* Both the page and the tab load when they are opened.
ListedFirst == [filter |-> "REQUESTED", rows |-> {}, of |-> "REQUESTED", asked |-> {"REQUESTED"}]

DeskInit ==
  /\ key = [p \in Producers |-> 0] /\ mailed = {}
  /\ panel = [a \in Panels |-> PanelResting]
  /\ dash = [d \in Dashboards |-> ClosedPage]
  /\ payouts = ListedFirst

-----------------------------------------------------------------------------
(* The links: assign and resendLink issue a new key, and mail it once that *)
(* is committed.  The account page of a producer makes a row as well.      *)

Issue(a, p, op) ==
  /\ panel[a].op = "idle" /\ key[p] < MaxKeys
  /\ key' = [key EXCEPT ![p] = @ + 1]
  /\ panel' = [panel EXCEPT ![a] =
       [op |-> op, producer |-> p, key |-> key[p] + 1, mail |-> "due", notice |-> Blank]]

SendLink(a, f, p, share) ==
  /\ Issue(a, p, "assign")
  /\ Assign(f, p, share)
  /\ UNCHANGED <<mailed, dash, payouts>>

ResendLink(a, f) ==
  /\ link[f] # Unlinked
  /\ Issue(a, link[f].producer, "resend")
  /\ UNCHANGED <<producerVars, mailed, dash, payouts>>

MailLink(a, outcome) ==
  /\ panel[a].op # "idle" /\ panel[a].mail = "due"
  /\ panel' = [panel EXCEPT ![a].mail = outcome]
  /\ mailed' = IF outcome = "sent" THEN mailed \cup {<<panel[a].producer, panel[a].key>>}
               ELSE mailed
  /\ UNCHANGED <<producerVars, key, dash, payouts>>

\* "A notification outage must not report that persisted ownership and revenue-share
\* changes failed": an assignment succeeds without its mail, a resend does not.
Succeeded(a) == panel[a].op = "assign" \/ panel[a].mail = "sent"

\* The panel says that the link was sent, or that it could not be.
TakePanelAnswer(a, arrives) ==
  /\ panel[a].op # "idle" /\ panel[a].mail # "due"
  /\ panel' = [panel EXCEPT ![a] =
       [op |-> "idle",
        notice |-> IF arrives /\ Succeeded(a)
                   THEN [op |-> panel[a].op, producer |-> panel[a].producer, key |-> panel[a].key]
                   ELSE Blank]]
  /\ UNCHANGED <<producerVars, key, mailed, dash, payouts>>

\* registerAccount: "Preserve existing assignments, balances and private dashboard links".
RegisterAccount(p) ==
  /\ key[p] = 0 /\ key[p] < MaxKeys
  /\ key' = [key EXCEPT ![p] = 1]
  /\ UNCHANGED <<producerVars, mailed, panel, dash, payouts>>

-----------------------------------------------------------------------------
(* The producer's page.  What it shows is the answer of a load, or that of *)
(* a confirmation.                                                         *)

Page(d, f) == dash' = [dash EXCEPT ![d] = [x \in DOMAIN @ |-> IF x \in DOMAIN f THEN f[x] ELSE @[x]]]

\* authenticate: the key's hash is the one a producer's row holds.
Authentic(d) == dash[d].producer # Blank /\ dash[d].key = key[dash[d].producer]

\* A load, or a confirmation that has committed.  "told" is history: the withdrawals of
\* which the page was told, before it asked, that they were requested.
Asked(told)       == [at |-> "asked", op |-> "load", told |-> told]
Reading(op, told) == [at |-> "reading", op |-> op, told |-> told,
                      links |-> Blank, earned |-> Blank, rows |-> Blank]

\* readKey: the link's fragment, or the key this tab keeps; then the page loads.
OpenPage(d, p, k) ==
  /\ <<p, k>> \in mailed
  /\ dash[d].load = NoWire /\ dash[d].wire = NoWire
  /\ dash' = [dash EXCEPT ![d] = [ClosedPage EXCEPT !.producer = p, !.key = k, !.load = Asked({})]]
  /\ UNCHANGED <<producerVars, key, mailed, panel, payouts>>

\* The sheet covers the button.  One load at a time.
Refresh(d) ==
  /\ dash[d].data # Blank /\ dash[d].load = NoWire /\ dash[d].sheet.step = "closed"
  /\ Page(d, [load |-> Asked(dash[d].told)])
  /\ UNCHANGED <<producerVars, key, mailed, panel, payouts>>

\* An answer that is late still takes the place of what a confirmation showed.
TakeLoad(d, arrives) ==
  /\ dash[d].load # NoWire /\ (arrives => dash[d].load.at = "answered")
  /\ Page(d, IF ~arrives THEN [load |-> NoWire, error |-> "unreachable"]
             ELSE IF dash[d].load.ok
                  THEN [load |-> NoWire, error |-> "none", data |-> dash[d].load.data]
                  ELSE [load |-> NoWire, error |-> "replaced"])
  /\ UNCHANGED <<producerVars, key, mailed, panel, payouts>>

-----------------------------------------------------------------------------
(* dashboard at the server: the films, then sales and withdrawals by       *)
(* queries of their own, with everything else going on between them.       *)

\* The newest withdrawals that did not expire, as many as it takes; those made at one
\* instant come in any order.
Windows(p) ==
  LET rows == WithStatus(p, {"AWAITING_CONFIRMATION", "REQUESTED", "PAID", "REJECTED"})
  IN  {rs \in SUBSET rows :
         /\ Cardinality(rs) = IF Cardinality(rows) <= ListedRows THEN Cardinality(rows)
                              ELSE ListedRows
         /\ \A w \in rs, v \in rows \ rs : withdrawal[v].expiresAt <= withdrawal[w].expiresAt}

EarnedBy(links) ==
  SumFunction([f \in DOMAIN links |->
    SumFunction([s \in Stores |->
      sold[f][s] * ProducerShare(TicketMinor[s], Commission[s], links[f])])])

\* Mutant: what waits for its transfer is left out of the sum.
SpokenForPaid(rows) ==
  {w \in DOMAIN rows : \/ rows[w].status = "PAID"
                       \/ rows[w].status = "AWAITING_CONFIRMATION" /\ clock < rows[w].expiresAt}

SpokenFor(rows) ==
  {w \in DOMAIN rows : \/ rows[w].status \in {"REQUESTED", "PAID"}
                       \/ rows[w].status = "AWAITING_CONFIRMATION" /\ clock < rows[w].expiresAt}

Left(earned, amount) == IF earned - amount > 0 THEN earned - amount ELSE 0

\* ProducerKeyGuard.
AdmitLoad(d) ==
  /\ dash[d].load.at = "asked"
  /\ Page(d, [load |-> IF Authentic(d) THEN Reading("load", dash[d].load.told) ELSE Failure])
  /\ UNCHANGED <<producerVars, key, mailed, panel, payouts>>

\* Of a load, or of the dashboard that confirmWithdrawal returns.
Read(d, x, f) ==
  /\ Page(d, [y \in {x} |-> [z \in DOMAIN dash[d][x] |->
                               IF z \in DOMAIN f THEN f[z] ELSE dash[d][x][z]]])
  /\ UNCHANGED <<producerVars, key, mailed, panel, payouts>>

ReadLinks(d, x) ==
  /\ dash[d][x].at = "reading" /\ dash[d][x].links = Blank
  /\ Read(d, x, [links |-> [f \in FilmsOf(dash[d].producer) |-> link[f].share]])

ReadSales(d, x) ==
  /\ dash[d][x].at = "reading" /\ dash[d][x].links # Blank /\ dash[d][x].earned = Blank
  /\ Read(d, x, [earned |-> EarnedBy(dash[d][x].links)])

ReadWithdrawals(d, x) ==
  /\ dash[d][x].at = "reading" /\ dash[d][x].links # Blank /\ dash[d][x].rows = Blank
  /\ \E rs \in Windows(dash[d].producer) :
       Read(d, x, [rows |-> [w \in rs |-> withdrawal[w]]])

\* It reads the clock once more: holds whose codes ran out meanwhile are free.
Answer(d, x) ==
  /\ dash[d][x].at = "reading" /\ dash[d][x].earned # Blank /\ dash[d][x].rows # Blank
  /\ LET r == dash[d][x]
         taken == SumFunction([w \in SpokenFor(r.rows) |-> r.rows[w].amount])
     IN  Page(d, [y \in {x} |->
           [at |-> "answered", ok |-> TRUE, op |-> r.op,
            data |-> [balance |-> Left(r.earned, taken), earned |-> r.earned,
                      rows |-> DOMAIN r.rows, told |-> r.told]]])
  /\ UNCHANGED <<producerVars, key, mailed, panel, payouts>>

-----------------------------------------------------------------------------
(* The withdrawal sheet.                                                   *)

Sheet(d, f) ==
  [x \in DOMAIN dash[d].sheet |-> IF x \in DOMAIN f THEN f[x] ELSE dash[d].sheet[x]]

OpenSheet(d) ==
  /\ dash[d].data # Blank /\ dash[d].sheet.step = "closed" /\ dash[d].wire = NoWire
  /\ dash[d].data.balance >= MinWithdrawal
  /\ Page(d, [sheet |-> [ClosedSheet EXCEPT !.step = "details", !.amount = dash[d].data.balance]])
  /\ UNCHANGED <<producerVars, key, mailed, panel, payouts>>

\* The field stays open while the request is on its way.
TypeAmount(d, n) ==
  /\ dash[d].sheet.step = "details" /\ dash[d].sheet.amount # n
  /\ Page(d, [sheet |-> Sheet(d, [amount |-> n])])
  /\ UNCHANGED <<producerVars, key, mailed, panel, payouts>>

DetailsOk(d) ==
  dash[d].sheet.amount >= MinWithdrawal /\ dash[d].sheet.amount <= dash[d].data.balance

SubmitDetails(d) ==
  /\ dash[d].sheet.step = "details" /\ ~dash[d].sheet.busy /\ DetailsOk(d)
  /\ Page(d, [sheet |-> Sheet(d, [busy |-> TRUE, sent |-> dash[d].sheet.amount]),
              wire  |-> [at |-> "sent", op |-> "request", amount |-> dash[d].sheet.amount]])
  /\ UNCHANGED <<producerVars, key, mailed, panel, payouts>>

SubmitCode(d, right) ==
  /\ dash[d].sheet.step = "code" /\ ~dash[d].sheet.busy
  /\ Page(d, [sheet |-> Sheet(d, [busy |-> TRUE]),
              wire  |-> [at |-> "sent", op |-> "confirm", id |-> dash[d].sheet.pending,
                         right |-> right]])
  /\ UNCHANGED <<producerVars, key, mailed, panel, payouts>>

\* Nothing is taken back at the server: the amount stays held until its code runs out.
ChangeDetails(d) ==
  /\ dash[d].sheet.step = "code"
  /\ Page(d, [sheet |-> Sheet(d, [step |-> "details"])])
  /\ UNCHANGED <<producerVars, key, mailed, panel, payouts>>

\* Escape and the backdrop wait for an answer, Cancel and Done do not.
CloseSheet(d) ==
  /\ dash[d].sheet.step # "closed"
  /\ dash[d].sheet.busy => dash[d].sheet.step = "details"
  /\ Page(d, [sheet |-> ClosedSheet])
  /\ UNCHANGED <<producerVars, key, mailed, panel, payouts>>

\* The answer: a confirmation's is also the new dashboard, sheet or no sheet.
TakeAnswer(d) ==
  /\ dash[d].wire.at = "answered"
  /\ LET r == dash[d].wire
         open == dash[d].sheet.step # "closed"
     IN  Page(d, [wire  |-> NoWire,
                  data  |-> IF r.ok /\ r.op = "confirm" THEN r.data ELSE dash[d].data,
                  told  |-> IF r.ok /\ r.op = "confirm" THEN r.data.told ELSE dash[d].told,
                  sheet |-> IF ~open THEN ClosedSheet
                            ELSE IF ~r.ok THEN Sheet(d, [busy |-> FALSE])
                            ELSE IF r.op = "confirm" THEN Sheet(d, [busy |-> FALSE, step |-> "done"])
                            ELSE Sheet(d, [busy |-> FALSE, step |-> "code", pending |-> r.id])])
  /\ UNCHANGED <<producerVars, key, mailed, panel, payouts>>

\* The connection breaks: the sheet can be used again, the server may still be at work.
LoseAnswer(d) ==
  /\ dash[d].wire # NoWire
  /\ Page(d, [wire |-> NoWire, sheet |-> IF dash[d].sheet.step = "closed" THEN ClosedSheet
                                         ELSE Sheet(d, [busy |-> FALSE])])
  /\ UNCHANGED <<producerVars, key, mailed, panel, payouts>>

-----------------------------------------------------------------------------
(* The sheet's requests at the server: Withdrawals' steps, and who hears   *)
(* of their end.                                                           *)

\* ProducerKeyGuard, then the handler.
Admit(d, c) ==
  /\ dash[d].wire.at = "sent"
  /\ \/ /\ Authentic(d)
        /\ \/ dash[d].wire.op = "request" /\ BeginRequest(c, dash[d].producer, dash[d].wire.amount)
           \/ dash[d].wire.op = "confirm" /\ BeginConfirm(c, dash[d].wire.id, dash[d].wire.right)
        /\ Page(d, [wire |-> [at |-> "served", slot |-> c]])
     \/ /\ \/ ~Authentic(d)
           \/ /\ dash[d].wire.op = "confirm"
              /\ LET w == withdrawal[dash[d].wire.id]
                 IN  \/ w.status # "AWAITING_CONFIRMATION"
                     \/ ~Late(dash[d].wire.id) /\ w.attempts >= MaxAttempts
        /\ Page(d, [wire |-> Failure])
        /\ UNCHANGED producerVars
  /\ UNCHANGED <<key, mailed, panel, payouts>>

Reply(c, answer) ==
  /\ dash' = [d \in Dashboards |->
       IF dash[d].wire.at = "served" /\ dash[d].wire.slot = c
       THEN [dash[d] EXCEPT !.wire = answer] ELSE dash[d]]
  /\ UNCHANGED <<key, mailed, panel, payouts>>

\* The code is mailed after the commit: a request whose mail fails leaves a hold.
EndRequest(c, id, mailSent) ==
  /\ CommitRequest(c, id)
  /\ Reply(c, IF mailSent THEN [at |-> "answered", ok |-> TRUE, op |-> "request", id |-> id]
              ELSE Failure)

\* "if (res.count === 0) throw"
Confirmed(c) ==
  tab[c].op = "confirm" /\ withdrawal[tab[c].id].status = "AWAITING_CONFIRMATION"

\* Once it is confirmed, the handler goes on to read the dashboard.
EndConfirm(c) ==
  /\ tab[c].op \in {"confirm", "expire"} /\ WriteConfirm(c)
  /\ dash' = [d \in Dashboards |->
       IF dash[d].wire.at = "served" /\ dash[d].wire.slot = c
       THEN [dash[d] EXCEPT !.wire = IF Confirmed(c)
                                     THEN Reading("confirm", dash[d].told \cup {tab[c].id})
                                     ELSE Failure]
       ELSE dash[d]]
  /\ UNCHANGED <<key, mailed, panel, payouts>>

Refuse(c) == (WriteWrongCode(c) \/ EndTab(c)) /\ Reply(c, Failure)

-----------------------------------------------------------------------------
(* The tab of payouts.                                                     *)

Tab(f) == payouts' = [x \in DOMAIN payouts |-> IF x \in DOMAIN f THEN f[x] ELSE payouts[x]]

ChooseFilter(s) ==
  /\ s # payouts.filter
  /\ Tab([filter |-> s, asked |-> payouts.asked \cup {s}])
  /\ UNCHANGED <<producerVars, key, mailed, panel, dash>>

\* listWithdrawals: whichever list comes last is the one shown.
TakeList(s, arrives) ==
  /\ s \in payouts.asked
  /\ Tab(IF arrives
         THEN [asked |-> payouts.asked \ {s}, of |-> s,
               rows |-> {w \in Withdrawals : withdrawal[w].status = s}]
         ELSE [asked |-> payouts.asked \ {s}])
  /\ UNCHANGED <<producerVars, key, mailed, panel, dash>>

\* Rows that were to be paid when they were read; a refusal leaves them as they are.
SubmitReview(w, verdict) ==
  /\ payouts.of = "REQUESTED" /\ w \in payouts.rows
  /\ \/ Review(w, verdict) /\ Tab([asked |-> payouts.asked \cup {payouts.filter}])
     \/ withdrawal[w].status # "REQUESTED" /\ UNCHANGED <<producerVars, payouts>>
  /\ UNCHANGED <<key, mailed, panel, dash>>

-----------------------------------------------------------------------------

LinksNext ==
  \/ \E a \in Panels :
       \/ \E f \in Films, p \in Producers, share \in RevenueShares : SendLink(a, f, p, share)
       \/ \E f \in Films : ResendLink(a, f)
       \/ \E outcome \in {"sent", "failed"} : MailLink(a, outcome)
       \/ \E arrives \in BOOLEAN : TakePanelAnswer(a, arrives)
  \/ \E p \in Producers : RegisterAccount(p)

PageNext ==
  \E d \in Dashboards :
    \/ \E p \in Producers, k \in 1..MaxKeys : OpenPage(d, p, k)
    \/ Refresh(d) \/ AdmitLoad(d) \/ \E arrives \in BOOLEAN : TakeLoad(d, arrives)

ReadingNext ==
  \E d \in Dashboards, x \in {"load", "wire"} :
    ReadLinks(d, x) \/ ReadSales(d, x) \/ ReadWithdrawals(d, x) \/ Answer(d, x)

SheetNext ==
  \E d \in Dashboards :
    \/ OpenSheet(d) \/ CloseSheet(d) \/ SubmitDetails(d) \/ ChangeDetails(d)
    \/ TakeAnswer(d) \/ LoseAnswer(d)
    \/ \E n \in Amounts : TypeAmount(d, n)
    \/ \E right \in BOOLEAN : SubmitCode(d, right)
    \/ \E c \in Tabs : Admit(d, c)

ServingNext ==
  \E c \in Tabs :
    \/ CountHolds(c) /\ UNCHANGED deskVars
    \/ EndConfirm(c) \/ Refuse(c)
    \/ \E id \in Withdrawals, sent \in BOOLEAN : EndRequest(c, id, sent)

PayoutsNext ==
  \/ \E s \in {"REQUESTED", "PAID", "REJECTED"} :
       ChooseFilter(s) \/ \E arrives \in BOOLEAN : TakeList(s, arrives)
  \/ \E w \in Withdrawals, verdict \in {"PAID", "REJECTED"} : SubmitReview(w, verdict)

DeskNext ==
  \/ LinksNext \/ PageNext \/ ReadingNext \/ SheetNext \/ ServingNext \/ PayoutsNext
  \/ (\E f \in Films, s \in Stores : Sell(f, s)) /\ UNCHANGED deskVars
  \/ PassTime /\ UNCHANGED deskVars

DeskSpec == WithdrawalsInit /\ DeskInit /\ [][DeskNext]_<<producerVars, deskVars>>

-----------------------------------------------------------------------------
(* Properties.                                                             *)

\* To be paid, or paid.
Charges(w) == withdrawal[w].status \in {"REQUESTED", "PAID"}

\* "Available = earnings - REQUESTED - PAID - unexpired AWAITING_CONFIRMATION": whatever
\* was written between the queries of a dashboard, and however late its answer comes,
\* the balance a page shows leaves out every withdrawal that is still to be paid, or is
\* paid, and of which the page had been told before it asked that it was requested; but
\* rows beyond the ListedRows newest ones are not read at all.  A load that was asked for
\* before a confirmation and comes after it shows the older balance again: of that
\* withdrawal the page had not been told when it asked (dashboard, confirmWithdrawal,
\* the page's load and onDone).
BalanceCountsRequested ==
  \A d \in Dashboards : dash[d].data # Blank =>
    LET page == dash[d].data
    IN  /\ page.balance <=
             Left(page.earned, Amount({w \in page.told \cap page.rows : Charges(w)}))
        /\ \A w \in page.told \ page.rows : Charges(w) =>
             /\ Cardinality(page.rows) = ListedRows
             /\ \A v \in page.rows : withdrawal[w].expiresAt <= withdrawal[v].expiresAt

\* In the payout queue or past it.  Wrong codes that were counted before the right one
\* came may still use up its attempts, and an older count may be written last.
Queued(w) ==
  \/ withdrawal[w].status \in {"REQUESTED", "PAID", "REJECTED"}
  \/ withdrawal[w].status = "EXPIRED" /\ withdrawal[w].attempts > 0

\* A sheet that asks for a code holds the amount it sent and not another one; one that
\* says "Withdrawal requested" has a withdrawal in the payout queue, or past it, unless
\* wrong codes, sent before the right one, were written after it (submitDetails,
\* submitCode, confirmWithdrawal).
SheetSaysWhatIs ==
  \A d \in Dashboards :
    LET s == dash[d].sheet
        w == withdrawal[s.pending]
    IN  s.step \in {"code", "done"} =>
          /\ w.producer = dash[d].producer /\ w.amount = s.sent
          /\ s.step = "done" => Queued(s.pending)

\* An admin who is told that a new link was sent has sent one, and no earlier link opens
\* the dashboard any more (resendLink; an assignment says so without its mail).
ResentIsMailed ==
  \A a \in Panels :
    LET n == panel[a].notice
    IN  n # Blank =>
          /\ n.op = "resend" => <<n.producer, n.key>> \in mailed
          /\ key[n.producer] >= n.key

\* What a producer and an admin read is so: the balance after a confirmation, the sheet,
\* the word that a link was sent.
DeskSaysWhatIs == BalanceCountsRequested /\ SheetSaysWhatIs /\ ResentIsMailed

=============================================================================
