# CINNE: a verification project for the CinneTemple platform

CinneTemple sells tickets to films and series. Viewers buy coins or pay by card,
buy tickets with them, send coins to each other and put coins into pools that
fund films; producers withdraw what their films earn; admins upload, classify and
arrange the catalogue from a desktop studio. The backend (`src/apps/backend`,
NestJS over Postgres) has no queue and no actor of its own: every request is an
`async` function that reads, awaits and writes, many run at once, and what keeps
them apart is the database: conditional updates, unique keys, `SELECT ... FOR
UPDATE`, advisory locks. The clients are event handlers whose answers come late,
out of order or never. That is where bugs would be, and that is what these
modules are about.

Paths below are relative to `src/apps/backend/src/modules/` unless they start
with `src/` or with the name of an application (`web/`, `tv/`, `desktop-admin/`:
`src/apps/...`).

## 1. Inventory

| Component | State it keeps | Operations | Interacts with |
| --- | --- | --- | --- |
| Coin ledger (`funding/wallet.service.ts`, `apply`) | `coin_wallets` (balance, refund debt), `coin_ledger` | one signed movement under a unique key, inside the caller's transaction | every component that moves coins |
| Coin wallet (`funding/wallet.service.ts`) | `coin_topups` | start, verify, webhook, transfer | payment gateways, ledger, the web wallet's form |
| Apple and Google Play coins (`funding/apple-*`, `google-play-coins`) | top-ups, `apple_coin_refund_states`, `apple_store_notifications` | confirm, refund notices; verify, credit, consume | the stores, ledger |
| Funding pools (`funding/funding.service.ts`, `domain/payout.ts`) | `funding_pools`, `pool_contributions` | create, contribute, claim, close, pay out, cancel | ledger |
| Ticket sales, entitlements (`commerce/`) | `purchases`, `entitlements` | coins, test coins, Apple, checkout, verify, webhook, gift; grant, open, use up, expire | ledger, gateways, playback |
| Playback (`playback/`) | `playback_progress`, `episode_playback` | start, heartbeat, completion, settlement of a series | entitlements, the players |
| Producers (`producer/`) | `producer_titles`, `producer_withdrawals` | assign, request, confirm with a code, pay, reject, mail a link | paid purchases, the producer's page, the admins' panels |
| Titles, series, classification (`admin/`, `catalogue/`) | `catalogue_titles`, join tables, seasons, episodes | create, edit, publish, premiere, hero, classify, remove | the studio, the home page, playback |
| Home page (`catalogue/home/`, `admin/admin-home.*`) | sections, collections, a cache in each process | edit, reorder, compute, serve | titles |
| Accounts (`auth/`, `sessions/`, `users/`) | users, credentials, sessions, one-time codes, link codes | register, verify, sign in (password, Google, Apple, link), refresh, revoke, reset, suspend, delete | every guarded request, the clients |
| E-mail alerts (`notifications/email-alerts.*`, its migration) | `email_alerts` | queue (triggers), lease, send, mark, retry, give up | mail provider |
| Uploads (`media/media.service.ts`, the studio's tray) | objects, multipart sessions, the tray's items | presign, put parts, complete, verify, attach, cancel, retry | object storage, titles |
| Streaming (`media/adaptive-media.*`, `scripts/encode-hls.ts`) | builds, `ready.json`, caches, signed links | encode, publish, prepare, hand out playlists and segments | object storage, players |
| Web client (`web/`) | stored tokens, forms, player | request with refresh and retry, logout in several tabs, send coins, heartbeats | accounts, wallet, playback |
| Television (`tv/src`) | session, screens, player | rotate, log in and out, open screens, play, report | accounts, playback |
| Desktop studio (`desktop-admin/`) | sign-in, drawers, upload tray, video processor | link in the browser, edit and save, classify, edit rules, enhance | accounts, titles, home page, uploads |
| Sandbox coins, drivers, push, audit, catalogue reads, premieres, watchlist, profile, health, artwork, mobile apps, infrastructure | their own rows, or none | see section 6 | – |

Components talk through shared tables: a coin transaction of any service calls
`WalletService.apply` inside its own transaction; sales insert entitlements that
playback opens and consumes; producers' earnings are computed from the paid
purchases; the home page is computed from titles and sections and cached in each
process. Calls that nobody orders are the gateways' answers and webhooks, Apple's
notices, the stores' retries, the players' heartbeats, the timers that drain the
outbox, and the clicks of several admins.

What makes each component correct:

* **Ledger, wallet, stores.** Coins are neither made nor lost; a key is used once;
  a top-up is credited once, for a charge settled in full; an answer says what
  moved; the latest signed notice decides; nothing is consumed uncredited.
* **Pools.** The counter is the sum of the stakes; a payout is handed out to the
  coin; a settled pool is final.
* **Tickets and playback.** No ticket without payment, no payment without ticket,
  one viewing for a ticket, and an old player never harms a new ticket.
* **Producers.** What was ever paid and is still to be paid stays within what was
  earned, as far as codes allow; what was released is not claimed again; a page leaves
  out of its balance what it was told is to be paid.
* **Back office.** A save changes what its editor changed; copies of one choice
  agree; a pick is taken off by who meant it; a row shows what its rules say; a published series keeps something to
  play; an admin sees an own write at once.
* **Accounts and clients.** Who is barred gets no session; a link code buys one;
  a client loses no session it still has and keeps none it gave up; waiting ends.
* **Media.** What is attached or handed out is whole; nothing is left open and
  paid for; a link ends with its ticket.
* **Outbox.** Every alert is settled, and nobody is told twice.

The hard behaviours (40 of them, each at its line, with the properties that
guard it or the reason none does) are the `hazards` of `PROJECT.json`.

## 2. Modules

```
CoinLedger ─► CoinWallet ──────┐            CoinService (abstract)
   │  │          └► WalletPage │              ▲ implemented by CoinWallet
   │  ├───► AppleCoins ────────┤
   │  ├───► GooglePlayCoins ───┼──► CoinEconomy ─► MCCoinEconomy
   │  └───► Funding ───────────┘
   └──────► Commerce ◄─ Entitlements ─► Viewing ─► Players
                └─────► Tickets ◄──────────┘          │
             Entitlements ─► SeriesViewing            │
                Tickets + SeriesViewing ─► MCTicketLife
Titles ─► Homepage ◄╌ SectionRules ─┐
Titles ─► StudioForms               ├─► MCBackOffice
RuleEditor, SeriesPublishing        │
Withdrawals ─► ProducerDesk ────────┘
Accounts ─► TvClient, WebClient;  TvClient + StudioSignIn ─► MCSignIn
WalletLocks + EmailAlerts ─► MCUnattended
WalletPage, TvScreens, Players, Uploads, Enhancement, Streaming ─► MCApps
```

Proofs are kept beside, in modules of their own:

| Proofs | of |
| --- | --- |
| `SumLemmas` | `SumFunction` of the community modules, for every other proof module |
| `CoinLedgerProofs`, `CoinWalletProofs` | CoinLedger; CoinWallet and its refinement of CoinService; WalletPage |
| `EconomyProofs` | CoinEconomy: AppleCoins, GooglePlayCoins, Funding, CoinWallet over one ledger |
| `TicketProofs` | Tickets (Commerce, Viewing), SeriesViewing, Players |
| `OfficeProofs` | Withdrawals, ProducerDesk, SeriesPublishing, Titles, StudioForms, RuleEditor, Homepage |
| `AccountsProofs` | Accounts, StudioSignIn, EmailAlerts, TvClient |
| `MediaProofs` | Streaming, Uploads, TvScreens, Enhancement |

A request is a record in a slot (`call`, `order`, `view`, `req`, `titleEdit`,
`upload`, ...). Each action is what happens between two awaits that matter, and
the record keeps what the request has read or been told, so a stale value is used
as stale. A transaction whose first statement takes the lock that everything else
waits for is one action at its commit; reads made before that lock are actions of
their own. Every slot can be emptied at any time (`EndCall`, `EndOrder`,
`EndSignCall`, ...): a refusal, a rollback, a client that leaves, a process that
dies. Audit rows, events and toasts are left out: nothing modelled reads them.

* **CoinLedger** – `apply` as an operator on a row (`Applied`) and a set of
  writes committed together (`Post`). Credits and Apple refunds settle against
  `refund_debt`; other debits must be covered and are refused to a user in debt.
  `IntMax` is the largest INTEGER; a settlement beyond it aborts.
* **CoinWallet** – `startTopup` (row first, charge second), `verifyTopup` (read,
  gateway answer, conditional update), `settleTopupFromWebhook`, `creditTopup`,
  and `transfer` with its replay check, its transaction and its unique-violation
  branch. The gateway is external: a failed charge may be paid later, a
  settlement may have the wrong amount. **CoinService** is the same without
  tables, requests or gateway, and `ImplementsService` says that CoinWallet
  implements it: `worth` is the balance net of debt, `credited` the PAID
  top-ups, `sent` what the ledger holds under each key. **WalletPage** is the
  web form over it: one key until a success, fields that stay open while a
  request is out, answers that are lost.
* **AppleCoins** – `confirm` and `receive`, each one transaction under the
  advisory lock of the Apple transaction. **GooglePlayCoins** – `confirm` split
  at the two calls to the store. **Funding** – pools; the unlocked
  reads of `contribute` and `claimRefund` are steps of their own, and `planPayout`
  (floors, then the coins left over by rank) is a function on the stakes.
  **CoinEconomy** composes them over one wallet table. The debits of tickets bought
  with coins are in Commerce and not in this sum.
* **Entitlements** – operators on the ticket table and the clock, shared by
  **Commerce** (every way to buy a ticket), **Viewing** (films) and
  **SeriesViewing** (episodes; `settleSeries` takes its two counts apart and in either
  order, while the studio sets and clears videos and deletes episodes). **Tickets** composes sales and viewing. A
  progress row carries, as a history, the ticket whose player wrote it.
  **Players** are the web and television players over Viewing: which heartbeats
  they send, in which order, with which session. A television gives a request up after
  20 seconds and sends the next one; the server may still take the old one up (`TimeOut`).
* **WalletLocks** – the order in which each coin transaction takes row locks and
  unique keys; an insert waits for an uncommitted insert of the same key.
* **Withdrawals** – earnings floored sale by sale, the producer's row lock, the
  hold, the e-mailed code, the review. **ProducerDesk** – what people look at while
  that happens: the page a mailed key opens, its withdrawal sheet, the admins' panel
  that links a film and mails the key, the tab of payouts.
* **SeriesPublishing** – the title row of a series is read, merged and saved whole,
  also by the season count that follows each season write; removals of a video hold
  the title-row lock of `assertStillPlayable`, which publishing does not take.
* **Titles** – movie edits as the repository makes them (judge, read again and
  merge, save the whole row), the hero, premieres, deletion, and classification
  with the mirror that keeps the older column and the join rows together.
  **SectionRules** – the rule engine of the home page as operators: which titles
  match, in which order, with which pins, and the rows that are computed from it.
  **Homepage** – the edits of sections and collections, and each process's cache
  with the one computation everybody waits for. What a computation makes of what it
  read is a constant operator there (`RowsOf`, and `Parses` for what an edit may
  store): the run gives it the rule engine, the theorem holds for any. **StudioForms**
  – the movie form and the classification panel of the studio over Titles, with the
  copies they loaded. **RuleEditor** – the rules drawer with its form and JSON tabs and
  the studio's own copy of the parser; `ParsesDeeper`, a constant operator too, is
  the parser on branches of branches, which the form never shows.
* **Accounts** – users, credentials, sessions, codes and link codes; six ways to
  a pair of tokens, each a chain of steps on rows others may have changed.
  **TvClient**, **WebClient** – the two token stores over it: the shared rotation
  of the television; the tabs of the browser that share a storage.
  **StudioSignIn** – the studio's attempts, its loopback listener and its
  deep links. **TvScreens** – the epoch that makes late answers harmless.
* **EmailAlerts** – the triggers and the drain: leases, attempts, back-off, the
  retry window and the provider's memory of keys. Processes crash and pause. The provider
  is Resend; the SES driver, which the configuration allows too, is given no key
  (`auth/mail.service.ts:70`), and what `AlertsReachOnce` says is not true of it.
* **Uploads** – tray, storage and title together: lanes, parts, retries, cancels,
  the verification and the attachment. **Streaming** – encoder, marker, API caches,
  links and players over one store. **Enhancement** – the studio's ffmpeg runs.

Definitions under a `Mutant:` comment (`CreditTopupMispaid`, `StaleSameOnly`, ...
) are not part of any specification: each is a form the code
next to it could have had, and shows that a property would notice.

## 3. What is checked

Twelve runs: `tlc -config <Module>_<run>.cfg <Module>`. The six of the first table
must pass, the six of the second must fail. A passing run composes components that
share state; components that do not share any are alternatives of one run, chosen
at its start (`part`), so that each is explored by itself.

| Run (module) | What it shows | Bounds |
| --- | --- | --- |
| `coins` (MCCoinEconomy) | Both stores with refunds, reversals and crashes while the buyer sends coins away; pools joined, left, closed, cancelled and paid out by racing requests, also past the wallet's limit | 2 users, 1 Apple pack for each and 3 notices, 1 Play token, 1+2+2 requests, `IntMax` 4; 1 pool, goal 3 or none, payout 0 or 4 |
| `life` (MCTicketLife) | Sales of one film by every way, with gifts, double taps and late or wrong settlements; a film watched from two players while it is bought again; a series bought twice while videos of its episodes are set and cleared and one episode is deleted | 2 users, 1 checkout, 2 keys, clock to `ShopEnds` 3; 1 viewer, 2 players, window 2, clock to `ViewEnds` 4; 2 episodes, 2 tickets, clock to `PlayEnds` 5, to `LoneEnds` 3 with one ticket, videos cleared and episodes deleted until `LossEnds` 3, one request at a time that counts (`Counting`), one heartbeat under way (`Beating`); the episode of the first release keeps its video |
| `office` (MCBackOffice) | Edits and classification of one title; two admins' drawers over it; two processes' home caches; rows of the rule engine for every pair of chosen titles; the rules drawer; admins who change and empty one series; a producer's withdrawals at the server, from the page with its sheet, and in the admins' panel and tab | 1 title, 1 request at a time, 4 patches, 3 inputs; 2 drawers, `MaxClicks` 2; 2 builds, 2 sections, one admin's request at a time (`OneAtWork`), clock to 2; 13 title variants, in pairs, pinned or not; 3 rule changes; 3 episodes, 2 requests; 2 withdrawals, 2 requests, 2 attempts, clock to 2, at most one request that its page has given up (`OneOrphan`) |
| `sign_in` (MCSignIn) | Two requests take every way into one account while it is verified, suspended, reactivated and deleted; the television's shared rotation; the studio's attempts | 1 account, 2 requests, `MaxPairs` 2 (3 with the television, which is signed out once), 1 code, 1 link; 2 calls; `MaxSignIns` 2 |
| `apps` (MCApps) | Wallet and its form, screens, players, an upload, the processor, encoders, streams | 2 users, 2 top-ups, 1 transfer key, 2 requests; 1 top-up, 2 keys, 2 edits; 2 films, 4 epochs; a television with 3 heartbeats, a browser with one (`OnceFromBrowser`); 1 upload with 2 faults and 1 retry; 2 runs; 2 builds, 2 encoders, 1 crash, 2 streamers |
| `ends` (MCUnattended) | Nine coin transactions over each other's locks all end; two drains with crashes and pauses settle every alert, and no recipient is told twice | 9 transactions, 2 wallets, 1 pool; 1 event, 2 recipients, 2 workers, 3 attempts, 2 faults |

| Run that must fail | What a line says, and what the run shows |
| --- | --- |
| `stale_verify` | `prisma/schema.prisma:259` "Created when a purchase is paid": a `verify` told "failed" writes FAILED over the PAID of a webhook (`commerce.service.ts:326`); the ticket stays |
| `two_tickets` | `entitlement.service.ts:8` "one ACTIVE entitlement per (user, title)": a checkout begun before a coin purchase is paid after it (`commerce.service.ts:223`) |
| `resume` | `playback.service.ts:132` "Old progress from a previous ticket must not resume a fresh purchase": a delayed heartbeat lands in the new window (`playback.service.ts:231`) |
| `lost_attachment` | `desktop-admin/tests/uploads.test.mjs:24` "attaches before done": two uploads for one movie merge into rows without each other's key, and the later write takes the earlier file off (`prisma-catalogue.repository.ts:93`) |
| `logout` | `docs/API.md:32` "Revoke current session": a logout with an expired access token rotates the pair and revokes the old session (`web/src/lib/api.ts:216`) |
| `rewatch` | `SecurePlayer.tsx:91` "Backend uses these to detect single-view completion": the browser names no session, so a second ticket's end is never taken (`playback.service.ts:226`) |

None of the six needs fairness: each is reached by steps that the code takes.

**Why the bounds are enough.** The races need two requests that hold what they
read while a third step commits; each part has two request slots beside the steps
of gateways, stores, admins and clocks that need none. Two users make both
directions of a transfer and the two ends of a gift; two keys make a new request
beside a repeated one. Two tickets are what "the old player and the new ticket"
takes, and a clock of a few instants is enough for one window to be opened, to run
out and to be followed by another. Two processes, encoders, editors or workers are
what a race takes, one fault more than a retry can repair. `IntMax` and the cache's
`Capacity` are small so that their limits are reached. The bounds are
all constants (`MaxTime`, `MaxSales`, `MaxSessions`, `MaxFaults`, ..., commented
`bound:` where they are declared) or named in the MC modules.

**Clock.** Instants only order events. A stamped write moves the clock, since two
writes of the database do not share a timestamp; `Tick` lets windows run out
while nothing happens. Deadlock is not checked: each run ends where its keys,
references, clock or faults are used up; that nothing waits for ever is
`EveryTransactionEnds`, `EveryAlertSettles` and `LinkingCanEnd`.

**Fairness.** Only `ends` has it. In `WalletLocks`, weak fairness of each
transaction's next lock or commit: the database runs every transaction that is
not waiting for a lock. In `EmailAlerts`, weak fairness of each process's drain (an
interval timer), of the return of a paused process, and of time. Nothing is assumed
about clients, gateways or stores, and no other module claims that something
eventually happens.

**Symmetry.** Request slots (and tickets, withdrawals, builds, encoders, which
nothing distinguishes) are permuted; one set of slots serves several parts. Users,
keys and notices are not, and the run with liveness properties uses none.

## 4. What is proved

Seven modules, and the lemmas about sums in an eighth, hold the theorems. They
are about the specifications of the components themselves, not about the runs:
users, requests, keys, titles, players, encoders and processes may be any number,
also infinitely many, unless an assumption says otherwise. An assumption is stated
beside the constant it is about:

* amounts, shares and the least withdrawal are positive, limits, bounds and times to
  live are numbers, `None`, `Nothing` and the two words of a drawer that is not waiting
  for a request are no members of the sets they stand apart from;
* `Users`, `Stores`, `Seasons` and `Episodes` are finite, since coins, tickets, season
  rows and episodes are counted over them;
* `StakeRank` gives no two users the same rank (it stands for the sort by user id);
* `RetryWindow + Stall <= DedupeWindow`: a process is not paused for longer than
  the provider's memory of a key outlives the retry window;
* a player of the television is not a browser's (`PlayersApart`);
* the vocabulary has two levels, so a parent genre is a top genre (`TwoLevels`);
* stored rules parse, since the server validates what it saves; a picker offers a list
  of the type its key takes, a number field a number or nothing (`EditorConstants`).

Two modules that are proved about take recursive code as a constant operator. The cache of
the home page has `RowsOf`, whatever computes rows from what was read, and the rules
drawer has `ParsesDeeper`, whatever the parser does below a branch of a branch: the
theorems hold for all of them, the run gives the rule engine and the parser.

Every proof has the same shape: an invariant that is inductive, one lemma for each
action or for each kind of action, and a last step that combines them. What follows
says what each invariant adds to the property, since that is what was hard.

**Sums** (`SumLemmas`). Coins are added up with the community modules'
`SumFunction`, a fold. The library's induction takes a predicate as a parameter,
which the provers cannot instantiate; `NaturalsFromZero` and the induction over
finite sets are therefore stated for a *set* that is closed, and a proof
gives the set of all naturals or subsets for which the claim holds. From there: a
sum is a number, adding an element adds its value, changing one value changes
the sum by the difference, a part is at most the whole.

**Wallet** (`CoinLedgerProofs`, `CoinWalletProofs`). The argument has layers.

1. `CoinLedgerProofs`: what one committed transaction (`IsTransaction`: legal
   writes, at most one for each user, keys pairwise different) does to rows, keys
   and entries.
2. `TypeInv` adds to the types two facts that typing needs: an entry under a
   sender's "out" key is a debit of that sender (`OutEntriesAreSenders`; otherwise
   a replay might name a negative amount) and a transfer in flight has two ends.
3. `CallInv` adds that a request told "paid" was told the truth and still is,
   since a settled charge stays settled (`PaidAnswersAreTrue`).
4. `StepKinds`: every step is quiet, one credit of one top-up, or one
   transfer. From here on an invariant has three cases, not fourteen.
5. `LedgerInv` (keys unique, rows legal), `TopupInv` (a top-up is PAID exactly
   when its credit is there), `TransferInv` (both ends of a key or none),
   `SentInv` (an answer is backed by an entry). None is inductive alone: a
   conditional flip is only a guard because PAID and the entry go together, and
   the answer to a replay is only right because the key has one entry.
6. `WalletImplementsService` maps a credit to `Credit`, a transfer to `Send` and
   everything else to a stutter.
7. `PageInv` gives `OneFormMovesOnce`: what was typed was never pressed with two
   keys, and what is on the screen only with the form's own. A key is given up
   only once an answer says that its coins have moved.

**Economy** (`EconomyProofs`). `planPayout` first: floors leave fewer coins
than there are stakes, of any finite line ranked without ties as many as wanted
come first (`FirstOfLine`), and so the shares add up to the payout (`PlanIsExact`). The invariants:

* `BaseInv`: the types of all four components with what their requests remember.
  Each kind of key has its own tag (`AppleTags`, `PlayTags`, `PoolTags`), so a
  component's entries are never another's (`OthersPost`).
* `LedgersInv` adds that a key has one entry and that a user's entries add up to
  balance minus debt; `PlayInv` that a token on its way to be consumed is credited.
* `AppleInv`: the kept refund state is that of the latest signed notice received, and
  the entries of a transaction net to what the top-up's status says. A refund
  that arrives before the purchase, or twice, leaves the same sum.
* `PoolsInv`: a pool's counter is the sum of what its stakes still hold, and what a
  stake got back and was paid, less what it put in, is what the ledger moved between
  that backer and that pool (`Journalled`).
* `CoinsInv` is `PoolsInv` with finiteness of everything that is summed and the
  balance itself. Each component moves its own terms and `Wealth` by the same
  amount and leaves the others' alone.

The proof found one omission in the model: `CommitContribute` lacked the abort at
the INTEGER limit of the stake column (`PoolContribution.amount`), which it has now.

**Tickets** (`TicketProofs`). `PayInv`: a purchase that is paid or has a ticket, or whose
ticket a request is about to grant, is settled (`Backed`); a charge is opened once,
by the request that made its purchase; a debit's key is the purchase it bought. `TapInv`: a request that has looked for an
unopened ticket and found none still has none to find (`CheckHolds`), because taps
of one user at one till wait for each other (`TillLocked`), and the test coins it
counted are still there. `KeepInv`: a ticket that is used up, or about to be, was
opened, or is the first its viewer had. `SeriesInv`: the tickets
of a series that are open are the newest ones, a playback row's opening lies in one
ticket's window (`OnWindow`), and what a request has read is still the row's past
(`RequestOK`): a reset or a consumed flag that belongs to the older ticket meets a
conditional update that no longer matches. What a request has counted is kept with it as
sets (`CountsOK`): an episode that was counted as closed is closed or gone for as long as
the ticket is in use (`Done`), so when no episode is among the closed that was not among the
playable, equal numbers mean equal sets. `BeatsInv`: the heartbeat of a television
that it waits for is its only one, those that are queued are later, those it has given up
on are earlier (`LateBefore`), and none is later than the open player says.

**Office** (`OfficeProofs`). `RowsInv` bounds a row's attempts, `TabsRemember` says
what a request in flight names. Conditional updates then give
`ReleasedAlwaysStaysReleased`, in which the one unconditional write is named: that of a
wrong code. `OverdraftInv` adds that the rows are finitely many
and that what a producer holds, the reservation a request is about to commit under
the row lock included, is at most what was earned. The history `transferred` keeps what
admins have marked as paid, so that a payment counts also after a wrong code has struck out
its row (`StruckOut`). `NothingIsOverdrawn` has a
hypothesis beside the specification, `FilmsStay`: no admin takes a film from its
producer or lowers its share meanwhile. `assign` may do that, past sales
included, and then earnings fall below what was paid; it is no error of the
withdrawals. The run meets the hypothesis: it has one producer and one share.
`RemovalInv`: there is one removal in flight at most and, while the
series is published, it leaves a video; the lock makes it inductive.
`ApartInv`: as long as requests come one after the other, what one is about to write
was true when it was read, and still is; it gives `SeriesStaysWhole`. Without that
clause the season count and the status are lost between whole-row saves (hazards).

The other invariants of the back office are about what one side knows of the other.

* `TitlesInv` (`MirrorsAgree`): as long as no two requests on a title overlapped or broke
  off (the history variable `alone`), what a request read is still so (`ReadIsSo`), and
  genres, links and industries agree except between a save and its sync
  (`CopiesAgree`). What a sync writes is therefore what the links and genres of that
  moment call for, and two lemmas about `KeptLinks` finish: it covers the top genres the
  save names (`KeptTops`) and keeps the picks under them (`KeptPicks`). The latter is
  `PicksSurviveLegacySave`, which needs no `alone`: it speaks of the picks that the sync
  had read, whatever was written before its own write.
* `DeskInv` (`DeskSaysWhatIs`): `ServiceInv` (rows, and one request of a producer under the
  lock), `PanelsInv` (what a panel says was sent is no newer than the key) and `PagesInv`: what
  is on its way between an open sheet and the service is about what the sheet sent
  (`WireIsSo`, `SheetIsSo`), and what it shows or loads was read in the order of
  `dashboard`'s queries: a row read as asked for or paid is left out of the balance, and one
  of which the page was told is among the rows read or beyond the newest `ListedRows`
  (`DataIsSo`, `LoadIsSo`). The page may ask for any positive amount, not only for the
  run's, so the steps of the service are proved for all of them (`ServiceNext`).
  The sheet may say "requested" of a row that is EXPIRED by now: a wrong code, sent
  before the right one, was written after it. That such a row has all its attempts
  used up is false: with three confirmations in flight the oldest count may be written
  last. `Queued` therefore asks for one wrong code, not for `MaxAttempts`.
* `HomeInv` (`HomeIsFresh`): a computation that read the sections after a write saw that
  write and all before it (`ReadWell`), and what a process keeps was read after it last dropped
  its rows (`KeptIsSo`); writes are in the order of the clock (`WritesInv`).
* `FormsInv` (`DrawerWritesItsEdits`): a form and a panel differ from what was loaded only
  where something was chosen (`PanelIsKept`), or, for the genres of the form, where both saves
  were under way (`FormIsKept`), and the request a drawer waits
  for carries that, all of it and nothing else (`AskedSo`).
* `DrawerInv` (`TabsKeepRules`) says only that an open drawer holds a draft. The work is
  in three lemmas about the conversions: rules that parse and that
  the form supports make a draft (`RulesMakeDraft`), that draft makes the same rules
  (`DraftKeepsRules`), and a draft without errors makes rules that parse
  (`DraftMakesRules`).

**Accounts, clients, outbox** (`AccountsProofs`).

* `BarredGetNoPair` needs what each step of each way in knows: `HistoryInv` (who is
  listed as barred since a request began is barred now), `RequestsInv` (a request on
  its way to a pair has an account that was not barred when it was looked at, so
  it is not listed), and `HoldersInv` (a link code that a request or a session has is
  spent, and has one holder), which the conditional update of `ClaimLink` makes
  inductive. Steps are sorted by what they leave alone, so that each of the thirty
  actions is one citation.
* `LinkInv` (the studio): while it shows that it waits, some attempt is on its way
  (`OnItsWay`): it has still to call for the listener, its call has no stop behind it
  in the queue, or no stop is left and the listener is open or being opened.
* `AlertsInv` (the outbox): attempts beyond the maximum each cost a crash or a pause,
  or are in the hand of a process that runs (`InHand`); a copy is no older than the
  row says; whoever may send began within the retry window, so, paused for `Stall` at
  most, it meets a provider that still knows the key; a settled row has no lease.
* `TvInv` (the television): one rotation at a time; a rotation of this generation is
  about the token the television has; a refused one is about a session that is over;
  who waits for a rotation of this generation began in it; while a login is under
  way nobody is signed in.

**Media** (`MediaProofs`). `StreamInv`: an encoder that is about to put the
marker has stored all of its build, files are only added, and marker, cached
marker and every link a player holds name a whole build. That the marker is put
last makes it inductive; the source's fingerprint plays no part. `LinksInv` adds
the times and the caches: an expiry handed on is never later than the ticket's, and
the playlist cache holds the bytes it counts. `UploadsInv`: an entry's step says
which promises it holds (`EntryOK`); bytes that were verified keep key and
object; an open multipart session is still its entry's to close, or settled; a key
belongs to one entry; rows hold verified keys only. `ScreensInv`: what was begun in
this epoch is about this screen. `EnhanceInv`: a run that moves or copies knows what
and where to, the second clip is cut after the first, a name that is taken stays
taken, and what is offered was copied whole.

**Only model-checked.** Liveness (`EveryTransactionEnds`, `EveryAlertSettles`) is out
of the provers' reach. `RowIsAsDocumented` compares the rule engine with what rules, pins
and sort mean: which kinds of titles a rule asks for is a table beside the engine, the order
is a relation between two titles (pins by place, then the sort with empty values last, then
ids), and a title that belongs in the row is missing only behind the last of a full one. It stands on the rule engine (`SectionRules`):
its nested `anyOf` rules are read by RECURSIVE operators, and its order is the library's
`SetToSortSeq`, a choice among permutations whose existence needs induction.

## 5. What the code does that the properties step around

These are behaviours of the models, so a run would show them. They are recorded
as hazards, and the properties are worded around them.

* `docs/FUNDING.md:61` says the deltas of a user sum to the balance; since refund
  debt exists they sum to the balance net of debt (`CoinsAddUp`).
* A pool that everybody left can still be paid out, to nobody.
* Two starts of an unopened ticket: the later one moves the window.
* `listForUser` may write EXPIRED over CONSUMED; neither is usable.
* A wrong code is written by id, also over a confirmed withdrawal, and a code
  that runs out while its confirmation is being written lets the hold be given
  away twice. The last wrong code makes a withdrawal EXPIRED that was confirmed and even
  paid (`producer.service.ts:436`), and the same kobo can be asked for again.
  `OverdrawnOnlyAfterExpiry` and `ReleasedStaysReleased` say what remains true, and
  bound the excess by the payments that were struck out.
* A load of the producer's page that was asked for before a confirmation and comes after it
  shows the older balance again; `BalanceCountsRequested` is about what the page had been
  told before it asked.
* `settleSeries` compares two numbers that it counts apart. An episode that gets or loses
  its video between the counts may make up for one that is still open, and the ticket is
  used up (`TicketUsedUp`). A second ticket, which a late checkout may grant while the
  first is active (`OneActivePerTitle`), is outside `SeriesViewing`: `BuyWithCoins` has the
  guard of `purchaseWithCoins`.
* A heartbeat of the television that ran into its timeout may still be saved after a newer
  one (`tv/src/api.js:10`, `BeatsInOrder`).
* A subgenre picked between the read of `syncLegacy` and its write is lost
  (`classification.service.ts:414`, `:443`).
* The studio's second attempt to sign in is shown as signed out when the first, cancelled
  before, fails late: `signIn` takes back the mark of the cancel (`app-context.tsx:148`).
* With the SES driver an alert that is sent again is mailed again.
* The same transfer key sent to two recipients at once may deadlock; Postgres then
  aborts one of the two. A replay names the recipient it was asked with.
* A request that passed its check before a suspension still gets its pair, and an
  unverified account that is suspended is active again once Google or Apple has
  vouched for its address (`auth/google-oauth.service.ts:165`).
* An admin may move a film with its past sales to another producer, or lower a
  share: what was paid out may then exceed what is earned (`FilmsStay`).
* A season added while another request saves the series' row: the count of seasons
  is that of the earlier read (`SeriesIsWhole` is about requests one after the other).
* Two titles made the hero at once both stay heroes, and a save of a title writes
  every column as it was read: overlapping edits of one title undo each other.
* A cancel during the copy of an enhanced video reaches nobody: the run still
  reports itself ready.

## 6. What is not modelled, and why

* *Sandbox coins, Apple's sandbox branches*: the same flip-and-credit on rows that
  only test accounts have; spending them is in `Commerce`.
* *Drivers, verifiers, identity providers, mail and object storage*: HTTP and
  cryptography. What they answer, and when, is the nondeterminism of the models;
  each such definition is marked external in the map.
* *Audit, event bus, push, realtime, in-app notifications*: written after a commit
  and never read back to decide anything.
* *Catalogue reads, search, health, artwork, signed reads*: no state.
* *Premieres, watchlist, profile*: one idempotent row a request, or a flag computed
  from the clock.
* *Mobile and landing clients*: Kotlin, Swift and static pages; what they send is
  among what the models let any client send.
* *Shared packages, infrastructure, tools*: types, deployment, scripts.
* Inside modelled parts: listings, formatting, layout and toasts; the reassignment
  of a film between producers is an action, but the run has one producer.

## 7. What comes next

* *To model*, in this order: the web shop (cart, checkout and return pages), the
  studio's movie desk and home desk, its series desk with the sandbox client
  (`AdminSeriesService.get` answers `seasons`, `desktop-admin/src/screens/Series.tsx:300`
  reads `seasonsList`), watchlist and premieres. The map covers about a
  fifth of the implementation's lines so far, mostly of the backend.
* *To prove*: `RowIsAsDocumented`, once the rule engine reads nested rules without
  RECURSIVE operators and there is a lemma that every finite set with a total order has a
  sorted sequence.
