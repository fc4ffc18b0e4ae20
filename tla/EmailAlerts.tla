---------------------------- MODULE EmailAlerts -----------------------------
(***************************************************************************)
(* The e-mail outbox.  Database triggers queue rows in the transaction of  *)
(* the event; every backend process drains them under leases and hands     *)
(* them to the provider. The driver is Resend's, which drops what it has   *)
(* seen under the same key; the SES driver sends without one and is left   *)
(* out (it would be a DedupeWindow of 0, which AlertConstants excludes).   *)
(* Time passes in ticks of the length of a lease, one tick of backoff.     *)
(***************************************************************************)
EXTENDS Integers, FiniteSets

CONSTANTS Events,       \* event keys
          Inboxes,      \* addresses of users, producers and admins
          AdminInboxes, \* ADMIN_EMAILS, once it is configured
          ToAdmins,     \* the recipient '@admins'
          Workers,      \* backend processes
          RetryWindow,  \* 20 hours, in ticks
          DedupeWindow, \* the provider's 24 hours, in ticks
          Stall,        \* ticks a process may be paused in the middle of a row
          MaxAttempts,  \* 12
          MaxFaults     \* bound: crashes and pauses

ASSUME AlertConstants ==
  /\ AdminInboxes \subseteq Inboxes /\ ToAdmins \notin Inboxes
  /\ {RetryWindow, DedupeWindow, MaxAttempts} \subseteq Nat \ {0}
  /\ {Stall, MaxFaults} \subseteq Nat
  /\ RetryWindow + Stall <= DedupeWindow

VARIABLES alert,       \* email_alerts: unique by event key and recipient
          worker,      \* what each process is doing
          mailed,      \* the provider: copies mailed under a key, and since when
          configured,  \* ADMIN_EMAILS holds a usable address
          faults

alertVars == <<alert, worker, mailed, configured, faults>>

AlertKeys == Events \X (Inboxes \cup {ToAdmins})

NoAlert == [status |-> "NONE"]
Free == [step |-> "idle", paused |-> FALSE, ticks |-> 0]

Queued(k) == alert[k] # NoAlert
QueuedNow == Cardinality({k \in AlertKeys : Queued(k)})

NewAlert(n) == [status |-> "PENDING", attempts |-> 0, age |-> 0, wait |-> 0,
                lease |-> 0, created |-> n]

\* ct_queue_mail: ON CONFLICT (event_key, recipient) DO NOTHING.
QueueMail(ks) ==
  [k \in AlertKeys |-> IF k \in ks /\ ~Queued(k) THEN NewAlert(QueuedNow) ELSE alert[k]]

AlertsInit ==
  /\ alert = [k \in AlertKeys |-> NoAlert]
  /\ worker = [w \in Workers |-> Free]
  /\ mailed = [k \in AlertKeys |-> [copies |-> 0, age |-> 0]]
  /\ configured = FALSE
  /\ faults = 0

\* A trigger fires inside the transaction that commits the event; the same key
\* may be queued again by a later row version.
Trigger(k) ==
  /\ alert' = QueueMail({k})
  /\ alert' # alert
  /\ UNCHANGED <<worker, mailed, configured, faults>>

Configure == ~configured /\ configured' = TRUE /\ UNCHANGED <<alert, worker, mailed, faults>>

-----------------------------------------------------------------------------
(* drain: one row at a time.                                               *)

Available(k) == alert[k].status \in {"PENDING", "SENDING"} /\ alert[k].wait = 0

Oldest(ks) == {k \in ks : \A j \in ks : alert[k].created <= alert[j].created}

Busy(w) == worker[w].step # "idle"

\* The row's lease token is the number of the attempt it was drawn for.
Lease(w) ==
  /\ ~Busy(w)
  /\ \E k \in Oldest({k \in AlertKeys : Queued(k) /\ Available(k)}) :
       /\ alert' = [alert EXCEPT ![k].status = "SENDING", ![k].wait = 1,
                                 ![k].attempts = @ + 1, ![k].lease = alert[k].attempts + 1,
                                 ![k].age = IF alert[k].attempts = 0 THEN 0 ELSE @]
       /\ worker' = [worker EXCEPT ![w] =
            [step |-> "leased", key |-> k, token |-> alert[k].attempts + 1,
             expired |-> alert[k].attempts > 0 /\ alert[k].age >= RetryWindow,
             paused |-> FALSE, ticks |-> 0]]
  /\ UNCHANGED <<mailed, configured, faults>>

Awake(w, step) == worker[w].step = step /\ ~worker[w].paused
Goto(w, step) == worker' = [worker EXCEPT ![w].step = step]
Holds(w) == alert[worker[w].key].lease = worker[w].token

\* RETRY_WINDOW_EXPIRED, or a row that used up its attempts in crashes.
GiveUp(w) ==
  /\ Awake(w, "leased")
  /\ worker[w].expired \/ worker[w].token > MaxAttempts
  /\ Goto(w, "failed")
  /\ UNCHANGED <<alert, mailed, configured, faults>>

MaySend(w) == ~worker[w].expired /\ worker[w].token <= MaxAttempts

\* '@admins': one row for each admin and the parent accepted, in one transaction.
FanOut(w) ==
  /\ Awake(w, "leased") /\ MaySend(w)
  /\ worker[w].key[2] = ToAdmins
  /\ IF configured
     THEN LET k == worker[w].key
              copies == QueueMail({<<k[1], a>> : a \in AdminInboxes})
          IN  /\ alert' = IF Holds(w)
                          THEN [copies EXCEPT ![k].status = "ACCEPTED", ![k].lease = 0]
                          ELSE copies
              /\ worker' = [worker EXCEPT ![w] = Free]
     ELSE Goto(w, "failed") /\ UNCHANGED alert
  /\ UNCHANGED <<mailed, configured, faults>>

\* The provider mails what it has not seen under this key within its window, as Resend
\* does with an Idempotency-Key; the SES driver passes it none (send).
Received(k) ==
  IF mailed[k].copies = 0 \/ mailed[k].age >= DedupeWindow
  THEN [mailed EXCEPT ![k] = [copies |-> @.copies + 1, age |-> 0]] ELSE mailed

\* Mutant: a new idempotency key with every attempt.
SendUnderNewKey(w) ==
  /\ Awake(w, "leased") /\ MaySend(w)
  /\ worker[w].key[2] # ToAdmins
  /\ \/ /\ mailed' = [mailed EXCEPT ![worker[w].key].copies = @ + 1]
        /\ Goto(w, "sent") \/ Goto(w, "failed")
     \/ UNCHANGED mailed /\ Goto(w, "failed")
  /\ UNCHANGED <<alert, configured, faults>>

\* mail.sendPlain: received or not, and when received the answer may be lost.
Send(w) ==
  /\ Awake(w, "leased") /\ MaySend(w)
  /\ worker[w].key[2] # ToAdmins
  /\ \/ mailed' = Received(worker[w].key) /\ (Goto(w, "sent") \/ Goto(w, "failed"))
     \/ UNCHANGED mailed /\ Goto(w, "failed")
  /\ UNCHANGED <<alert, configured, faults>>

\* Conditional on the lease token: a worker whose lease was taken over changes nothing.
Accept(w) ==
  /\ Awake(w, "sent")
  /\ alert' = IF Holds(w) THEN [alert EXCEPT ![worker[w].key].status = "ACCEPTED",
                                             ![worker[w].key].lease = 0]
              ELSE alert
  /\ worker' = [worker EXCEPT ![w] = Free]
  /\ UNCHANGED <<mailed, configured, faults>>

Dead(w) == worker[w].expired \/ worker[w].token >= MaxAttempts

Unsent(w) == [alert EXCEPT ![worker[w].key].status = IF Dead(w) THEN "FAILED" ELSE "PENDING",
                           ![worker[w].key].wait = 1, ![worker[w].key].lease = 0]

\* Mutant: a row that has used up its attempts is put back like the others.
PutBackAlways(w) ==
  /\ Awake(w, "failed")
  /\ alert' = IF Holds(w) THEN [Unsent(w) EXCEPT ![worker[w].key].status = "PENDING",
                                                 ![worker[w].key].attempts = @ - 1]
              ELSE alert
  /\ worker' = [worker EXCEPT ![w] = Free]
  /\ UNCHANGED <<mailed, configured, faults>>

PutBack(w) ==
  /\ Awake(w, "failed")
  /\ alert' = IF Holds(w) THEN Unsent(w) ELSE alert
  /\ worker' = [worker EXCEPT ![w] = Free]
  /\ UNCHANGED <<mailed, configured, faults>>

Drain(w) == Lease(w) \/ GiveUp(w) \/ FanOut(w) \/ Send(w) \/ Accept(w) \/ PutBack(w)

-----------------------------------------------------------------------------

\* A process dies, or is paused for longer than its lease.
Crash(w) ==
  /\ Busy(w) /\ faults < MaxFaults
  /\ worker' = [worker EXCEPT ![w] = Free]
  /\ faults' = faults + 1
  /\ UNCHANGED <<alert, mailed, configured>>

Pause(w) ==
  /\ Busy(w) /\ ~worker[w].paused /\ faults < MaxFaults
  /\ worker' = [worker EXCEPT ![w].paused = TRUE]
  /\ faults' = faults + 1
  /\ UNCHANGED <<alert, mailed, configured>>

Resume(w) ==
  /\ worker[w].paused
  /\ worker' = [worker EXCEPT ![w].paused = FALSE]
  /\ UNCHANGED <<alert, mailed, configured, faults>>

Older(n, bound) == IF n < bound THEN n + 1 ELSE n
Sooner(n) == IF n > 0 THEN n - 1 ELSE 0

RowLater(r) == [r EXCEPT !.wait = Sooner(r.wait), !.age = Older(r.age, RetryWindow)]
MailLater(m) == IF m.copies = 0 THEN m ELSE [m EXCEPT !.age = Older(m.age, DedupeWindow)]
WorkLater(x) == IF x.step = "idle" THEN x ELSE [x EXCEPT !.ticks = x.ticks + 1]

\* A tick: a running worker is done with its row well before its lease is over,
\* a paused one is back after at most Stall ticks.
Tick ==
  /\ \A w \in Workers : Busy(w) => worker[w].paused /\ worker[w].ticks < Stall
  /\ alert' = [k \in AlertKeys |-> IF Queued(k) THEN RowLater(alert[k]) ELSE NoAlert]
  /\ mailed' = [k \in AlertKeys |-> MailLater(mailed[k])]
  /\ worker' = [w \in Workers |-> WorkLater(worker[w])]
  /\ UNCHANGED <<configured, faults>>

AlertsNext ==
  \/ \E k \in AlertKeys : Trigger(k)
  \/ Configure
  \/ \E w \in Workers : Drain(w) \/ Crash(w) \/ Pause(w) \/ Resume(w)
  \/ Tick

\* The interval timer keeps draining, a paused process comes back, time passes.
AlertsFairness ==
  /\ \A w \in Workers : WF_alertVars(Drain(w)) /\ WF_alertVars(Resume(w))
  /\ WF_alertVars(Tick)

AlertsSpec == AlertsInit /\ [][AlertsNext]_alertVars /\ AlertsFairness

-----------------------------------------------------------------------------
(* Properties.                                                             *)

AlertsTypeOK ==
  /\ \A k \in AlertKeys : Queued(k) =>
       /\ alert[k].status \in {"PENDING", "SENDING", "ACCEPTED", "FAILED"}
       /\ alert[k].attempts \in 0..(MaxAttempts + MaxFaults + 1)
       /\ alert[k].age \in 0..RetryWindow /\ alert[k].wait \in 0..1
       /\ alert[k].lease \in 0..alert[k].attempts
  /\ \A w \in Workers : worker[w].ticks \in 0..Stall
  /\ faults \in 0..MaxFaults

\* "Stable across retries/restarts, within Resend's 24-hour deduplication window":
\* crashes, lost answers and workers that outlive their lease never mail twice.
OneMailPerAlert == \A k \in AlertKeys : mailed[k].copies <= 1

\* An ACCEPTED row was handed to the provider; an ACCEPTED '@admins' row has left
\* a row of its own for every admin (drain).
AcceptedMeansTold ==
  \A k \in AlertKeys : Queued(k) /\ alert[k].status = "ACCEPTED" =>
    IF k[2] = ToAdmins THEN \A a \in AdminInboxes : Queued(<<k[1], a>>)
    ELSE mailed[k].copies > 0

SettledAlert(k) == Queued(k) /\ alert[k].status \in {"ACCEPTED", "FAILED"}

\* A settled row stays as it is, whichever late worker still writes (drain).
SettledIsFinal ==
  [][\A k \in AlertKeys : SettledAlert(k) => alert'[k].status = alert[k].status]_alertVars

\* "Stable across retries/restarts, within Resend's 24-hour deduplication window": with
\* that driver no alert is mailed twice, none counts as ACCEPTED that nobody was told, and a settled one
\* stays as it is whichever late worker still writes (drain).
AlertsReachOnce == [](OneMailPerAlert /\ AcceptedMeansTold /\ AlertsTypeOK) /\ SettledIsFinal

\* Every queued alert ends accepted or up for manual review: no row is retried
\* for ever and none is left under a lease nobody holds (drain).
EveryAlertSettles == \A k \in AlertKeys : Queued(k) ~> SettledAlert(k)

=============================================================================
