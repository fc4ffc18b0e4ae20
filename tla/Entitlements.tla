---------------------------- MODULE Entitlements ----------------------------
(***************************************************************************)
(* EntitlementService: the tickets table and the clock it is judged by.    *)
(* A ticket is keyed by its purchase.  Only operators: the requests that   *)
(* use them are in Commerce, Viewing and SeriesViewing.                    *)
(***************************************************************************)
EXTENDS Integers, FiniteSets

CONSTANTS Viewers,
          Titles,
          Window,   \* length of a viewing window, in instants
          MaxTime   \* bound: the last instant of the clock

ASSUME EntitlementConstants == Window \in Nat \ {0} /\ MaxTime \in Nat

VARIABLES ent,  \* entitlements, from purchase to row
          now   \* the wall clock: it moves on with every stamped write

entVars == <<ent, now>>

Never == -1

Times == 0..(MaxTime + Window)

Ticket == [user : Viewers, title : Titles, status : {"ACTIVE", "EXPIRED", "CONSUMED"},
           createdAt : Times, startedAt : Times \cup {Never},
           expiresAt : Times \cup {Never}]

EntitlementsInit == ent = <<>> /\ now = 0

\* Two writes never carry the same timestamp (microseconds in the database).
Stamp == now < MaxTime /\ now' = now + 1

NewTicket(u, t, expiry) ==
  [user |-> u, title |-> t, status |-> "ACTIVE", createdAt |-> now,
   startedAt |-> Never, expiresAt |-> expiry]

\* grant and the upsert of markPaid: a purchase that has its ticket keeps it.
Granted(r, ticket) ==
  [s \in DOMAIN ent \cup {r} |-> IF s \in DOMAIN ent THEN ent[s] ELSE ticket]

Elapsed(expiry) == expiry # Never /\ expiry <= now

TicketsOf(u, t) == {r \in DOMAIN ent : ent[r].user = u /\ ent[r].title = t}

Usable(u, t) ==
  {r \in TicketsOf(u, t) : ent[r].status = "ACTIVE" /\ ~Elapsed(ent[r].expiresAt)}

\* findUsable: the newest usable ticket, as a set of at most one.
FindUsable(u, t) ==
  {r \in Usable(u, t) : \A s \in Usable(u, t) : ent[s].createdAt <= ent[r].createdAt}

\* Mutant: the status is written along with the window.
OpenedActive(r) == [ent EXCEPT ![r].startedAt = now, ![r].expiresAt = now + Window,
                               ![r].status = "ACTIVE"]

\* startViewing on a ticket read as unopened: an unconditional update by id.
Opened(r) == [ent EXCEPT ![r].startedAt = now, ![r].expiresAt = now + Window]

\* consume, by id: only an ACTIVE ticket.
Consumed(r) ==
  IF ent[r].status = "ACTIVE" THEN [ent EXCEPT ![r].status = "CONSUMED"] ELSE ent

\* listForUser: the rows it found ACTIVE past their window, set by id.
ExpiredOf(u) ==
  {r \in DOMAIN ent : /\ ent[r].user = u
                      /\ ent[r].status = "ACTIVE"
                      /\ Elapsed(ent[r].expiresAt)}

Expired(rows) ==
  [r \in DOMAIN ent |-> IF r \in rows THEN [ent[r] EXCEPT !.status = "EXPIRED"] ELSE ent[r]]

Tick == now < MaxTime /\ now' = now + 1 /\ UNCHANGED ent

-----------------------------------------------------------------------------

EntitlementsTypeOK ==
  /\ now \in 0..MaxTime
  /\ \A r \in DOMAIN ent : ent[r] \in Ticket

\* "A CONSUMED or EXPIRED entitlement can never be reopened": its row only moves
\* away from ACTIVE, for good, whatever stale reads the requests act on.
NeverReopened ==
  [][\A r \in DOMAIN ent :
       /\ r \in DOMAIN ent'
       /\ ent[r].status # "ACTIVE" => ent'[r].status # "ACTIVE"]_ent

=============================================================================
