--------------------------- MODULE AccountsProofs ---------------------------
(***************************************************************************)
(* Accounts and who acts for them with nobody watching.  For any accounts, *)
(* providers, requests and rows: an account barred throughout a request    *)
(* gets no session from it, and a desktop link code buys one session.  For *)
(* any attempts of the studio to sign in: whoever waits can still be told  *)
(* to stop.  For any events, inboxes and processes: an alert is mailed     *)
(* once at most, an accepted one has been told, a settled one stays.  For  *)
(* any requests of the television: it loses no session that is still good, *)
(* and none comes back after a logout.                                     *)
(***************************************************************************)
EXTENDS Accounts, StudioSignIn, EmailAlerts, TvClient, TLAPS

\* What a request in flight has been promised: it issues a pair for an account
\* that was not barred all along (B), and for a link code that exists.
ReqOK(r, B) ==
  /\ "step" \in DOMAIN r
  /\ r.step = "issue" => r.account \notin B /\ r.link \in 0..MaxLinks
  /\ r.step = "revoke" /\ ~r.refused => r.account \notin B
  /\ r.step = "revoke" => r.id \in 1..MaxSessions
  /\ r.step = "link" /\ ~r.refused => r.account \notin B
  /\ r.step = "activate" => r.then \in {Resting, Issuing(r.account, 0)}
  /\ r.step \in {"claim", "owner"} => r.id \in 1..MaxLinks
  /\ r.step = "claim" => {"step", "id", "account"} \subseteq DOMAIN r

\* The link code a request has won, 0 for none.
LinkOf(r) == IF r.step = "owner" THEN r.id ELSE IF r.step = "issue" THEN r.link ELSE 0

TablesInv ==
  /\ account = [a \in Accounts |-> account[a]]
  /\ \A a \in Accounts : "status" \in DOMAIN account[a]
  /\ session = [s \in 1..MaxSessions |-> session[s]]
  /\ \A s \in 1..MaxSessions : Stored(session[s]) => {"barred", "link"} \subseteq DOMAIN session[s]
  /\ link = [l \in 1..MaxLinks |-> link[l]]
  /\ \A l \in 1..MaxLinks : Stored(link[l]) => "consumed" \in DOMAIN link[l]
  /\ req = [c \in SignCalls |-> req[c]]
  /\ barred = [c \in SignCalls |-> barred[c]]

\* The history is right, and the requests and sessions heed it.
HistoryInv == \A c \in SignCalls : \A a \in barred[c] : a \in Accounts /\ Barred(a)
RequestsInv == \A c \in SignCalls : ReqOK(req[c], barred[c])

\* A link code that a request or a session has is spent, and it has one holder.
Spent(l) == link[l] # NoRow /\ (Stored(link[l]) => link[l].consumed)
HoldersInv ==
  /\ \A c, d \in SignCalls :
       c # d /\ LinkOf(req[c]) # 0 => LinkOf(req[c]) # LinkOf(req[d])
  /\ \A c \in SignCalls, s \in 1..MaxSessions :
       LinkOf(req[c]) # 0 /\ Stored(session[s]) => session[s].link # LinkOf(req[c])
  /\ \A c \in SignCalls, l \in 1..MaxLinks : LinkOf(req[c]) = l => Spent(l)
  /\ \A s \in 1..MaxSessions : Stored(session[s]) => session[s].link \in 0..MaxLinks
  /\ \A s \in 1..MaxSessions, l \in 1..MaxLinks :
       Stored(session[s]) /\ session[s].link = l => Spent(l)

AccountsInv ==
  /\ TablesInv /\ HistoryInv /\ RequestsInv /\ HoldersInv
  /\ BarredGetNoPair /\ LinkBuysOneSession

-----------------------------------------------------------------------------
(* Steps that neither issue a pair nor claim a link code.                  *)

\* Sessions are ended or removed, never made.
SessionsKept ==
  /\ session' = [s \in 1..MaxSessions |-> session'[s]]
  /\ \A s \in 1..MaxSessions : Stored(session'[s]) =>
       /\ Stored(session[s]) /\ {"barred", "link"} \subseteq DOMAIN session'[s]
       /\ session'[s].barred = session[s].barred /\ session'[s].link = session[s].link

\* A spent link code stays spent.
LinksKept ==
  /\ link' = [l \in 1..MaxLinks |-> link'[l]]
  /\ \A l \in 1..MaxLinks : Stored(link'[l]) => "consumed" \in DOMAIN link'[l]
  /\ \A l \in 1..MaxLinks : Spent(l) => Spent(l)'

\* Accounts stay barred while the history says so.
AccountsKept ==
  /\ account' = [a \in Accounts |-> account'[a]]
  /\ \A a \in Accounts : "status" \in DOMAIN account'[a]
  /\ HistoryInv'

\* A request holds no link (0) or one that may have been made.
LEMMA LinksInRange ==
  ASSUME AccountsInv
  PROVE  /\ \A c \in SignCalls : LinkOf(req[c]) \in 0..MaxLinks
         /\ \A c \in SignCalls : LinkOf(req[c]) # 0 => LinkOf(req[c]) \in 1..MaxLinks
  BY AccountConstants DEF AccountsInv, RequestsInv, ReqOK, LinkOf

\* Requests that go on to what they may do, and hold no other link code.
LEMMA QuietStepKeepsInv ==
  ASSUME AccountsInv, SessionsKept, LinksKept, AccountsKept,
         req' = [d \in SignCalls |-> req'[d]], barred' = [d \in SignCalls |-> barred'[d]],
         \A d \in SignCalls : ReqOK(req'[d], barred'[d]),
         \A d \in SignCalls : LinkOf(req'[d]) \in {0, LinkOf(req[d])}
  PROVE  AccountsInv'
<1> USE DEF AccountsInv
<1>1. TablesInv' /\ HistoryInv'
  BY DEF TablesInv, SessionsKept, LinksKept, AccountsKept
<1>3. RequestsInv'
  BY DEF RequestsInv, ReqOK
<1>4. HoldersInv'
  <2>1. \A d \in SignCalls : LinkOf(req'[d]) \in {0, LinkOf(req[d])}
    OBVIOUS
  <2>2. \A d \in SignCalls, l \in 1..MaxLinks : LinkOf(req'[d]) = l => LinkOf(req[d]) = l
    BY <2>1, AccountConstants
  <2>3. \A l \in 1..MaxLinks : Spent(l) => Spent(l)'
    BY DEF LinksKept
  <2>4. \A d \in SignCalls, l \in 1..MaxLinks : LinkOf(req'[d]) = l => Spent(l)'
    BY <2>2, <2>3 DEF HoldersInv
  <2>5. \A s \in 1..MaxSessions, l \in 1..MaxLinks :
          Stored(session'[s]) /\ session'[s].link = l => Spent(l)'
    BY <2>3 DEF HoldersInv, SessionsKept
  <2>6. \A d, e \in SignCalls :
          d # e /\ LinkOf(req'[d]) # 0 => LinkOf(req'[d]) # LinkOf(req'[e])
    BY <2>1 DEF HoldersInv
  <2>7. \A d \in SignCalls, s \in 1..MaxSessions :
          LinkOf(req'[d]) # 0 /\ Stored(session'[s]) => session'[s].link # LinkOf(req'[d])
    BY <2>1 DEF HoldersInv, SessionsKept
  <2>8. \A s \in 1..MaxSessions : Stored(session'[s]) => session'[s].link \in 0..MaxLinks
    BY DEF HoldersInv, SessionsKept
  <2> QED BY <2>4, <2>5, <2>6, <2>7, <2>8 DEF HoldersInv
<1>5. BarredGetNoPair'
  BY DEF SessionsKept, BarredGetNoPair
<1>6. LinkBuysOneSession'
  BY DEF SessionsKept, LinkBuysOneSession
<1> QED BY <1>1, <1>3, <1>4, <1>5, <1>6

\* What may be promised to a request while some are barred may be promised while fewer are.
LEMMA ReqOKMonotone ==
  ASSUME NEW r, NEW B, NEW S \in SUBSET B, ReqOK(r, B)
  PROVE  ReqOK(r, S)
BY DEF ReqOK

\* A request that goes on while others may see the history shrink.
LEMMA GoingOnKeepsInv ==
  ASSUME AccountsInv, SessionsKept, LinksKept, AccountsKept,
         NEW c \in SignCalls, NEW r, req' = [req EXCEPT ![c] = r],
         barred' = [d \in SignCalls |-> barred'[d]],
         \A d \in SignCalls \ {c} : barred'[d] \subseteq barred[d],
         ReqOK(r, barred'[c]), LinkOf(r) \in {0, LinkOf(req[c])}
  PROVE  AccountsInv'
<1>1. req' = [d \in SignCalls |-> IF d = c THEN r ELSE req[d]]
  BY DEF AccountsInv, TablesInv
<1>2. \A d \in SignCalls : ReqOK(req'[d], barred'[d])
  BY <1>1, ReqOKMonotone DEF AccountsInv, RequestsInv
<1>3. \A d \in SignCalls : LinkOf(req'[d]) \in {0, LinkOf(req[d])}
  BY <1>1
<1> QED BY <1>1, <1>2, <1>3, QuietStepKeepsInv

\* Continue, while nobody's status changes.
LEMMA ContinueKeepsInv ==
  ASSUME AccountsInv, SessionsKept, LinksKept, UNCHANGED account,
         NEW c \in SignCalls, NEW r, Continue(c, r),
         ReqOK(r, barred[c]), LinkOf(r) \in {0, LinkOf(req[c])}
  PROVE  AccountsInv'
<1>1. /\ barred' = [d \in SignCalls |-> barred'[d]]
      /\ \A d \in SignCalls : barred'[d] \subseteq barred[d]
  BY DEF Continue, AccountsInv, TablesInv
<1>2. AccountsKept
  BY <1>1 DEF AccountsKept, AccountsInv, TablesInv, HistoryInv, Barred
<1>3. ReqOK(r, barred'[c])
  BY <1>1, ReqOKMonotone
<1> QED BY <1>1, <1>2, <1>3, GoingOnKeepsInv DEF Continue

\* Begin, likewise: the history starts with those barred now.
LEMMA BeginKeepsInv ==
  ASSUME AccountsInv, UNCHANGED <<account, session, link>>,
         NEW c \in SignCalls, NEW r, Begin(c, r),
         ReqOK(r, {a \in Accounts : Exists(a) /\ Barred(a)}), LinkOf(r) = 0
  PROVE  AccountsInv'
<1>1. barred' = [d \in SignCalls |-> IF d = c THEN {a \in Accounts : Exists(a) /\ Barred(a)}
                                     ELSE barred[d]]
  BY DEF Begin, AccountsInv, TablesInv
<1>2. AccountsKept
  BY <1>1 DEF AccountsKept, AccountsInv, TablesInv, HistoryInv, Barred
<1>3. SessionsKept /\ LinksKept
  BY DEF SessionsKept, LinksKept, Spent, AccountsInv, TablesInv
<1> QED BY <1>1, <1>2, <1>3, GoingOnKeepsInv DEF Begin

\* A step of no request.
LEMMA StandingKeepsInv ==
  ASSUME AccountsInv, SessionsKept, LinksKept, AccountsKept, UNCHANGED req,
         barred' = [d \in SignCalls |-> barred'[d]],
         \A d \in SignCalls : barred'[d] \subseteq barred[d]
  PROVE  AccountsInv'
<1>1. \A d \in SignCalls : ReqOK(req'[d], barred'[d])
  BY ReqOKMonotone DEF AccountsInv, RequestsInv
<1> QED BY <1>1, QuietStepKeepsInv DEF AccountsInv, TablesInv

\* Rows that stay as they are.
LEMMA UnchangedRows ==
  ASSUME AccountsInv
  PROVE  /\ UNCHANGED session => SessionsKept
         /\ UNCHANGED link => LinksKept
         /\ UNCHANGED <<account, barred>> => AccountsKept
BY DEF SessionsKept, LinksKept, AccountsKept, Spent, AccountsInv, TablesInv, HistoryInv, Barred

\* A session that is ended keeps what matters of its row.
LEMMA EndedSessionIsKept ==
  ASSUME AccountsInv, NEW s \in 1..MaxSessions, Stored(session[s]),
         session' = [session EXCEPT ![s].live = FALSE]
  PROVE  SessionsKept
BY DEF SessionsKept, AccountsInv, TablesInv

\* A row of users changes; who is barred all along stays so.
LEMMA AccountRowIsKept ==
  ASSUME AccountsInv, NEW a \in Accounts, NEW row, "status" \in DOMAIN row,
         account' = [account EXCEPT ![a] = row],
         barred' = [d \in SignCalls |-> barred'[d]],
         \A d \in SignCalls : barred'[d] \subseteq barred[d],
         \A d \in SignCalls : a \in barred'[d] => row.status \in {"SUSPENDED", "DEACTIVATED"}
  PROVE  AccountsKept
<1>1. /\ account' = [b \in Accounts |-> account'[b]]
      /\ account'[a] = row /\ \A b \in Accounts \ {a} : account'[b] = account[b]
  BY DEF AccountsInv, TablesInv
<1>2. HistoryInv'
  BY <1>1 DEF AccountsInv, HistoryInv, Barred
<1> QED BY <1>1, <1>2 DEF AccountsKept, AccountsInv, TablesInv

-----------------------------------------------------------------------------
(* The two steps that matter: a pair is issued, a link code is claimed.    *)

\* The request hands its link code on to the session it makes.
LEMMA IssuePairKeepsInv ==
  ASSUME AccountsInv, NEW c \in SignCalls, IssuePair(c)
  PROVE  AccountsInv'
<1> USE DEF AccountsInv
<1>1. PICK s \in NextRow(session) :
        session' = [session EXCEPT ![s] =
          [account |-> req[c].account, live |-> TRUE,
           link |-> req[c].link, barred |-> req[c].account \in barred[c]]]
  BY DEF IssuePair
<1>2. s \in 1..MaxSessions /\ session[s] = NoRow
  BY DEF NextRow, TablesInv
<1>3. /\ req[c].account \notin barred[c]
      /\ LinkOf(req[c]) = req[c].link /\ req[c].link \in 0..MaxLinks
  BY DEF IssuePair, RequestsInv, ReqOK, LinkOf
<1>4. /\ session' = [t \in 1..MaxSessions |-> session'[t]]
      /\ {"barred", "link"} \subseteq DOMAIN session'[s]
      /\ session'[s].barred = FALSE /\ session'[s].link = req[c].link
      /\ \A t \in 1..MaxSessions \ {s} : session'[t] = session[t]
  <2>1. (req[c].account \in barred[c]) = FALSE
    BY <1>3
  <2>2. session' = [session EXCEPT ![s] =
          [account |-> req[c].account, live |-> TRUE, link |-> req[c].link, barred |-> FALSE]]
    BY <1>1, <2>1, Zenon
  <2> QED BY <1>2, <2>2 DEF TablesInv
<1>5. /\ req' = [d \in SignCalls |-> IF d = c THEN Resting ELSE req[d]]
      /\ barred' = [d \in SignCalls |-> IF d = c THEN {} ELSE barred[d]]
      /\ UNCHANGED <<account, link>>
  BY DEF IssuePair, Continue, TablesInv
<1>6. TablesInv'
  BY <1>4, <1>5 DEF TablesInv
<1>7. HistoryInv'
  BY <1>5 DEF HistoryInv, Barred
<1>8. RequestsInv'
  <2>1. ReqOK(Resting, {})
    BY DEF ReqOK, Resting
  <2> QED BY <1>5, <2>1 DEF RequestsInv
<1>9. HoldersInv'
  <2>1. LinkOf(Resting) = 0
    BY DEF LinkOf, Resting
  <2>2. \A d \in SignCalls : LinkOf(req'[d]) = IF d = c THEN 0 ELSE LinkOf(req[d])
    BY <1>5, <2>1
  <2>3. \A l \in 1..MaxLinks : Spent(l) <=> Spent(l)'
    BY <1>5 DEF Spent
  <2>4. \A d, e \in SignCalls :
          d # e /\ LinkOf(req'[d]) # 0 => LinkOf(req'[d]) # LinkOf(req'[e])
    BY <2>2 DEF HoldersInv
  <2>5. \A d \in SignCalls, t \in 1..MaxSessions :
          LinkOf(req'[d]) # 0 /\ Stored(session'[t]) => session'[t].link # LinkOf(req'[d])
    BY <1>3, <1>4, <2>2 DEF HoldersInv
  <2>6. \A d \in SignCalls, l \in 1..MaxLinks : LinkOf(req'[d]) = l => Spent(l)'
    BY <2>2, <2>3, AccountConstants DEF HoldersInv
  <2>7. \A t \in 1..MaxSessions : Stored(session'[t]) => session'[t].link \in 0..MaxLinks
    BY <1>3, <1>4 DEF HoldersInv
  <2>8. \A t \in 1..MaxSessions, l \in 1..MaxLinks :
          Stored(session'[t]) /\ session'[t].link = l => Spent(l)'
    BY <1>3, <1>4, <2>3 DEF HoldersInv
  <2> QED BY <2>4, <2>5, <2>6, <2>7, <2>8 DEF HoldersInv
<1>10. BarredGetNoPair'
  BY <1>4 DEF BarredGetNoPair
<1>11. LinkBuysOneSession'
  BY <1>3, <1>4 DEF LinkBuysOneSession, HoldersInv
<1> QED BY <1>6, <1>7, <1>8, <1>9, <1>10, <1>11

\* "Single-use: the conditional update claims the code": nobody had it.
LEMMA ClaimLinkKeepsInv ==
  ASSUME AccountsInv, NEW c \in SignCalls, ClaimLink(c)
  PROVE  AccountsInv'
<1> USE DEF AccountsInv
<1> DEFINE r == [req[c] EXCEPT !.step = "owner"]
<1> UNCHANGED <<account, session>>
  BY DEF ClaimLink
<1>0. PICK k : k = req[c].id
  OBVIOUS
<1>1. /\ k \in 1..MaxLinks /\ Stored(link[k]) /\ ~link[k].consumed
      /\ link' = [link EXCEPT ![k].consumed = TRUE]
      /\ "step" \in DOMAIN r /\ r.step = "owner" /\ r.id = k
  BY <1>0 DEF ClaimLink, RequestsInv, ReqOK
<1>2. /\ req' = [d \in SignCalls |-> IF d = c THEN r ELSE req[d]]
      /\ barred' = barred
  <2>1. r # Resting
    BY <1>1 DEF Resting
  <2> QED BY <2>1 DEF ClaimLink, Continue, TablesInv
<1>3. LinkOf(r) = k
  BY <1>1 DEF LinkOf
<1>4. ~Spent(k)
  BY <1>1 DEF Spent
<1>5. /\ link' = [l \in 1..MaxLinks |-> link'[l]]
      /\ \A l \in 1..MaxLinks \ {k} : link'[l] = link[l]
      /\ "consumed" \in DOMAIN link'[k] /\ link'[k].consumed /\ link'[k] # NoRow
  <2>1. "consumed" \in DOMAIN link[k]
    BY <1>1 DEF TablesInv
  <2>2. link'[k] = [link[k] EXCEPT !.consumed = TRUE]
    BY <1>1 DEF TablesInv
  <2>3. "consumed" \notin DOMAIN NoRow
    BY DEF NoRow
  <2> QED BY <1>1, <2>1, <2>2, <2>3 DEF TablesInv
<1>6. /\ TablesInv' /\ HistoryInv'
  BY <1>2, <1>5 DEF TablesInv, HistoryInv, Barred
<1>7. RequestsInv'
  <2>1. ReqOK(r, barred[c])
    BY <1>1 DEF ReqOK
  <2> QED BY <1>2, <2>1 DEF RequestsInv
<1>8. HoldersInv'
  <2>1. \A d \in SignCalls : LinkOf(req'[d]) = IF d = c THEN k ELSE LinkOf(req[d])
    BY <1>2, <1>3
  <2>2. \A l \in 1..MaxLinks : (Spent(l) => Spent(l)') /\ Spent(k)'
    BY <1>5 DEF Spent
  <2>3. \A d \in SignCalls : LinkOf(req[d]) # k
    BY <1>1, <1>4 DEF HoldersInv
  <2>4. \A t \in 1..MaxSessions : Stored(session[t]) => session[t].link # k
    BY <1>1, <1>4 DEF HoldersInv
  <2> QED BY <2>1, <2>2, <2>3, <2>4, <1>1 DEF HoldersInv
<1>9. BarredGetNoPair' /\ LinkBuysOneSession'
  BY DEF BarredGetNoPair, LinkBuysOneSession
<1> QED BY <1>6, <1>7, <1>8, <1>9

-----------------------------------------------------------------------------
(* The other steps, by the part of the system that takes them.             *)

\* A field other than the status is written, by id.
LEMMA StatusIsKept ==
  ASSUME AccountsInv, NEW a, account' = [account EXCEPT ![a].password = TRUE],
         barred' = [d \in SignCalls |-> barred'[d]],
         \A d \in SignCalls : barred'[d] \subseteq barred[d]
  PROVE  AccountsKept
<1>1. CASE a \notin Accounts
  BY <1>1 DEF AccountsKept, AccountsInv, TablesInv, HistoryInv, Barred
<1>2. CASE a \in Accounts
  <2> DEFINE row == [account[a] EXCEPT !.password = TRUE]
  <2>1. "status" \in DOMAIN row /\ row.status = account[a].status
    BY <1>2 DEF AccountsInv, TablesInv
  <2>2. account' = [account EXCEPT ![a] = row]
    OBVIOUS
  <2>3. \A d \in SignCalls : a \in barred'[d] => row.status \in {"SUSPENDED", "DEACTIVATED"}
    BY <2>1 DEF AccountsInv, HistoryInv, Barred
  <2> HIDE DEF row
  <2> QED BY <1>2, <2>1, <2>2, <2>3, AccountRowIsKept
<1> QED BY <1>1, <1>2

\* An account that becomes ACTIVE is barred no longer, and may get a pair.
LEMMA ReprieveKeepsInv ==
  ASSUME AccountsInv, NEW c \in SignCalls, NEW a, NEW row, NEW r,
         account' = [account EXCEPT ![a] = row], "status" \in DOMAIN row,
         row.status = "ACTIVE" \/ (a \in Accounts => row.status = account[a].status),
         Reprieved(a, c, r), UNCHANGED <<session, link>>,
         r = Resting \/ (r = Issuing(a, 0) /\ row.status = "ACTIVE")
  PROVE  AccountsInv'
<1>1. /\ barred' = [d \in SignCalls |-> barred'[d]]
      /\ \A d \in SignCalls : barred'[d] \subseteq barred[d]
  BY DEF Reprieved, AccountsInv, TablesInv
<1>2. a \in Accounts => account'[a] = row
  BY DEF AccountsInv, TablesInv
<1>3. ASSUME row.status = "ACTIVE"
      PROVE  \A d \in SignCalls : a \notin barred'[d]
  <2>1. CASE a \in Accounts
    <3>1. account'[a].status = "ACTIVE"
      BY <1>2, <1>3, <2>1
    <3> QED BY <3>1 DEF Reprieved
  <2>2. CASE a \notin Accounts
    BY <1>1, <2>2 DEF AccountsInv, HistoryInv
  <2> QED BY <2>1, <2>2
<1>4. AccountsKept
  <2>1. CASE a \in Accounts
    <3>1. \A d \in SignCalls : a \in barred'[d] => row.status \in {"SUSPENDED", "DEACTIVATED"}
      BY <1>1, <1>3, <2>1 DEF AccountsInv, HistoryInv, Barred
    <3> QED BY <1>1, <2>1, <3>1, AccountRowIsKept
  <2>2. CASE a \notin Accounts
    BY <1>1, <2>2 DEF AccountsKept, AccountsInv, TablesInv, HistoryInv, Barred
  <2> QED BY <2>1, <2>2
<1>5. ReqOK(r, barred'[c]) /\ LinkOf(r) = 0
  BY <1>3, AccountConstants DEF ReqOK, LinkOf, Resting, Issuing
<1> QED BY <1>1, <1>4, <1>5, GoingOnKeepsInv, UnchangedRows DEF Reprieved

\* markEmailVerified makes the account ACTIVE whatever it was.
LEMMA MarkEmailVerifiedKeepsInv ==
  ASSUME AccountsInv, NEW c \in SignCalls, MarkEmailVerified(c)
  PROVE  AccountsInv'
<1>1. PICK a, r : a = req[c].account /\ r = req[c].then
  OBVIOUS
<1>2. PICK row : row = [account[a] EXCEPT !.verified = TRUE, !.status = "ACTIVE"]
  OBVIOUS
<1>3. account' = [account EXCEPT ![a] = row]
  BY <1>1, <1>2 DEF MarkEmailVerified
<1>4. Reprieved(a, c, r) /\ UNCHANGED <<session, link>>
  BY <1>1 DEF MarkEmailVerified
<1>5. r \in {Resting, Issuing(a, 0)}
  BY <1>1 DEF MarkEmailVerified, AccountsInv, RequestsInv, ReqOK
<1>6. CASE a \in Accounts
  <2>1. "status" \in DOMAIN row /\ row.status = "ACTIVE"
    BY <1>2, <1>6 DEF AccountsInv, TablesInv
  <2> QED BY <1>3, <1>4, <1>5, <2>1, ReprieveKeepsInv
<1>7. CASE a \notin Accounts
  <2>1. PICK any : any = [status |-> "ACTIVE"]
    OBVIOUS
  <2>2. account' = [account EXCEPT ![a] = any]
    BY <1>3, <1>7 DEF AccountsInv, TablesInv
  <2>3. "status" \in DOMAIN any /\ any.status = "ACTIVE"
    BY <2>1
  <2> QED BY <1>4, <1>5, <2>2, <2>3, ReprieveKeepsInv
<1> QED BY <1>6, <1>7

\* Passwords, codes, registration, refresh.
LEMMA AuthKeepsInv ==
  ASSUME AccountsInv, NEW c \in SignCalls, AuthRequest(c)
  PROVE  AccountsInv'
<1> DEFINE now == {a \in Accounts : Exists(a) /\ Barred(a)}
<1>1. ASSUME NEW s \in 1..MaxSessions, BeginRefresh(c, s)
      PROVE  AccountsInv'
  <2> DEFINE r == [step |-> "revoke", id |-> s, account |-> session[s].account,
                   refused |-> Barred(session[s].account)]
  <2>1. ReqOK(r, now) /\ LinkOf(r) = 0
    BY DEF ReqOK, LinkOf
  <2> QED BY <1>1, <2>1, BeginKeepsInv DEF BeginRefresh
<1>2. ASSUME NEW e \in Emails, BeginRegister(c, e) \/ ForgotPassword(c, e)
      PROVE  AccountsInv'
  <2>1. PICK r : /\ Begin(c, r) /\ UNCHANGED <<account, session, link>>
                 /\ "step" \in DOMAIN r /\ r.step \in {"create", "send"}
    BY <1>2 DEF BeginRegister, ForgotPassword
  <2>2. ReqOK(r, now) /\ LinkOf(r) = 0
    BY <2>1 DEF ReqOK, LinkOf
  <2> QED BY <2>1, <2>2, BeginKeepsInv
<1>3. ASSUME NEW e \in Emails, NEW k \in 1..issued,
             BeginVerifyEmail(c, e, k) \/ BeginReset(c, e, k)
      PROVE  AccountsInv'
  <2>1. \E r : /\ Begin(c, r) /\ UNCHANGED <<account, session, link>>
               /\ "step" \in DOMAIN r /\ r.step = "compare"
    <3>1. CASE BeginVerifyEmail(c, e, k)
      BY <3>1 DEF BeginVerifyEmail
    <3>2. CASE BeginReset(c, e, k)
      <4>1. PICK a \in Owners(e) : Begin(c, [step |-> "compare", purpose |-> "reset",
                                             email |-> e, code |-> k, account |-> a])
        BY <3>2 DEF BeginReset
      <4> QED BY <3>2, <4>1 DEF BeginReset
    <3> QED BY <1>3, <3>1, <3>2
  <2>2. PICK r : /\ Begin(c, r) /\ UNCHANGED <<account, session, link>>
                 /\ "step" \in DOMAIN r /\ r.step = "compare"
    BY <2>1
  <2>3. ReqOK(r, now) /\ LinkOf(r) = 0
    BY <2>2 DEF ReqOK, LinkOf
  <2> QED BY <2>2, <2>3, BeginKeepsInv
<1>4. ASSUME NEW a \in Accounts, Login(c, a)
      PROVE  AccountsInv'
  <2>1. ReqOK(Issuing(a, 0), now) /\ LinkOf(Issuing(a, 0)) = 0
    BY <1>4, AccountConstants DEF Login, ReqOK, LinkOf, Issuing
  <2> QED BY <1>4, <2>1, BeginKeepsInv DEF Login
<1>5. ASSUME NEW a \in Accounts, CreateAccount(c, a)
      PROVE  AccountsInv'
  <2> DEFINE row == [email |-> req[c].email, status |-> "PENDING_VERIFICATION",
                     verified |-> FALSE, password |-> TRUE, deleted |-> FALSE]
             r == IF VerificationRequired
                  THEN [step |-> "send", purpose |-> "verify", email |-> req[c].email]
                  ELSE [step |-> "activate", account |-> a, then |-> Issuing(a, 0)]
  <2>1. account' = [account EXCEPT ![a] = row] /\ Continue(c, r) /\ UNCHANGED <<session, link>>
    BY <1>5 DEF CreateAccount
  <2>2. \A d \in SignCalls : a \notin barred[d]
    BY <1>5 DEF CreateAccount, Exists, NoAccount, AccountsInv, HistoryInv, Barred
  <2>3. /\ "step" \in DOMAIN r /\ ReqOK(r, barred[c]) /\ LinkOf(r) = 0
    BY DEF ReqOK, LinkOf
  <2>4. /\ barred' = [d \in SignCalls |-> barred'[d]]
        /\ \A d \in SignCalls : barred'[d] \subseteq barred[d]
    BY <2>1 DEF Continue, AccountsInv, TablesInv
  <2>5. AccountsKept
    <3>1. "status" \in DOMAIN row
      OBVIOUS
    <3> HIDE DEF row
    <3> QED BY <2>1, <2>2, <2>4, <3>1, AccountRowIsKept
  <2>6. ReqOK(r, barred'[c])
    BY <2>3, <2>4, ReqOKMonotone
  <2> HIDE DEF r
  <2> QED BY <2>1, <2>3, <2>4, <2>5, <2>6, GoingOnKeepsInv, UnchangedRows DEF Continue
<1>6. CASE RevokeOld(c)
  <2> DEFINE s == req[c].id
             r == IF req[c].refused THEN Resting ELSE Issuing(req[c].account, 0)
  <2>1. SessionsKept
    BY <1>6, EndedSessionIsKept DEF RevokeOld, AccountsInv, RequestsInv, ReqOK
  <2>2. ReqOK(r, barred[c]) /\ LinkOf(r) = 0
    BY <1>6, AccountConstants
       DEF RevokeOld, AccountsInv, RequestsInv, ReqOK, LinkOf, Issuing, Resting
  <2> QED BY <1>6, <2>1, <2>2, ContinueKeepsInv, UnchangedRows DEF RevokeOld
<1>7. CASE SendCode(c) \/ CompareCode(c) \/ DropCode(c)
  <2>1. "step" \in DOMAIN req[c]
    BY DEF AccountsInv, RequestsInv, ReqOK
  <2>2. \E r : /\ Continue(c, r) /\ UNCHANGED <<account, session, link>>
               /\ "step" \in DOMAIN r /\ r.step \in {"idle", "drop", "find", "password"}
    <3>1. CASE SendCode(c)
      BY <3>1 DEF SendCode, Resting
    <3>2. CASE CompareCode(c)
      <4>1. Continue(c, [req[c] EXCEPT !.step = "drop"]) \/ Continue(c, Resting)
        BY <3>2 DEF CompareCode
      <4> QED BY <2>1, <3>2, <4>1 DEF CompareCode, Resting
    <3>3. CASE DropCode(c)
      <4>1. \/ Continue(c, [req[c] EXCEPT !.step = "find"])
            \/ Continue(c, [req[c] EXCEPT !.step = "password"])
        BY <3>3 DEF DropCode
      <4> QED BY <2>1, <3>3, <4>1 DEF DropCode
    <3> QED BY <1>7, <3>1, <3>2, <3>3
  <2>3. PICK r : /\ Continue(c, r) /\ UNCHANGED <<account, session, link>>
                 /\ "step" \in DOMAIN r /\ r.step \in {"idle", "drop", "find", "password"}
    BY <2>2
  <2>4. ReqOK(r, barred[c]) /\ LinkOf(r) = 0
    BY <2>3 DEF ReqOK, LinkOf
  <2> QED BY <2>3, <2>4, ContinueKeepsInv, UnchangedRows
<1>8. CASE FindVerified(c)
  <2>1. PICK a \in Owners(req[c].email) :
          Continue(c, [step |-> "activate", account |-> a, then |-> Resting])
    BY <1>8 DEF FindVerified
  <2>2. /\ ReqOK([step |-> "activate", account |-> a, then |-> Resting], barred[c])
        /\ LinkOf([step |-> "activate", account |-> a, then |-> Resting]) = 0
    BY DEF ReqOK, LinkOf
  <2> QED BY <1>8, <2>1, <2>2, ContinueKeepsInv, UnchangedRows DEF FindVerified
<1>9. CASE MarkEmailVerified(c)
  BY <1>9, MarkEmailVerifiedKeepsInv
<1>10. CASE UpdatePassword(c)
  <2>1. PICK a : a = req[c].account
    OBVIOUS
  <2>2. /\ barred' = [d \in SignCalls |-> barred'[d]]
        /\ \A d \in SignCalls : barred'[d] \subseteq barred[d]
        /\ Continue(c, Resting) /\ UNCHANGED <<session, link>>
    BY <1>10 DEF UpdatePassword, Continue, AccountsInv, TablesInv
  <2>3. AccountsKept
    BY <1>10, <2>1, <2>2, StatusIsKept DEF UpdatePassword
  <2>4. ReqOK(Resting, barred'[c]) /\ LinkOf(Resting) = 0
    BY DEF ReqOK, LinkOf, Resting
  <2> QED BY <2>2, <2>3, <2>4, GoingOnKeepsInv, UnchangedRows DEF Continue
<1> QED BY <1>1, <1>2, <1>3, <1>4, <1>5, <1>6, <1>7, <1>8, <1>9, <1>10, IssuePairKeepsInv
        DEF AuthRequest
\* Google and Apple.
LEMMA FederatedKeepsInv ==
  ASSUME AccountsInv, NEW c \in SignCalls, FederatedRequest(c)
  PROVE  AccountsInv'
<1> DEFINE now == {a \in Accounts : Exists(a) /\ Barred(a)}
<1>1. ASSUME NEW p, NEW e \in Emails, FindByProvider(c, p, e)
      PROVE  AccountsInv'
  <2>1. PICK a : a = credential[<<p, e>>]
    OBVIOUS
  <2>2. CASE a = None
    <3> DEFINE r == [step |-> "byEmail", provider |-> p, email |-> e]
    <3>1. ReqOK(r, now) /\ LinkOf(r) = 0
      BY DEF ReqOK, LinkOf
    <3> QED BY <1>1, <2>1, <2>2, <3>1, BeginKeepsInv DEF FindByProvider
  <2>3. CASE a # None
    <3>1. ~Barred(a) /\ Begin(c, Issuing(a, 0)) /\ UNCHANGED <<account, session, link>>
      BY <1>1, <2>1, <2>3 DEF FindByProvider
    <3>2. ReqOK(Issuing(a, 0), now) /\ LinkOf(Issuing(a, 0)) = 0
      BY <3>1, AccountConstants DEF ReqOK, LinkOf, Issuing
    <3> QED BY <3>1, <3>2, BeginKeepsInv
  <2> QED BY <2>2, <2>3
<1>2. CASE FindByEmail(c)
  <2>1. CASE Continue(c, [req[c] EXCEPT !.step = "createOAuth"])
    <3>1. PICK r : r = [req[c] EXCEPT !.step = "createOAuth"]
      OBVIOUS
    <3>2. "step" \in DOMAIN r /\ r.step = "createOAuth"
      BY <3>1 DEF AccountsInv, RequestsInv, ReqOK
    <3>3. ReqOK(r, barred[c]) /\ LinkOf(r) = 0
      BY <3>2 DEF ReqOK, LinkOf
    <3> QED BY <1>2, <2>1, <3>1, <3>3, ContinueKeepsInv, UnchangedRows DEF FindByEmail
  <2>2. ASSUME NEW a \in Owners(req[c].email),
               Continue(c, [step |-> "link", provider |-> req[c].provider,
                            email |-> req[c].email, account |-> a,
                            verified |-> account[a].verified, refused |-> Barred(a)])
        PROVE  AccountsInv'
    <3>1. PICK r : r = [step |-> "link", provider |-> req[c].provider,
                        email |-> req[c].email, account |-> a,
                        verified |-> account[a].verified, refused |-> Barred(a)]
      OBVIOUS
    <3>2. /\ "step" \in DOMAIN r /\ r.step = "link" /\ r.account = a
          /\ r.refused <=> Barred(a)
      BY <3>1
    <3>3. ~Barred(a) => a \notin barred[c]
      BY DEF AccountsInv, HistoryInv
    <3>4. ReqOK(r, barred[c]) /\ LinkOf(r) = 0
      BY <3>2, <3>3 DEF ReqOK, LinkOf
    <3> QED BY <1>2, <2>2, <3>1, <3>4, ContinueKeepsInv, UnchangedRows DEF FindByEmail
  <2> QED BY <1>2, <2>1, <2>2 DEF FindByEmail
<1>3. CASE LinkCredential(c)
  <2>1. PICK next, a : /\ a = req[c].account
                       /\ next = IF req[c].refused THEN Resting ELSE Issuing(a, 0)
    OBVIOUS
  <2>2. PICK r : r = IF req[c].verified THEN next
                     ELSE [step |-> "activate", account |-> a, then |-> next]
    OBVIOUS
  <2>3. Continue(c, r) /\ UNCHANGED <<account, session, link>>
    BY <1>3, <2>1, <2>2 DEF LinkCredential
  <2>4. ReqOK(next, barred[c]) /\ LinkOf(next) = 0
    BY <1>3, <2>1, AccountConstants
       DEF LinkCredential, AccountsInv, RequestsInv, ReqOK, LinkOf, Issuing, Resting
  <2>5. ReqOK(r, barred[c]) /\ LinkOf(r) = 0
    BY <2>1, <2>2, <2>4 DEF ReqOK, LinkOf
  <2> QED BY <2>3, <2>5, ContinueKeepsInv, UnchangedRows
<1>4. ASSUME NEW a \in Accounts, CreateOAuthUser(c, a)
      PROVE  AccountsInv'
  <2>1. PICK row : row = [email |-> req[c].email, status |-> "ACTIVE", verified |-> TRUE,
                          password |-> FALSE, deleted |-> FALSE]
    OBVIOUS
  <2>2. /\ account' = [account EXCEPT ![a] = row] /\ Continue(c, Issuing(a, 0))
        /\ UNCHANGED <<session, link>> /\ "status" \in DOMAIN row
    BY <1>4, <2>1 DEF CreateOAuthUser
  <2>3. \A d \in SignCalls : a \notin barred[d]
    BY <1>4 DEF CreateOAuthUser, Exists, NoAccount, AccountsInv, HistoryInv, Barred
  <2>4. /\ barred' = [d \in SignCalls |-> barred'[d]]
        /\ \A d \in SignCalls : barred'[d] \subseteq barred[d]
    BY <2>2 DEF Continue, AccountsInv, TablesInv
  <2>5. AccountsKept
    BY <2>2, <2>3, <2>4, AccountRowIsKept
  <2>6. ReqOK(Issuing(a, 0), barred'[c]) /\ LinkOf(Issuing(a, 0)) = 0
    BY <2>3, <2>4, AccountConstants DEF ReqOK, LinkOf, Issuing
  <2> QED BY <2>2, <2>4, <2>5, <2>6, GoingOnKeepsInv, UnchangedRows DEF Continue
<1> QED BY <1>1, <1>2, <1>3, <1>4 DEF FederatedRequest, GoogleSignIn, AppleSignIn

\* The desktop's link code: read, claimed, and its owner looked up.
LEMMA DesktopKeepsInv ==
  ASSUME AccountsInv, NEW c \in SignCalls, DesktopRequest(c)
  PROVE  AccountsInv'
<1> DEFINE now == {a \in Accounts : Exists(a) /\ Barred(a)}
<1>1. ASSUME NEW l \in 1..MaxLinks, BeginExchange(c, l)
      PROVE  AccountsInv'
  <2> DEFINE r == [step |-> "claim", id |-> l, account |-> link[l].account]
  <2>1. ReqOK(r, now) /\ LinkOf(r) = 0
    BY DEF ReqOK, LinkOf
  <2> QED BY <1>1, <2>1, BeginKeepsInv DEF BeginExchange
<1>2. CASE FindOwner(c)
  <2>1. PICK a, l : a = req[c].account /\ l = req[c].id
    OBVIOUS
  <2>2. /\ l \in 1..MaxLinks /\ a \notin barred[c] /\ LinkOf(req[c]) = l
    BY <1>2, <2>1 DEF FindOwner, AccountsInv, RequestsInv, ReqOK, HistoryInv, LinkOf
  <2>3. ReqOK(Issuing(a, l), barred[c]) /\ LinkOf(Issuing(a, l)) = LinkOf(req[c])
    BY <2>2, AccountConstants DEF ReqOK, LinkOf, Issuing
  <2> QED BY <1>2, <2>1, <2>3, ContinueKeepsInv, UnchangedRows DEF FindOwner
<1> QED BY <1>1, <1>2, ClaimLinkKeepsInv DEF DesktopRequest
\* An administrator verifies an account; a request fails.
LEMMA AdminAndEndKeepInv ==
  ASSUME AccountsInv, NEW c \in SignCalls, AdminRequest(c) \/ EndSignCall(c)
  PROVE  AccountsInv'
<1> DEFINE now == {a \in Accounts : Exists(a) /\ Barred(a)}
<1>1. ASSUME NEW a \in Accounts, BeginVerifyUser(c, a)
      PROVE  AccountsInv'
  <2> DEFINE r == [step |-> "force", account |-> a,
                   pending |-> account[a].status = "PENDING_VERIFICATION"]
  <2>1. ReqOK(r, now) /\ LinkOf(r) = 0
    BY DEF ReqOK, LinkOf
  <2> QED BY <1>1, <2>1, BeginKeepsInv DEF BeginVerifyUser
<1>2. CASE ForceVerify(c)
  <2>1. PICK a, row : /\ a = req[c].account
                      /\ row = [account[a] EXCEPT !.verified = TRUE,
                                                  !.status = IF req[c].pending THEN "ACTIVE" ELSE @]
    OBVIOUS
  <2>2. account' = [account EXCEPT ![a] = row]
    BY <1>2, <2>1 DEF ForceVerify
  <2>3. Reprieved(a, c, Resting) /\ UNCHANGED <<session, link>>
    BY <1>2, <2>1 DEF ForceVerify
  <2>4. CASE a \in Accounts
    <3>1. /\ "status" \in DOMAIN row
          /\ row.status = "ACTIVE" \/ row.status = account[a].status
      BY <2>1, <2>4 DEF AccountsInv, TablesInv
    <3> QED BY <2>2, <2>3, <3>1, ReprieveKeepsInv
  <2>5. CASE a \notin Accounts
    <3>1. PICK any : any = [status |-> "ACTIVE"]
      OBVIOUS
    <3>2. account' = [account EXCEPT ![a] = any]
      BY <2>2, <2>5 DEF AccountsInv, TablesInv
    <3>3. "status" \in DOMAIN any /\ any.status = "ACTIVE"
      BY <3>1
    <3> QED BY <2>3, <3>2, <3>3, ReprieveKeepsInv
  <2> QED BY <2>4, <2>5
<1>3. CASE EndSignCall(c)
  <2>1. ReqOK(Resting, barred[c]) /\ LinkOf(Resting) = 0
    BY DEF ReqOK, LinkOf, Resting
  <2> QED BY <1>3, <2>1, ContinueKeepsInv, UnchangedRows DEF EndSignCall
<1> QED BY <1>1, <1>2, <1>3 DEF AdminRequest

\* Steps that belong to no request in flight, and time.
LEMMA StandingStepsKeepInv ==
  ASSUME AccountsInv,
         \/ \E s \in 1..MaxSessions : RevokeSession(s)
         \/ \E a \in Accounts : \/ IssueLink(a) \/ DeleteAccount(a)
                                \/ \E st \in {"ACTIVE", "SUSPENDED"} : SetUserStatus(a, st)
         \/ RunOut
  PROVE  AccountsInv'
<1>1. ASSUME NEW s \in 1..MaxSessions, RevokeSession(s)
      PROVE  AccountsInv'
  <2>1. SessionsKept
    BY <1>1, EndedSessionIsKept DEF RevokeSession, Usable
  <2> QED BY <1>1, <2>1, StandingKeepsInv, UnchangedRows
          DEF RevokeSession, AccountsInv, TablesInv
<1>2. ASSUME NEW a \in Accounts, IssueLink(a)
      PROVE  AccountsInv'
  <2>1. PICK l \in NextRow(link) :
          link' = [link EXCEPT ![l] = [account |-> a, consumed |-> FALSE, late |-> FALSE]]
    BY <1>2 DEF IssueLink
  <2>2. LinksKept
    BY <2>1 DEF NextRow, LinksKept, Spent, AccountsInv, TablesInv
  <2> QED BY <1>2, <2>2, StandingKeepsInv, UnchangedRows DEF IssueLink, AccountsInv, TablesInv
<1>3. ASSUME NEW a \in Accounts, DeleteAccount(a)
      PROVE  AccountsInv'
  <2>1. SessionsKept
    BY <1>3 DEF DeleteAccount, Purge, SessionsKept, Stored, AccountsInv, TablesInv
  <2>2. LinksKept
    <3>1. NoRow # Removed
      BY DEF NoRow, Removed
    <3> QED BY <1>3, <3>1 DEF DeleteAccount, Purge, LinksKept, Spent, Stored, AccountsInv, TablesInv
  <2>3. PICK row : row = [email |-> None, status |-> "DEACTIVATED", verified |-> FALSE,
                          password |-> FALSE, deleted |-> TRUE]
    OBVIOUS
  <2>4. "status" \in DOMAIN row /\ row.status = "DEACTIVATED"
    BY <2>3
  <2>5. account' = [account EXCEPT ![a] = row] /\ UNCHANGED <<req, barred>>
    BY <1>3, <2>3 DEF DeleteAccount
  <2>6. AccountsKept
    BY <2>4, <2>5, AccountRowIsKept DEF AccountsInv, TablesInv
  <2> QED BY <2>1, <2>2, <2>5, <2>6, StandingKeepsInv DEF AccountsInv, TablesInv
<1>4. ASSUME NEW a \in Accounts, NEW st \in {"ACTIVE", "SUSPENDED"}, SetUserStatus(a, st)
      PROVE  AccountsInv'
  <2>1. PICK row : row = [account[a] EXCEPT !.status = st]
    OBVIOUS
  <2>2. "status" \in DOMAIN row /\ row.status = st
    BY <2>1 DEF AccountsInv, TablesInv
  <2>3. account' = [account EXCEPT ![a] = row] /\ UNCHANGED <<session, link, req>>
    BY <1>4, <2>1 DEF SetUserStatus
  <2>4. /\ barred' = [d \in SignCalls |-> barred'[d]]
        /\ \A d \in SignCalls : barred'[d] \subseteq barred[d]
        /\ st = "ACTIVE" => \A d \in SignCalls : a \notin barred'[d]
    BY <1>4 DEF SetUserStatus, AccountsInv, TablesInv
  <2>5. AccountsKept
    BY <2>2, <2>3, <2>4, AccountRowIsKept
  <2> QED BY <2>3, <2>4, <2>5, StandingKeepsInv, UnchangedRows
<1>5. CASE RunOut
  <2>1. SessionsKept
    <3>1. CASE UNCHANGED session
      BY <3>1, UnchangedRows
    <3>2. ASSUME NEW s \in 1..MaxSessions, Usable(s),
                 session' = [session EXCEPT ![s].live = FALSE]
          PROVE  SessionsKept
      BY <3>2, EndedSessionIsKept DEF Usable
    <3> QED BY <1>5, <3>1, <3>2 DEF RunOut
  <2>2. LinksKept
    <3>1. CASE UNCHANGED link
      BY <3>1, UnchangedRows
    <3>2. ASSUME NEW l \in 1..MaxLinks, Stored(link[l]), link' = [link EXCEPT ![l].late = TRUE]
          PROVE  LinksKept
      <4>1. /\ link' = [k \in 1..MaxLinks |-> link'[k]]
            /\ \A k \in 1..MaxLinks \ {l} : link'[k] = link[k]
            /\ link'[l] = [link[l] EXCEPT !.late = TRUE]
        BY <3>2 DEF AccountsInv, TablesInv
      <4>2. "consumed" \in DOMAIN link'[l] /\ link'[l].consumed = link[l].consumed
        BY <3>2, <4>1 DEF AccountsInv, TablesInv
      <4>3. "consumed" \notin DOMAIN NoRow
        BY DEF NoRow
      <4> QED BY <3>2, <4>1, <4>2, <4>3 DEF LinksKept, Spent, AccountsInv, TablesInv
    <3> QED BY <1>5, <3>1, <3>2 DEF RunOut
  <2> QED BY <1>5, <2>1, <2>2, StandingKeepsInv, UnchangedRows DEF RunOut, AccountsInv, TablesInv
<1> QED BY <1>1, <1>2, <1>3, <1>4, <1>5

-----------------------------------------------------------------------------
(* The theorems.                                                           *)

\* Nobody is there yet, and nothing is in flight.
LEMMA AccountsInvInit == AccountsInit => AccountsInv
<1> SUFFICES ASSUME AccountsInit
             PROVE  AccountsInv
  OBVIOUS
<1>1. /\ \A s \in 1..MaxSessions : ~Stored(session[s])
      /\ \A l \in 1..MaxLinks : ~Stored(link[l])
      /\ \A c \in SignCalls : LinkOf(req[c]) = 0 /\ ReqOK(req[c], barred[c])
  BY DEF AccountsInit, Stored, LinkOf, ReqOK, Resting
<1>2. TablesInv
  BY <1>1 DEF AccountsInit, TablesInv, NoAccount
<1>3. HistoryInv
  BY DEF AccountsInit, HistoryInv
<1>4. HoldersInv
  BY <1>1 DEF HoldersInv
<1> QED BY <1>1, <1>2, <1>3, <1>4
        DEF AccountsInv, RequestsInv, BarredGetNoPair, LinkBuysOneSession

\* Every step of the sessions, codes and links keeps the invariant.
LEMMA AccountsInvStep == AccountsInv /\ [AccountsNext]_accountVars => AccountsInv'
<1>1. ASSUME AccountsInv, UNCHANGED accountVars
      PROVE  AccountsInv'
  <2>1. SessionsKept /\ LinksKept /\ AccountsKept
    BY <1>1, UnchangedRows DEF accountVars
  <2> QED BY <1>1, <2>1, StandingKeepsInv DEF accountVars, AccountsInv, TablesInv
<1> QED BY <1>1, AuthKeepsInv, FederatedKeepsInv, DesktopKeepsInv, AdminAndEndKeepInv,
           StandingStepsKeepInv DEF AccountsNext

\* Whoever was suspended or closed while a sign-in, a refresh or an exchange ran,
\* however many of them and whatever else happened meanwhile, got no session from it.
THEOREM BarredAccountsGetNoPair == AccountsSpec => []BarredGetNoPair
<1>1. AccountsSpec => []AccountsInv
  BY AccountsInvInit, AccountsInvStep, PTL DEF AccountsSpec
<1>2. AccountsInv => BarredGetNoPair
  BY DEF AccountsInv
<1> QED BY <1>1, <1>2, PTL

\* Any number of exchanges of a link code make one session.
THEOREM OneSessionPerLink == AccountsSpec => []LinkBuysOneSession
<1>1. AccountsSpec => []AccountsInv
  BY AccountsInvInit, AccountsInvStep, PTL DEF AccountsSpec
<1>2. AccountsInv => LinkBuysOneSession
  BY DEF AccountsInv
<1> QED BY <1>1, <1>2, PTL

-----------------------------------------------------------------------------
(* The studio's sign-in through the browser.                               *)

Stop == <<"stop">>
StudioCall == {Stop} \cup ({"start", "await"} \X Attempts)

\* Calls are made once for each attempt, by one that has not come further since.
QueueInv ==
  /\ calls \in Seq(StudioCall)
  /\ attempt = [n \in Attempts |-> attempt[n]]
  /\ \A i \in 1..Len(calls) :
       /\ calls[i][1] = "start" => attempt[calls[i][2]].step = "starting"
       /\ calls[i][1] = "await" => attempt[calls[i][2]].step = "waiting" /\ waiter # calls[i][2]
  /\ \A i, j \in 1..Len(calls) : calls[i] = calls[j] /\ calls[i] # Stop => i = j
  /\ waiter # 0 => waiter \in Attempts /\ attempt[waiter].step = "waiting"

\* The listener is open, or an attempt is about to open it.
Listens == listener # 0 \/ \E k \in Attempts : attempt[k].step = "binding"

NoStopAfter(i) == \A j \in 1..Len(calls) : j > i => calls[j] # Stop

\* While the studio shows that it waits, one attempt is on its way, and once it has
\* called for the listener nothing that was asked before it closes it any more.
OnItsWay(m) ==
  \/ attempt[m].step = "verifier"
  \/ /\ attempt[m].step = "starting"
     /\ \E i \in 1..Len(calls) : calls[i] = <<"start", m>> /\ NoStopAfter(i)
  \/ /\ attempt[m].step \notin {"idle", "done", "verifier", "starting"}
     /\ NoStopAfter(0) /\ Listens

LinkInv == QueueInv /\
  (phase = "linking" => cancelled = FALSE /\ \E m \in Attempts : OnItsWay(m))

LEMMA LinkInvInit == SignInStart => LinkInv
BY DEF SignInStart, LinkInv, QueueInv, Idle

\* What an attempt that goes on may add to the queue.
Adds(n, a) ==
  \/ calls' = calls /\ a.step \notin {"starting"}
  \/ calls' = Append(calls, Stop)
  \/ calls' = Append(calls, <<"start", n>>) /\ a.step = "starting"
  \/ calls' = Append(calls, <<"await", n>>) /\ a.step = "waiting"

\* An attempt that the main process has no call of goes on.
LEMMA AttemptKeepsQueue ==
  ASSUME QueueInv, NEW n \in Attempts, attempt[n].step \notin {"starting", "waiting"},
         NEW a, Becomes(n, a), Adds(n, a), waiter' = waiter
  PROVE  QueueInv'
<1>1. attempt' = [k \in Attempts |-> IF k = n THEN a ELSE attempt[k]]
  BY DEF Becomes, QueueInv
<1>2. calls \in Seq(StudioCall) /\ Len(calls) \in Nat
  BY DEF QueueInv
<1>3. ASSUME NEW i \in 1..Len(calls)
      PROVE  /\ calls[i] \in StudioCall
             /\ calls[i][1] \in {"start", "await"} => calls[i][2] \in Attempts /\ calls[i][2] # n
             /\ calls[i] # <<"start", n>> /\ calls[i] # <<"await", n>>
  BY <1>2 DEF QueueInv, StudioCall, Stop
<1>4. waiter # n
  BY DEF QueueInv
<1>5. ASSUME NEW i \in 1..Len(calls)
      PROVE  /\ calls[i][1] = "start" => attempt'[calls[i][2]].step = "starting"
             /\ calls[i][1] = "await" => attempt'[calls[i][2]].step = "waiting" /\ waiter # calls[i][2]
  BY <1>1, <1>3 DEF QueueInv
<1>6. waiter' # 0 => waiter' \in Attempts /\ attempt'[waiter'].step = "waiting"
  BY <1>1, <1>4 DEF QueueInv
<1>7. CASE calls' = calls
  BY <1>1, <1>5, <1>6, <1>7 DEF QueueInv
<1>8. ASSUME NEW c \in {Stop, <<"start", n>>, <<"await", n>>}, calls' = Append(calls, c),
             c = <<"start", n>> => a.step = "starting",
             c = <<"await", n>> => a.step = "waiting"
      PROVE  QueueInv'
  <2>1. c \in StudioCall
    BY DEF StudioCall
  <2>2. calls' \in Seq(StudioCall) /\ Len(calls') = Len(calls) + 1
    BY <1>2, <1>8, <2>1
  <2>3. \A i \in 1..Len(calls') : calls'[i] = IF i = Len(calls) + 1 THEN c ELSE calls[i]
    BY <1>2, <1>8, <2>1
  <2>4. ASSUME NEW i \in 1..Len(calls')
        PROVE  /\ calls'[i][1] = "start" => attempt'[calls'[i][2]].step = "starting"
               /\ calls'[i][1] = "await" =>
                    attempt'[calls'[i][2]].step = "waiting" /\ waiter' # calls'[i][2]
    <3>1. CASE i = Len(calls) + 1
      BY <1>1, <1>4, <1>8, <2>3, <3>1 DEF Stop
    <3>2. CASE i \in 1..Len(calls)
      BY <1>2, <1>5, <2>3, <3>2
    <3> QED BY <1>2, <2>2, <3>1, <3>2
  <2>5. ASSUME NEW i \in 1..Len(calls'), NEW j \in 1..Len(calls'),
               calls'[i] = calls'[j], calls'[i] # Stop
        PROVE  i = j
    BY <1>2, <1>3, <2>2, <2>3, <2>5 DEF QueueInv
  <2>6. attempt' = [k \in Attempts |-> attempt'[k]]
    BY <1>1
  <2>7. \A i, j \in 1..Len(calls') : calls'[i] = calls'[j] /\ calls'[i] # Stop => i = j
    BY <2>5
  <2>8. \A i \in 1..Len(calls') :
          /\ calls'[i][1] = "start" => attempt'[calls'[i][2]].step = "starting"
          /\ calls'[i][1] = "await" =>
               attempt'[calls'[i][2]].step = "waiting" /\ waiter' # calls'[i][2]
    BY <2>4
  <2> QED BY ONLY <1>6, <2>2, <2>6, <2>7, <2>8 DEF QueueInv
<1>9. Stop # <<"start", n>> /\ Stop # <<"await", n>> /\ <<"start", n>> # <<"await", n>>
  BY DEF Stop
<1>10. CASE calls' = Append(calls, Stop)
  BY <1>8, <1>9, <1>10
<1>11. CASE calls' = Append(calls, <<"start", n>>) /\ a.step = "starting"
  BY <1>8, <1>9, <1>11
<1>12. CASE calls' = Append(calls, <<"await", n>>) /\ a.step = "waiting"
  BY <1>8, <1>9, <1>12
<1> QED BY <1>7, <1>10, <1>11, <1>12 DEF Adds

\* An attempt that goes on without calling for a stop takes nobody's listener.
LEMMA AttemptKeepsWay ==
  ASSUME QueueInv, NEW m \in Attempts, OnItsWay(m),
         NEW n \in Attempts, attempt[n].step \notin {"idle", "starting", "waiting", "binding", "done"},
         NEW a, Becomes(n, a), Adds(n, a), a.step \notin {"idle", "done", "verifier"},
         attempt[n].step = "verifier" => calls' = Append(calls, <<"start", n>>) /\ a.step = "starting",
         attempt[n].step # "verifier" => a.step # "starting",
         calls' # Append(calls, Stop), listener' = listener
  PROVE  OnItsWay(m)'
<1>1. attempt' = [k \in Attempts |-> IF k = n THEN a ELSE attempt[k]]
  BY DEF Becomes, QueueInv
<1>2. calls \in Seq(StudioCall) /\ Len(calls) \in Nat
  BY DEF QueueInv
<1>3. Listens => Listens'
  BY <1>1 DEF Listens
<1>4. PICK c \in {<<"start", n>>, <<"await", n>>} : calls' = calls \/ calls' = Append(calls, c)
  BY DEF Adds
<1>5. c \in StudioCall /\ c # Stop
  BY DEF StudioCall, Stop
<1>10. /\ Len(calls') >= Len(calls) /\ Len(calls') \in Nat
       /\ \A i \in 1..Len(calls) : calls'[i] = calls[i]
       /\ \A i \in 1..Len(calls') : i > Len(calls) => calls'[i] = c
  <2>1. CASE calls' = calls
    BY <1>2, <2>1
  <2>2. CASE calls' = Append(calls, c)
    <3>1. Len(calls') = Len(calls) + 1
      BY <1>2, <1>5, <2>2
    <3>2. \A i \in 1..(Len(calls) + 1) : calls'[i] = IF i = Len(calls) + 1 THEN c ELSE calls[i]
      BY <1>2, <1>5, <2>2
    <3> QED BY <1>2, <3>1, <3>2
  <2> QED BY <1>4, <2>1, <2>2
<1>6. ASSUME NEW i \in 0..Len(calls), NoStopAfter(i)
      PROVE  NoStopAfter(i)'
  <2>1. ASSUME NEW j \in 1..Len(calls'), j > i
        PROVE  calls'[j] # Stop
    <3>1. CASE j > Len(calls)
      BY <1>5, <1>10, <3>1
    <3>2. CASE j \in 1..Len(calls)
      BY <1>6, <1>10, <2>1, <3>2 DEF NoStopAfter
    <3> QED BY <1>2, <1>10, <3>1, <3>2
  <2> QED BY <2>1 DEF NoStopAfter
<1>7. CASE attempt[m].step = "verifier"
  <2>1. CASE m = n
    <3>1. calls' = Append(calls, <<"start", n>>) /\ a.step = "starting" /\ attempt'[m].step = "starting"
      BY <1>1, <1>7, <2>1
    <3>2. Len(calls') = Len(calls) + 1 /\ calls'[Len(calls) + 1] = <<"start", n>>
      BY <1>2, <3>1 DEF StudioCall
    <3> QED BY SMTT(30), <1>2, <2>1, <3>1, <3>2 DEF OnItsWay, NoStopAfter
  <2>2. CASE m # n
    BY <1>1, <1>7, <2>2 DEF OnItsWay
  <2> QED BY <2>1, <2>2
<1>8. CASE attempt[m].step = "starting"
  <2>1. attempt'[m].step = "starting"
    BY <1>1, <1>8
  <2>2. PICK i \in 1..Len(calls) : calls[i] = <<"start", m>> /\ NoStopAfter(i)
    BY <1>8 DEF OnItsWay
  <2>3. i \in 1..Len(calls') /\ calls'[i] = <<"start", m>>
    BY <1>2, <1>10, <2>2
  <2> QED BY <1>6, <2>1, <2>2, <2>3 DEF OnItsWay
<1>9. CASE attempt[m].step \notin {"verifier", "starting"}
  <2>1. attempt'[m].step \notin {"idle", "done", "verifier", "starting"}
    BY <1>1, <1>9 DEF OnItsWay
  <2> QED BY <1>2, <1>3, <1>6, <1>9, <2>1 DEF OnItsWay
<1> QED BY <1>7, <1>8, <1>9

\* The renderer's own steps: nothing it does while it waits takes the wait away.
LEMMA RendererKeepsLink ==
  ASSUME LinkInv, NEW n \in Attempts,
         SignIn(n) \/ AskToListen(n) \/ OpenPage(n) \/ Opened(n) \/ GotCode(n) \/ Exchange(n)
         \/ Probe(n) \/ Failed(n)
  PROVE  LinkInv'
<1>0. QueueInv /\ waiter' = waiter /\ listener' = listener
  BY DEF LinkInv, SignIn, AskToListen, OpenPage, Opened, GotCode, Exchange, Probe, Failed
<1>1. CASE SignIn(n)
  <2>1. Becomes(n, [step |-> "verifier"]) /\ calls' = calls /\ cancelled' = FALSE
        /\ attempt[n].step = "idle"
    BY <1>1 DEF SignIn, Idle
  <2>2. QueueInv'
    BY <1>0, <2>1, AttemptKeepsQueue DEF Adds
  <2>3. attempt'[n].step = "verifier"
    BY <1>0, <2>1 DEF Becomes, QueueInv
  <2> QED BY <2>1, <2>2, <2>3 DEF LinkInv, OnItsWay
\* An attempt that comes to its end while nothing waits, or ends the wait.
<1>2. CASE Ends(n) /\ phase' # "linking" /\ attempt[n].step \notin {"starting", "waiting"}
  <2>1. Becomes(n, Done) /\ calls' = Append(calls, Stop)
    BY <1>2 DEF Ends, Call, Stop
  <2>2. QueueInv'
    BY <1>0, <1>2, <2>1, AttemptKeepsQueue DEF Adds
  <2> QED BY <1>2, <2>2 DEF LinkInv
<1>3. ASSUME NEW a, Becomes(n, a), a.step \notin {"idle", "done", "verifier"},
             attempt[n].step \notin {"idle", "starting", "waiting", "binding", "done"},
             \/ calls' = Append(calls, <<"start", n>>) /\ a.step = "starting"
                /\ attempt[n].step = "verifier"
             \/ calls' = Append(calls, <<"await", n>>) /\ a.step = "waiting"
                /\ attempt[n].step # "verifier"
             \/ calls' = calls /\ a.step # "starting" /\ attempt[n].step # "verifier",
             phase' = phase, cancelled' = cancelled
      PROVE  LinkInv'
  <2>0. calls \in Seq(StudioCall) /\ Len(calls) \in Nat
    BY <1>0 DEF QueueInv
  <2>1. Adds(n, a)
    BY <1>3 DEF Adds
  <2>2. QueueInv'
    BY <1>0, <1>3, <2>1, AttemptKeepsQueue
  <2>3. calls' # Append(calls, Stop)
    <3>1. CASE calls' = calls
      BY <2>0, <3>1 DEF StudioCall
    <3>2. ASSUME NEW s \in {"start", "await"}, calls' = Append(calls, <<s, n>>)
          PROVE  calls' # Append(calls, Stop)
      <4>1. calls'[Len(calls) + 1] = <<s, n>>
        BY <2>0, <3>2
      <4>2. Append(calls, Stop)[Len(calls) + 1] = Stop
        BY <2>0
      <4> QED BY <4>1, <4>2 DEF Stop
    <3> QED BY <1>3, <3>1, <3>2
  <2>4. ASSUME NEW m \in Attempts, OnItsWay(m)
        PROVE  OnItsWay(m)'
    <3>1. attempt[n].step = "verifier" => calls' = Append(calls, <<"start", n>>) /\ a.step = "starting"
      BY <1>3
    <3>2. attempt[n].step # "verifier" => a.step # "starting"
      BY <1>3
    <3> QED BY <1>0, <1>3, <2>1, <2>3, <2>4, <3>1, <3>2, AttemptKeepsWay
  <2> QED BY <1>3, <2>2, <2>4 DEF LinkInv
<1>4. CASE AskToListen(n)
  BY <1>3, <1>4 DEF AskToListen, Call
<1>5. CASE OpenPage(n)
  BY <1>3, <1>5 DEF OpenPage
<1>6. CASE Opened(n)
  BY <1>3, <1>6 DEF Opened, Call
<1>7. CASE Exchange(n)
  BY <1>3, <1>7 DEF Exchange
<1>8. CASE GotCode(n)
  <2>1. CASE cancelled = TRUE
    BY <1>2, <1>8, <2>1 DEF GotCode, LinkInv
  <2>2. CASE cancelled # TRUE
    <3>1. PICK a : a = [step |-> "exchange", code |-> attempt[n].code]
      OBVIOUS
    <3>2. Becomes(n, a) /\ calls' = calls /\ attempt[n].step = "code" 
      BY <1>8, <2>2, <3>1 DEF GotCode
    <3> QED BY <1>3, <1>8, <3>1, <3>2 DEF GotCode
  <2> QED BY <2>1, <2>2
<1>9. CASE Probe(n)
  BY <1>2, <1>9 DEF Probe, Probed
<1>10. CASE Failed(n)
  BY <1>2, <1>10 DEF Failed, LinkInv
<1> QED BY <1>1, <1>4, <1>5, <1>6, <1>7, <1>8, <1>9, <1>10

\* The user, and a member whose session ends: no wait is left behind.
LEMMA UserKeepsLink ==
  ASSUME LinkInv, Boot \/ CancelSignIn \/ SignOut
  PROVE  LinkInv'
<1>1. CASE Boot \/ SignOut
  <2>1. UNCHANGED <<attempt, calls, waiter>> /\ phase' # "linking"
    BY <1>1 DEF Boot, SignOut, Probed
  <2> QED BY <2>1 DEF LinkInv, QueueInv
<1>2. CASE CancelSignIn
  <2>1. attempt' = attempt /\ waiter' = waiter /\ phase' # "linking" /\ calls' = Append(calls, Stop)
    BY <1>2 DEF CancelSignIn, Call, Stop
  <2>2. calls \in Seq(StudioCall) /\ Len(calls) \in Nat /\ Stop \in StudioCall
    BY DEF LinkInv, QueueInv, StudioCall
  <2>3. calls' \in Seq(StudioCall) /\ Len(calls') = Len(calls) + 1
    BY <2>1, <2>2
  <2>4. \A i \in 1..Len(calls') : calls'[i] = IF i = Len(calls) + 1 THEN Stop ELSE calls[i]
    BY <2>1, <2>2
  <2>5. ASSUME NEW i \in 1..Len(calls')
        PROVE  /\ calls'[i][1] = "start" => attempt'[calls'[i][2]].step = "starting"
               /\ calls'[i][1] = "await" =>
                    attempt'[calls'[i][2]].step = "waiting" /\ waiter' # calls'[i][2]
    <3>1. CASE i = Len(calls) + 1
      BY <2>4, <3>1 DEF Stop
    <3>2. CASE i \in 1..Len(calls)
      BY <2>1, <2>2, <2>4, <3>2 DEF LinkInv, QueueInv
    <3> QED BY <2>2, <2>3, <3>1, <3>2
  <2>6. ASSUME NEW i \in 1..Len(calls'), NEW j \in 1..Len(calls'),
               calls'[i] = calls'[j], calls'[i] # Stop
        PROVE  i = j
    BY <2>2, <2>3, <2>4, <2>6 DEF LinkInv, QueueInv
  <2>7. QueueInv'
    BY <2>1, <2>3, <2>5, <2>6 DEF LinkInv, QueueInv
  <2> QED BY <2>1, <2>7 DEF LinkInv
<1> QED BY <1>1, <1>2

\* The listen callback: the listener is there.
LEMMA ListeningKeepsLink ==
  ASSUME LinkInv, NEW n \in Attempts, Listening(n)
  PROVE  LinkInv'
<1>1. /\ Becomes(n, [step |-> "port"]) /\ calls' = calls /\ waiter' = waiter
      /\ attempt[n].step = "binding" /\ listener' = n /\ n # 0
      /\ phase' = phase /\ cancelled' = cancelled
  BY DEF Listening, Attempts
<1>2. QueueInv'
  BY <1>1, AttemptKeepsQueue DEF Adds, LinkInv
<1>3. attempt' = [k \in Attempts |-> IF k = n THEN [step |-> "port"] ELSE attempt[k]]
  BY <1>1 DEF Becomes, LinkInv, QueueInv
<1>4. ASSUME NEW m \in Attempts, OnItsWay(m)
      PROVE  OnItsWay(m)'
  <2>1. Listens'
    BY <1>1 DEF Listens
  <2>2. CASE m = n
    BY <1>1, <1>3, <1>4, <2>1, <2>2 DEF OnItsWay, NoStopAfter
  <2>3. CASE m # n
    BY <1>1, <1>3, <1>4, <2>1, <2>3 DEF OnItsWay, NoStopAfter
  <2> QED BY <2>2, <2>3
<1> QED BY <1>1, <1>2, <1>4 DEF LinkInv

\* The page sends its code to whoever waits, or keeps it: a waiting attempt goes on.
LEMMA ApproveKeepsLink ==
  ASSUME LinkInv, NEW n \in Attempts, Approve(n)
  PROVE  LinkInv'
<1>1. calls' = calls /\ listener' = listener /\ phase' = phase /\ cancelled' = cancelled
  BY DEF Approve
<1>2. CASE attempt' = attempt /\ waiter' = waiter
  BY <1>1, <1>2 DEF LinkInv, QueueInv, OnItsWay, NoStopAfter, Listens
<1>3. CASE waiter # 0 /\ Becomes(waiter, [step |-> "code", code |-> n]) /\ waiter' = 0
  <2>1. attempt' = [k \in Attempts |-> IF k = waiter THEN [step |-> "code", code |-> n]
                                       ELSE attempt[k]]
    BY <1>3 DEF Becomes, LinkInv, QueueInv
  <2>2. waiter \in Attempts /\ attempt[waiter].step = "waiting"
    BY <1>3 DEF LinkInv, QueueInv
  <2>3. ASSUME NEW i \in 1..Len(calls)
        PROVE  /\ calls[i][1] = "start" => attempt'[calls[i][2]].step = "starting"
               /\ calls[i][1] = "await" => attempt'[calls[i][2]].step = "waiting"
                                           /\ waiter' # calls[i][2]
    <3>1. calls[i] \in StudioCall
      BY DEF LinkInv, QueueInv
    <3>2. calls[i][1] \in {"start", "await"} => calls[i][2] \in Attempts
      BY <3>1 DEF StudioCall, Stop
    <3> QED BY <1>3, <2>1, <2>2, <3>2 DEF LinkInv, QueueInv, Attempts
  <2>4. QueueInv'
    BY <1>1, <1>3, <2>1, <2>3 DEF LinkInv, QueueInv
  <2>5. ASSUME NEW m \in Attempts, OnItsWay(m)
        PROVE  OnItsWay(m)'
    <3>1. Listens => Listens'
      BY <1>1, <2>1, <2>2 DEF Listens
    <3>2. CASE m = waiter
      BY <1>1, <2>1, <2>2, <2>5, <3>1, <3>2 DEF OnItsWay, NoStopAfter
    <3>3. CASE m # waiter
      BY <1>1, <2>1, <2>2, <2>5, <3>1, <3>3 DEF OnItsWay, NoStopAfter
    <3> QED BY <3>2, <3>3
  <2> QED BY <1>1, <2>4, <2>5 DEF LinkInv
<1> QED BY <1>2, <1>3 DEF Approve

\* The first call is off the queue.
LEMMA TailOfCalls ==
  ASSUME QueueInv, calls # <<>>, calls' = Tail(calls)
  PROVE  /\ calls' \in Seq(StudioCall) /\ Len(calls) \in Nat /\ Len(calls') = Len(calls) - 1
         /\ \A i \in 1..Len(calls') : calls'[i] = calls[i + 1] /\ i + 1 \in 1..Len(calls)
         /\ Head(calls) = calls[1] /\ Head(calls) \in StudioCall /\ 1 \in 1..Len(calls)
<1>1. calls \in Seq(StudioCall) /\ Len(calls) \in Nat
  BY DEF QueueInv
<1> QED BY <1>1

\* The attempt that made the first call is still where it made it.
LEMMA HeadIsOpen ==
  ASSUME QueueInv, calls # <<>>, NEW k \in Attempts
  PROVE  /\ Head(calls) = <<"start", k>> => attempt[k].step = "starting"
         /\ Head(calls) = <<"await", k>> => attempt[k].step = "waiting" /\ waiter # k
<1>1. Head(calls) = calls[1] /\ 1 \in 1..Len(calls)
  BY DEF QueueInv
<1>2. CASE Head(calls) = <<"start", k>>
  <2>1. calls[1][1] = "start" /\ calls[1][2] = k
    BY <1>1, <1>2
  <2>2. calls[1] # <<"await", k>>
    BY <2>1
  <2> QED BY <1>1, <2>1, <2>2 DEF QueueInv
<1>3. CASE Head(calls) = <<"await", k>>
  <2>1. calls[1][1] = "await" /\ calls[1][2] = k
    BY <1>1, <1>3
  <2>2. calls[1] # <<"start", k>>
    BY <2>1
  <2> QED BY <1>1, <2>1, <2>2 DEF QueueInv
<1> QED BY <1>2, <1>3

\* Attempts that neither the taken call nor the waiting code is about go on as they are,
\* and so do the calls they have made.
LEMMA TakeKeepsQueue ==
  ASSUME QueueInv, calls # <<>>, calls' = Tail(calls),
         attempt' = [k \in Attempts |-> attempt'[k]],
         \A k \in Attempts : (k # waiter /\ Head(calls) \notin {<<"start", k>>, <<"await", k>>})
                               => attempt'[k] = attempt[k],
         waiter' \in {0, waiter} \/
           (Head(calls) = <<"await", waiter'>> /\ waiter' \in Attempts
            /\ attempt'[waiter'].step = "waiting"),
         waiter' = waiter /\ waiter # 0 => attempt'[waiter].step = "waiting"
  PROVE  QueueInv'
<1>1. /\ calls' \in Seq(StudioCall) /\ Len(calls) \in Nat /\ Len(calls') = Len(calls) - 1
      /\ \A i \in 1..Len(calls') : calls'[i] = calls[i + 1] /\ i + 1 \in 1..Len(calls)
      /\ Head(calls) = calls[1] /\ Head(calls) \in StudioCall /\ 1 \in 1..Len(calls)
  BY TailOfCalls
<1>2. ASSUME NEW i \in 1..Len(calls')
      PROVE  /\ calls'[i][1] = "start" => attempt'[calls'[i][2]].step = "starting"
             /\ calls'[i][1] = "await" => attempt'[calls'[i][2]].step = "waiting"
                                          /\ waiter' # calls'[i][2]
  <2>1. PICK c \in StudioCall : c = calls'[i] /\ c = calls[i + 1]
    BY <1>1 DEF QueueInv
  <2>2. c # Stop => Head(calls) # c
    BY <1>1, <1>2, <2>1 DEF QueueInv
  <2>3. c = Stop => c[1] = "stop"
    BY DEF Stop
  <2>4. ASSUME NEW k \in Attempts, c = <<"start", k>>
        PROVE  attempt'[k].step = "starting"
    <3>1. attempt[k].step = "starting"
      BY <1>1, <2>1, <2>4 DEF QueueInv
    <3>2. Head(calls) # <<"start", k>>
      BY <2>2, <2>4 DEF Stop
    <3>3. Head(calls) # <<"await", k>>
      BY <3>1, HeadIsOpen
    <3>4. k # waiter
      BY <3>1 DEF QueueInv, Attempts
    <3> QED BY <3>1, <3>2, <3>3, <3>4
  <2>5. ASSUME NEW k \in Attempts, c = <<"await", k>>
        PROVE  attempt'[k].step = "waiting" /\ waiter' # k
    <3>1. attempt[k].step = "waiting" /\ waiter # k
      BY <1>1, <2>1, <2>5 DEF QueueInv
    <3>2. Head(calls) # <<"await", k>>
      BY <2>2, <2>5 DEF Stop
    <3>3. Head(calls) # <<"start", k>>
      BY <3>1, HeadIsOpen
    <3>4. attempt'[k] = attempt[k]
      BY <3>1, <3>2, <3>3
    <3>5. waiter' # k
      BY <3>1, <3>2 DEF Attempts
    <3> QED BY <3>1, <3>4, <3>5
  <2>6. c = Stop \/ \E k \in Attempts : c = <<"start", k>> \/ c = <<"await", k>>
    BY DEF StudioCall
  <2> QED BY <2>1, <2>3, <2>4, <2>5, <2>6
<1>3. ASSUME NEW i \in 1..Len(calls'), NEW j \in 1..Len(calls'),
             calls'[i] = calls'[j], calls'[i] # Stop
      PROVE  i = j
  BY <1>1, <1>3 DEF QueueInv
<1>4. waiter' # 0 => waiter' \in Attempts /\ attempt'[waiter'].step = "waiting"
  BY DEF QueueInv
<1>5. \A i, j \in 1..Len(calls') : calls'[i] = calls'[j] /\ calls'[i] # Stop => i = j
  BY <1>3
<1>6. \A i \in 1..Len(calls') :
        /\ calls'[i][1] = "start" => attempt'[calls'[i][2]].step = "starting"
        /\ calls'[i][1] = "await" => attempt'[calls'[i][2]].step = "waiting"
                                     /\ waiter' # calls'[i][2]
  BY <1>2
<1>7. attempt' = [k \in Attempts |-> attempt'[k]]
  OBVIOUS
<1> QED BY ONLY <1>1, <1>4, <1>5, <1>6, <1>7 DEF QueueInv

\* The main process takes the first call: what was asked before the newest listener was
\* called for is behind it, and whoever waited for a listener that closes hears of it.
LEMMA TakeCallKeepsLink ==
  ASSUME LinkInv, TakeCall
  PROVE  LinkInv'
<1>1. /\ QueueInv /\ calls # <<>> /\ calls' = Tail(calls)
      /\ phase' = phase /\ cancelled' = cancelled
  BY DEF LinkInv, TakeCall
<1>2. /\ calls' \in Seq(StudioCall) /\ Len(calls) \in Nat /\ Len(calls') = Len(calls) - 1
      /\ \A i \in 1..Len(calls') : calls'[i] = calls[i + 1] /\ i + 1 \in 1..Len(calls)
      /\ Head(calls) = calls[1] /\ Head(calls) \in StudioCall /\ 1 \in 1..Len(calls)
  BY <1>1, TailOfCalls
<1>3. ASSUME NEW i \in 0..Len(calls), NoStopAfter(i)
      PROVE  \A j \in 0..Len(calls') : j + 1 >= i => NoStopAfter(j)'
  BY <1>2, <1>3 DEF NoStopAfter
<1>4. waiter # 0 => waiter \in Attempts /\ attempt[waiter].step = "waiting"
  BY <1>1 DEF QueueInv
\* What is on its way stays on its way, once it is known who else is, and who listens.
<1>5. ASSUME NEW m \in Attempts, OnItsWay(m),
             attempt'[m].step \in {attempt[m].step, "failed", "code", "binding"},
             Head(calls) = <<"start", m>> => attempt'[m].step = "binding",
             attempt[m].step \in {"verifier", "starting"} =>
               attempt'[m].step = attempt[m].step \/ Head(calls) = <<"start", m>>,
             (attempt[m].step \notin {"verifier", "starting"} /\ Head(calls) # Stop)
               \/ Head(calls) = <<"start", m>> => Listens'
      PROVE  OnItsWay(m)'
  <2>1. CASE attempt[m].step = "verifier"
    <3>1. Head(calls) # <<"start", m>>
      BY <1>1, <2>1, HeadIsOpen
    <3> QED BY <1>5, <2>1, <3>1 DEF OnItsWay
  <2>2. CASE attempt[m].step = "starting"
    <3>1. PICK i \in 1..Len(calls) : calls[i] = <<"start", m>> /\ NoStopAfter(i)
      BY <1>5, <2>2 DEF OnItsWay
    <3>2. CASE i = 1
      <4>1. Head(calls) = <<"start", m>>
        BY <1>2, <3>1, <3>2
      <4>2. NoStopAfter(0)'
        BY <1>2, <1>3, <3>1, <3>2
      <4>3. attempt'[m].step = "binding" /\ Listens'
        BY <1>5, <4>1
      <4> QED BY <4>2, <4>3 DEF OnItsWay
    <3>3. CASE i # 1
      <4>1. Head(calls) # <<"start", m>>
        BY SMTT(30), <1>1, <1>2, <3>1, <3>3 DEF QueueInv, Stop
      <4>2. i - 1 \in 1..Len(calls') /\ calls'[i - 1] = <<"start", m>>
        BY <1>2, <3>1, <3>3
      <4>3. NoStopAfter(i - 1)'
        BY <1>2, <1>3, <3>1, <4>2
      <4>4. attempt'[m].step = "starting"
        BY <1>5, <2>2, <4>1
      <4> QED BY <4>2, <4>3, <4>4 DEF OnItsWay
    <3> QED BY <3>2, <3>3
  <2>3. CASE attempt[m].step \notin {"verifier", "starting"}
    <3>1. NoStopAfter(0) /\ attempt[m].step \notin {"idle", "done"}
      BY <1>5, <2>3 DEF OnItsWay
    <3>2. Head(calls) # Stop
      BY <1>2, <3>1 DEF NoStopAfter
    <3>3. NoStopAfter(0)'
      BY <1>2, <1>3, <3>1
    <3> QED BY <1>5, <2>3, <3>1, <3>2, <3>3 DEF OnItsWay
  <2> QED BY <2>1, <2>2, <2>3
\* startLoopback: a new listener is about to be opened.
<1>6. ASSUME NEW n \in Attempts, Head(calls) = <<"start", n>>,
             StopLoopback([attempt EXCEPT ![n] = [step |-> "binding"]])
      PROVE  LinkInv'
  <2>1. attempt[n].step = "starting" /\ n # waiter
    BY <1>1, <1>4, <1>6, HeadIsOpen DEF Attempts
  <2>2. /\ waiter' = 0
        /\ attempt' = [k \in Attempts |-> IF k = waiter THEN [step |-> "failed"]
                         ELSE IF k = n THEN [step |-> "binding"] ELSE attempt[k]]
    BY <1>1, <1>6 DEF StopLoopback, QueueInv
  <2>3. ASSUME NEW k \in Attempts, k # waiter, Head(calls) \notin {<<"start", k>>, <<"await", k>>}
        PROVE  attempt'[k] = attempt[k]
    BY <1>6, <2>2, <2>3
  <2>4. attempt' = [k \in Attempts |-> attempt'[k]]
    BY <2>2
  <2>5. QueueInv'
    BY <1>1, <1>4, <2>2, <2>3, <2>4, TakeKeepsQueue DEF Attempts
  <2>6. Listens' /\ attempt'[n].step = "binding"
    BY <2>1, <2>2 DEF Listens
  <2>7. ASSUME NEW m \in Attempts, OnItsWay(m)
        PROVE  OnItsWay(m)'
    <3>1. attempt'[m].step \in {attempt[m].step, "failed", "code", "binding"}
      BY <2>2
    <3>2. Head(calls) = <<"start", m>> => m = n
      BY <1>6
    <3>3. attempt[m].step \in {"verifier", "starting"} =>
            attempt'[m].step = attempt[m].step \/ Head(calls) = <<"start", m>>
      BY <1>4, <1>6, <2>2 DEF Attempts
    <3> QED BY <1>5, <2>6, <2>7, <3>1, <3>2, <3>3
  <2> QED BY <1>1, <2>5, <2>7 DEF LinkInv
\* stopLoopback: only what has not called for its listener yet goes on.
<1>7. ASSUME Head(calls) = Stop, StopLoopback(attempt)
      PROVE  LinkInv'
  <2>2. /\ waiter' = 0
        /\ attempt' = [k \in Attempts |-> IF k = waiter THEN [step |-> "failed"] ELSE attempt[k]]
    BY <1>1, <1>7 DEF StopLoopback
  <2>3. ASSUME NEW k \in Attempts, k # waiter
        PROVE  attempt'[k] = attempt[k]
    BY <2>2, <2>3
  <2>4. attempt' = [k \in Attempts |-> attempt'[k]]
    BY <2>2
  <2>5. QueueInv'
    BY <1>1, <1>4, <2>2, <2>3, <2>4, TakeKeepsQueue DEF Attempts
  <2>7. ASSUME NEW m \in Attempts, OnItsWay(m)
        PROVE  OnItsWay(m)'
    <3>1. attempt'[m].step \in {attempt[m].step, "failed", "code", "binding"}
      BY <2>2
    <3>2. Head(calls) # <<"start", m>>
      BY <1>7 DEF Stop
    <3>3. attempt[m].step \in {"verifier", "starting"} => attempt'[m].step = attempt[m].step
      BY <1>4, <2>2 DEF Attempts
    <3> QED BY <1>5, <1>7, <2>7, <3>1, <3>2, <3>3
  <2> QED BY <1>1, <2>5, <2>7 DEF LinkInv
\* awaitAuthCode: the code is there, or a wait takes the place of another.
<1>8. ASSUME NEW n \in Attempts, Head(calls) = <<"await", n>>, listener' = listener,
             \/ /\ waiter' = waiter
                /\ \E v : Becomes(n, [step |-> "code", code |-> v])
             \/ attempt' = Reject(waiter) /\ waiter' = n
      PROVE  LinkInv'
  <2>1. attempt[n].step = "waiting" /\ n # waiter /\ n # 0
    BY <1>1, <1>8, HeadIsOpen DEF Attempts
  <2>2. PICK v : \/ /\ waiter' = waiter
                    /\ attempt' = [k \in Attempts |-> IF k = n THEN [step |-> "code", code |-> v]
                                                      ELSE attempt[k]]
                 \/ /\ waiter' = n
                    /\ attempt' = [k \in Attempts |-> IF k = waiter THEN [step |-> "failed"]
                                                      ELSE attempt[k]]
    <3>1. CASE attempt' = Reject(waiter) /\ waiter' = n
      BY <3>1 DEF Reject
    <3>2. ASSUME NEW v, waiter' = waiter, Becomes(n, [step |-> "code", code |-> v])
          PROVE  attempt' = [k \in Attempts |-> IF k = n THEN [step |-> "code", code |-> v]
                                                ELSE attempt[k]]
      BY <1>1, <3>2 DEF Becomes, QueueInv
    <3> QED BY <1>8, <3>1, <3>2
  <2>3. ASSUME NEW k \in Attempts, k # waiter, Head(calls) \notin {<<"start", k>>, <<"await", k>>}
        PROVE  attempt'[k] = attempt[k]
    BY <1>8, <2>2, <2>3
  <2>4. attempt' = [k \in Attempts |-> attempt'[k]]
    BY <2>2
  <2>5. waiter' \in {0, waiter} \/ (Head(calls) = <<"await", waiter'>> /\ waiter' \in Attempts
                                    /\ attempt'[waiter'].step = "waiting")
    BY <1>8, <2>1, <2>2
  <2>6. waiter' = waiter /\ waiter # 0 => attempt'[waiter].step = "waiting"
    BY <1>4, <2>1, <2>2
  <2>7. QueueInv'
    BY <1>1, <2>3, <2>4, <2>5, <2>6, TakeKeepsQueue
  <2>9. ASSUME NEW k \in Attempts, attempt[k].step # "waiting"
        PROVE  attempt'[k] = attempt[k]
    <3>1. 0 \notin Attempts
      BY DEF Attempts
    <3>2. k # waiter /\ k # n
      BY <1>4, <2>1, <2>9, <3>1
    <3> QED BY <2>2, <3>2
  <2>8. ASSUME NEW m \in Attempts, OnItsWay(m)
        PROVE  OnItsWay(m)'
    <3>1. attempt'[m].step \in {attempt[m].step, "failed", "code", "binding"}
      BY <2>2
    <3>2. Head(calls) # <<"start", m>> /\ Head(calls) # Stop
      BY <1>8 DEF Stop
    <3>3. attempt[m].step \in {"verifier", "starting"} => attempt'[m].step = attempt[m].step
      BY <2>9
    <3>4. Listens => Listens'
      BY <1>8, <2>9 DEF Listens
    <3>5. attempt[m].step \notin {"verifier", "starting"} => Listens'
      BY <2>8, <3>4 DEF OnItsWay
    <3> QED BY <1>5, <2>8, <3>1, <3>2, <3>3, <3>5
  <2> QED BY <1>1, <2>7, <2>8 DEF LinkInv
<1>9. PICK c \in StudioCall : c = Head(calls)
  BY <1>2
<1>10. CASE c = Stop
  BY <1>7, <1>9, <1>10 DEF TakeCall, Stop
<1>11. ASSUME NEW n \in Attempts, c = <<"start", n>>
       PROVE  LinkInv'
  BY <1>6, <1>9, <1>11 DEF TakeCall
<1>12. ASSUME NEW n \in Attempts, c = <<"await", n>>
       PROVE  LinkInv'
  <2>1. Head(calls)[1] = "await" /\ Head(calls)[2] = n
    BY <1>9, <1>12
  <2>2. /\ listener' = listener
        /\ \/ Becomes(n, [step |-> "code", code |-> pending]) /\ waiter' = waiter
           \/ attempt' = Reject(waiter) /\ waiter' = n
    BY <2>1 DEF TakeCall
  <2> QED BY <1>8, <1>9, <1>12, <2>2
<1>13. c = Stop \/ \E n \in Attempts : c = <<"start", n>> \/ c = <<"await", n>>
  BY DEF StudioCall
<1> QED BY <1>10, <1>11, <1>12, <1>13

LEMMA LinkInvStep == LinkInv /\ [SignInNext]_signInVars => LinkInv'
<1> SUFFICES ASSUME LinkInv, [SignInNext]_signInVars
             PROVE  LinkInv'
  OBVIOUS
<1>1. CASE UNCHANGED signInVars
  BY <1>1 DEF LinkInv, QueueInv, OnItsWay, NoStopAfter, Listens, signInVars
<1>2. CASE SignInNext
  BY <1>2, UserKeepsLink, TakeCallKeepsLink, RendererKeepsLink, ListeningKeepsLink,
     ApproveKeepsLink DEF SignInNext
<1> QED BY <1>1, <1>2

\* However often the user signs in and cancels, and however late the main process takes
\* the calls: what shows "Waiting for you to approve" is on its way or has a listener
\* open (app-context.tsx signIn, main.ts stopLoopback).
THEOREM LinkingAlwaysCanEnd == SignInSpec => []LinkingCanEnd
<1>1. SignInSpec => []LinkInv
  BY LinkInvInit, LinkInvStep, PTL DEF SignInSpec
<1>2. ASSUME LinkInv, phase = "linking"
      PROVE  \E n \in Attempts :
               \/ attempt[n].step \notin {"idle", "done", "waiting"}
               \/ attempt[n].step = "waiting" /\ (listener # 0 \/ calls # <<>>)
  <2>1. PICK m \in Attempts : OnItsWay(m)
    BY <1>2 DEF LinkInv
  <2> QED BY <2>1 DEF OnItsWay, Listens
<1>3. LinkInv => LinkingCanEnd
  BY <1>2 DEF LinkingCanEnd
<1> QED BY <1>1, <1>3, PTL

-----------------------------------------------------------------------------
(* The e-mail outbox.                                                      *)

Holder(w, k) ==
  worker[w].step # "idle" /\ worker[w].key = k /\ worker[w].token = alert[k].attempts

\* A row that was drawn often has cost as many crashes and pauses, but for the attempt
\* that somebody still works on.
InHand(k) == alert[k].wait > 0 /\ \E w \in Workers : Holder(w, k) /\ ~worker[w].paused

IsRow(r) ==
  r = [status |-> r.status, attempts |-> r.attempts, age |-> r.age, wait |-> r.wait,
       lease |-> r.lease, created |-> r.created]

RowOK(k) ==
  alert[k] # NoAlert =>
    /\ IsRow(alert[k])
    /\ alert[k].status \in {"PENDING", "SENDING", "ACCEPTED", "FAILED"}
    /\ alert[k].attempts \in Nat /\ alert[k].attempts <= MaxAttempts + faults + 1
    /\ alert[k].age \in 0..RetryWindow /\ alert[k].wait \in 0..1
    /\ alert[k].lease \in {0, alert[k].attempts}
    /\ alert[k].status = "PENDING" => alert[k].attempts < MaxAttempts
    /\ alert[k].status \in {"ACCEPTED", "FAILED"} => alert[k].lease = 0
    /\ alert[k].status = "SENDING" => alert[k].lease = alert[k].attempts
    /\ alert[k].status = "SENDING" /\ ~InHand(k) => alert[k].attempts <= MaxAttempts + faults

\* What was mailed was mailed in an attempt, and before the row's age says.
MailOK(k) ==
  /\ mailed[k] = [copies |-> mailed[k].copies, age |-> mailed[k].age]
  /\ mailed[k].copies \in 0..1 /\ mailed[k].age \in Nat
  /\ mailed[k].copies = 1 =>
       /\ alert[k] # NoAlert /\ alert[k].attempts > 0
       /\ alert[k].age < RetryWindow => mailed[k].age <= alert[k].age

\* Whoever may send was not in time to send twice: its attempt began within the window.
WorkerOK(w) ==
  /\ worker[w].ticks \in 0..Stall /\ worker[w].paused \in BOOLEAN
  /\ worker[w].step # "idle" =>
       /\ worker[w] = [step |-> worker[w].step, key |-> worker[w].key,
                       token |-> worker[w].token, expired |-> worker[w].expired,
                       paused |-> worker[w].paused, ticks |-> worker[w].ticks]
       /\ worker[w].step \in {"leased", "sent", "failed"}
       /\ worker[w].key \in AlertKeys /\ alert[worker[w].key] # NoAlert
       /\ worker[w].token \in Nat \ {0} /\ worker[w].token <= alert[worker[w].key].attempts
       /\ mailed[worker[w].key].copies = 1 /\ worker[w].expired = FALSE
            => mailed[worker[w].key].age <= RetryWindow - 1 + worker[w].ticks
       /\ worker[w].expired \in BOOLEAN
       /\ worker[w].step = "sent" =>
            worker[w].key[2] # ToAdmins /\ mailed[worker[w].key].copies = 1
  /\ worker[w].step = "idle" => worker[w].paused = FALSE

AlertTables ==
  /\ alert = [k \in AlertKeys |-> alert[k]]
  /\ mailed = [k \in AlertKeys |-> mailed[k]]
  /\ worker = [w \in Workers |-> worker[w]]
  /\ faults \in 0..MaxFaults

AlertsInv ==
  /\ AlertTables
  /\ \A k \in AlertKeys : RowOK(k) /\ MailOK(k)
  /\ \A w \in Workers : WorkerOK(w)
  /\ AcceptedMeansTold

LEMMA AlertsInvInit == AlertsInit => AlertsInv
<1> SUFFICES ASSUME AlertsInit PROVE AlertsInv
  OBVIOUS
<1>1. AlertTables /\ \A k \in AlertKeys : RowOK(k) /\ MailOK(k)
  BY AlertConstants DEF AlertsInit, AlertTables, RowOK, MailOK, NoAlert, IsRow
<1>2. ASSUME NEW w \in Workers PROVE WorkerOK(w)
  <2>1. worker[w] = [step |-> "idle", paused |-> FALSE, ticks |-> 0]
    BY DEF AlertsInit, Free
  <2> QED BY <2>1, AlertConstants DEF WorkerOK
<1>3. AcceptedMeansTold
  BY DEF AlertsInit, AcceptedMeansTold, Queued
<1> QED BY <1>1, <1>2, <1>3 DEF AlertsInv

\* The invariant says what the properties ask for.
LEMMA AlertsInvMeans == AlertsInv => OneMailPerAlert /\ AcceptedMeansTold /\ AlertsTypeOK
<1> SUFFICES ASSUME AlertsInv PROVE OneMailPerAlert /\ AcceptedMeansTold /\ AlertsTypeOK
  OBVIOUS
<1>1. OneMailPerAlert
  <2>1. ASSUME NEW k \in AlertKeys PROVE mailed[k].copies <= 1
    <3>1. mailed[k].copies \in 0..1
      BY DEF AlertsInv, MailOK
    <3> QED BY <3>1
  <2> QED BY <2>1 DEF OneMailPerAlert
<1>2. ASSUME NEW k \in AlertKeys, Queued(k)
      PROVE  /\ alert[k].status \in {"PENDING", "SENDING", "ACCEPTED", "FAILED"}
             /\ alert[k].attempts \in 0..(MaxAttempts + MaxFaults + 1)
             /\ alert[k].age \in 0..RetryWindow /\ alert[k].wait \in 0..1
             /\ alert[k].lease \in 0..alert[k].attempts
  BY <1>2, AlertConstants DEF AlertsInv, AlertTables, RowOK, Queued
<1> QED BY <1>1, <1>2 DEF AlertsInv, AlertTables, WorkerOK, AlertsTypeOK

\* A row that is not touched keeps what is known of it.
LEMMA RowKept ==
  ASSUME NEW k \in AlertKeys, RowOK(k), alert'[k] = alert[k],
         faults \in Nat, faults' \in Nat, faults <= faults',
         \/ InHand(k) => InHand(k)'
         \/ alert[k].status # "SENDING"
         \/ faults' = faults + 1
  PROVE  RowOK(k)'
<1>0. MaxAttempts \in Nat
  BY AlertConstants
<1>1. CASE alert[k] = NoAlert
  BY <1>1 DEF RowOK
<1>2. CASE alert[k] # NoAlert
  <2>1. alert[k].attempts \in Nat
    BY <1>2 DEF RowOK
  <2>2. alert'[k].status = "SENDING" /\ ~InHand(k)' => alert'[k].attempts <= MaxAttempts + faults'
    BY <1>0, <1>2, <2>1 DEF RowOK
  <2> QED BY <1>0, <1>2, <2>1, <2>2 DEF RowOK
<1> QED BY <1>1, <1>2

LEMMA MailKept ==
  ASSUME NEW k \in AlertKeys, MailOK(k), mailed'[k] = mailed[k],
         mailed[k].copies = 1 =>
           /\ alert'[k] # NoAlert /\ alert'[k].attempts \in Nat
           /\ alert'[k].attempts >= alert[k].attempts /\ alert'[k].age = alert[k].age,
         alert[k] # NoAlert => alert[k].attempts \in Nat
  PROVE  MailOK(k)'
BY DEF MailOK

\* What other workers do never takes a row back, nor what was mailed.
LEMMA WorkerKept ==
  ASSUME NEW w \in Workers, WorkerOK(w), worker'[w] = worker[w],
         \A k \in AlertKeys : alert[k] # NoAlert =>
            /\ alert'[k] # NoAlert /\ alert[k].attempts \in Nat /\ alert'[k].attempts \in Nat
            /\ alert'[k].attempts >= alert[k].attempts,
         \A k \in AlertKeys : \/ mailed'[k] = mailed[k]
                              \/ mailed'[k].copies = 1 /\ mailed'[k].age = 0
  PROVE  WorkerOK(w)'
<1>0. RetryWindow \in Nat \ {0} /\ Stall \in Nat
  BY AlertConstants
<1>1. CASE worker[w].step = "idle"
  BY <1>1 DEF WorkerOK
<1>2. CASE worker[w].step # "idle"
  <2>1. PICK k \in AlertKeys : k = worker[w].key
    BY <1>2 DEF WorkerOK
  <2>2. /\ alert'[k] # NoAlert /\ worker[w].token <= alert'[k].attempts
    BY <1>2, <2>1 DEF WorkerOK
  <2>3. mailed'[k].copies = 1 /\ worker[w].expired = FALSE
          => mailed'[k].age <= RetryWindow - 1 + worker[w].ticks
    BY <1>0, <1>2, <2>1 DEF WorkerOK
  <2>4. worker[w].step = "sent" => mailed'[k].copies = 1
    BY <1>2, <2>1 DEF WorkerOK
  <2> QED BY <1>2, <2>1, <2>2, <2>3, <2>4 DEF WorkerOK
<1> QED BY <1>1, <1>2

\* A worker that is done is free for the next row.
LEMMA FreedWorker ==
  ASSUME NEW w \in Workers, worker'[w] = Free
  PROVE  WorkerOK(w)'
<1>1. worker'[w] = [step |-> "idle", paused |-> FALSE, ticks |-> 0]
  BY DEF Free
<1> QED BY <1>1, AlertConstants DEF WorkerOK

LEMMA ToldKept ==
  ASSUME AcceptedMeansTold,
         \A k \in AlertKeys : alert[k] # NoAlert => alert'[k] # NoAlert,
         \A k \in AlertKeys : mailed[k].copies \in Nat /\ mailed'[k].copies \in Nat
                              /\ mailed'[k].copies >= mailed[k].copies,
         \A k \in AlertKeys : alert'[k] # NoAlert /\ alert'[k].status = "ACCEPTED" =>
            \/ alert[k] # NoAlert /\ alert[k].status = "ACCEPTED"
            \/ k[2] # ToAdmins /\ mailed'[k].copies > 0
            \/ k[2] = ToAdmins /\ \A a \in AdminInboxes : alert'[<<k[1], a>>] # NoAlert
  PROVE  AcceptedMeansTold'
<1>1. \A k \in AlertKeys, a \in AdminInboxes : <<k[1], a>> \in AlertKeys
  BY AlertConstants DEF AlertKeys
<1>2. ASSUME NEW k \in AlertKeys, alert'[k] # NoAlert, alert'[k].status = "ACCEPTED",
             alert[k] # NoAlert /\ alert[k].status = "ACCEPTED"
      PROVE  IF k[2] = ToAdmins THEN \A a \in AdminInboxes : alert'[<<k[1], a>>] # NoAlert
             ELSE mailed'[k].copies > 0
  <2>1. CASE k[2] = ToAdmins
    BY <1>1, <1>2, <2>1 DEF AcceptedMeansTold, Queued
  <2>2. CASE k[2] # ToAdmins
    BY <1>2, <2>2 DEF AcceptedMeansTold, Queued
  <2> QED BY <2>1, <2>2
<1>3. ASSUME NEW k \in AlertKeys, alert'[k] # NoAlert, alert'[k].status = "ACCEPTED"
      PROVE  IF k[2] = ToAdmins THEN \A a \in AdminInboxes : alert'[<<k[1], a>>] # NoAlert
             ELSE mailed'[k].copies > 0
  BY <1>2, <1>3
<1> QED BY <1>3 DEF AcceptedMeansTold, Queued

LEMMA NewRow ==
  ASSUME NEW k \in AlertKeys, NEW n, alert'[k] = NewAlert(n), faults' \in Nat
  PROVE  RowOK(k)' /\ alert'[k] # NoAlert /\ alert'[k].attempts = 0 /\ alert'[k].age = 0
         /\ alert'[k].status = "PENDING"
<1>1. alert'[k] = [status |-> "PENDING", attempts |-> 0, age |-> 0, wait |-> 0,
                   lease |-> 0, created |-> n]
  BY DEF NewAlert
<1> QED BY <1>1, AlertConstants DEF RowOK, NoAlert, IsRow

\* One row moves, others may be queued: the trigger, and what a worker writes.
LEMMA AlertMoves ==
  ASSUME AlertsInv, UNCHANGED mailed, faults' \in 0..MaxFaults, faults <= faults',
         alert' = [k \in AlertKeys |-> alert'[k]], worker' = [w \in Workers |-> worker'[w]],
         \A w \in Workers : worker'[w] = worker[w] \/ WorkerOK(w)',
         NEW j \in AlertKeys, RowOK(j)',
         alert[j] # NoAlert =>
           /\ alert'[j] # NoAlert /\ alert'[j].attempts \in Nat
           /\ alert'[j].attempts >= alert[j].attempts
           /\ alert'[j].age = alert[j].age \/ alert[j].attempts = 0,
         alert'[j] # NoAlert /\ alert'[j].status = "ACCEPTED" =>
            \/ alert[j] # NoAlert /\ alert[j].status = "ACCEPTED"
            \/ j[2] # ToAdmins /\ mailed[j].copies > 0
            \/ j[2] = ToAdmins /\ \A a \in AdminInboxes : alert'[<<j[1], a>>] # NoAlert,
         \A k \in AlertKeys : k # j =>
            \/ alert'[k] = alert[k]
            \/ alert[k] = NoAlert /\ \E n : alert'[k] = NewAlert(n),
         \A k \in AlertKeys : k # j /\ alert[k].status = "SENDING" /\ InHand(k) =>
            InHand(k)' \/ faults' = faults + 1
  PROVE  AlertsInv'
<1>0. /\ faults \in Nat /\ faults' \in Nat
      /\ \A k \in AlertKeys : alert[k] # NoAlert => alert[k].attempts \in Nat
      /\ \A k \in AlertKeys : mailed[k].copies \in Nat
  BY AlertConstants DEF AlertsInv, AlertTables, RowOK, MailOK
<1>1. AlertTables'
  BY DEF AlertsInv, AlertTables
<1>2. ASSUME NEW k \in AlertKeys
      PROVE  /\ RowOK(k)' /\ MailOK(k)'
             /\ alert[k] # NoAlert => /\ alert'[k] # NoAlert /\ alert'[k].attempts \in Nat
                                      /\ alert'[k].attempts >= alert[k].attempts
             /\ k # j /\ alert'[k] # NoAlert /\ alert'[k].status = "ACCEPTED" =>
                  alert[k] # NoAlert /\ alert[k].status = "ACCEPTED"
  <2>1. RowOK(k) /\ MailOK(k)
    BY DEF AlertsInv
  <2>2. CASE k = j
    <3>1. mailed[k].copies = 1 => alert[k] # NoAlert /\ alert[k].attempts > 0
      BY <2>1 DEF MailOK
    <3>2. MailOK(k)'
      BY <1>0, <2>1, <2>2, <3>1, MailKept
    <3> QED BY <1>0, <2>2, <3>2
  <2>3. CASE k # j /\ alert'[k] = alert[k]
    <3>1. RowOK(k)'
      BY <1>0, <2>1, <2>3, RowKept
    <3>2. mailed[k].copies = 1 => alert[k] # NoAlert
      BY <2>1 DEF MailOK
    <3>3. MailOK(k)'
      BY <1>0, <2>1, <2>3, <3>2, MailKept
    <3> QED BY <1>0, <2>3, <3>1, <3>3
  <2>4. CASE k # j /\ alert[k] = NoAlert /\ \E n : alert'[k] = NewAlert(n)
    <3>1. PICK n : alert'[k] = NewAlert(n)
      BY <2>4
    <3>2. RowOK(k)' /\ alert'[k].status = "PENDING"
      BY <1>0, <3>1, NewRow
    <3>3. mailed[k].copies # 1
      BY <2>1, <2>4 DEF MailOK
    <3>4. MailOK(k)'
      BY <1>0, <2>1, <3>3, MailKept
    <3> QED BY <2>4, <3>2, <3>4
  <2> QED BY <2>2, <2>3, <2>4
<1>3. ASSUME NEW w \in Workers PROVE WorkerOK(w)'
  <2>1. CASE worker'[w] = worker[w]
    <3>1. WorkerOK(w)
      BY DEF AlertsInv
    <3> QED BY <1>0, <1>2, <2>1, <3>1, WorkerKept
  <2> QED BY <2>1
<1>4. AcceptedMeansTold'
  <2>1. \A k \in AlertKeys : alert'[k] # NoAlert /\ alert'[k].status = "ACCEPTED" =>
            \/ alert[k] # NoAlert /\ alert[k].status = "ACCEPTED"
            \/ k[2] # ToAdmins /\ mailed'[k].copies > 0
            \/ k[2] = ToAdmins /\ \A a \in AdminInboxes : alert'[<<k[1], a>>] # NoAlert
    BY <1>2
  <2>2. AcceptedMeansTold
    BY DEF AlertsInv
  <2> QED BY <1>0, <1>2, <2>1, <2>2, ToldKept
<1> QED BY <1>1, <1>2, <1>3, <1>4 DEF AlertsInv

\* A worker goes on to its next step, dies, is paused or comes back.
LEMMA WorkerMoves ==
  ASSUME AlertsInv, UNCHANGED <<alert, mailed>>, faults' \in 0..MaxFaults,
         NEW w \in Workers, NEW r, worker' = [worker EXCEPT ![w] = r], WorkerOK(w)',
         \/ faults' = faults + 1
         \/ faults' = faults /\ \A k \in AlertKeys :
              alert[k].status = "SENDING" /\ InHand(k) => InHand(k)'
  PROVE  AlertsInv'
<1>0. faults \in Nat /\ faults' \in Nat /\ faults <= faults'
  BY AlertConstants DEF AlertsInv, AlertTables
<1>1. /\ worker' = [v \in Workers |-> worker'[v]]
      /\ \A v \in Workers : worker'[v] = worker[v] \/ WorkerOK(v)'
      /\ alert' = [k \in AlertKeys |-> alert'[k]]
  BY DEF AlertsInv, AlertTables
<1>2. CASE AlertKeys = {}
  BY <1>0, <1>1, <1>2 DEF AlertsInv, AlertTables, WorkerOK, AcceptedMeansTold
<1>3. CASE AlertKeys # {}
  <2>1. PICK j \in AlertKeys : TRUE
    BY <1>3
  <2>2. RowOK(j)'
    <3>1. RowOK(j)
      BY DEF AlertsInv
    <3> QED BY <1>0, <3>1, RowKept
  <2>3. alert[j] # NoAlert => alert[j].attempts \in Nat
    BY DEF AlertsInv, RowOK
  <2>4. alert'[j] = alert[j] /\ \A k \in AlertKeys : alert'[k] = alert[k]
    OBVIOUS
  <2> QED BY <1>0, <1>1, <2>2, <2>3, <2>4, AlertMoves
<1> QED BY <1>2, <1>3

-----------------------------------------------------------------------------
(* The steps of the outbox.                                                *)

GoesOn(w, step, p) == [worker[w] EXCEPT !.step = step, !.paused = p]

\* A step within a row leaves its key, its token and what it may send.
LEMMA StepWithin ==
  ASSUME AlertsInv, NEW w \in Workers, Busy(w), NEW step \in {"leased", "sent", "failed"},
         NEW p \in BOOLEAN,
         worker' = [worker EXCEPT ![w] = GoesOn(w, step, p)],
         UNCHANGED <<alert, mailed>>,
         step = "sent" => worker[w].step = "sent"
  PROVE  /\ WorkerOK(w)'
         /\ (p = worker[w].paused \/ p = FALSE) =>
              \A k \in AlertKeys : InHand(k) => InHand(k)'
<1>1. WorkerOK(w) /\ worker[w].step # "idle"
  BY DEF AlertsInv, Busy
<1>2. worker' = [v \in Workers |-> IF v = w THEN GoesOn(w, step, p) ELSE worker[v]]
  BY DEF AlertsInv, AlertTables
<1>3. worker'[w] = [step |-> step, key |-> worker[w].key, token |-> worker[w].token,
                    expired |-> worker[w].expired, paused |-> p, ticks |-> worker[w].ticks]
  BY <1>1, <1>2 DEF GoesOn, WorkerOK
<1>4. WorkerOK(w)'
  BY <1>1, <1>3 DEF WorkerOK
<1>5. ASSUME p = worker[w].paused \/ p = FALSE, NEW k \in AlertKeys, InHand(k)
      PROVE  InHand(k)'
  <2>1. PICK v \in Workers : Holder(v, k) /\ ~worker[v].paused
    BY <1>5 DEF InHand
  <2>2. CASE v = w
    BY <1>3, <1>5, <2>1, <2>2 DEF InHand, Holder
  <2>3. CASE v # w
    BY <1>2, <1>5, <2>1, <2>3 DEF InHand, Holder
  <2> QED BY <2>2, <2>3
<1> QED BY <1>4, <1>5

LEMMA GotoIs ==
  ASSUME AlertsInv, NEW w \in Workers, Busy(w), NEW step, Goto(w, step)
  PROVE  worker' = [worker EXCEPT ![w] = GoesOn(w, step, worker[w].paused)]
<1>1. WorkerOK(w) /\ worker[w].step # "idle"
  BY DEF AlertsInv, Busy
<1>2. GoesOn(w, step, worker[w].paused) = [worker[w] EXCEPT !.step = step]
  BY <1>1 DEF WorkerOK, GoesOn
<1> QED BY <1>2 DEF Goto

\* A worker that moves on to "failed" does no harm.
LEMMA FailingKeepsInv ==
  ASSUME AlertsInv, NEW w \in Workers, Busy(w), Goto(w, "failed"),
         UNCHANGED <<alert, mailed, faults>>
  PROVE  AlertsInv'
<1>1. PICK r : r = GoesOn(w, "failed", worker[w].paused)
  OBVIOUS
<1>2. worker' = [worker EXCEPT ![w] = r]
  BY <1>1, GotoIs
<1>3. worker[w].paused \in BOOLEAN /\ faults \in 0..MaxFaults
  BY DEF AlertsInv, WorkerOK, AlertTables
<1>4. WorkerOK(w)' /\ \A k \in AlertKeys : InHand(k) => InHand(k)'
  BY <1>1, <1>2, <1>3, StepWithin
<1> QED BY <1>2, <1>3, <1>4, WorkerMoves

LEMMA GiveUpKeepsInv ==
  ASSUME AlertsInv, NEW w \in Workers, GiveUp(w)
  PROVE  AlertsInv'
BY FailingKeepsInv DEF GiveUp, Awake, Busy

LEMMA CrashKeepsInv ==
  ASSUME AlertsInv, NEW w \in Workers, Crash(w)
  PROVE  AlertsInv'
<1>1. /\ worker' = [worker EXCEPT ![w] = Free] /\ UNCHANGED <<alert, mailed>>
      /\ faults' = faults + 1 /\ faults' \in 0..MaxFaults
  BY AlertConstants DEF Crash, AlertsInv, AlertTables
<1>2. worker'[w] = Free
  BY <1>1 DEF AlertsInv, AlertTables
<1>3. WorkerOK(w)'
  BY <1>2, FreedWorker
<1>4. PICK r : r = Free
  OBVIOUS
<1> QED BY <1>1, <1>3, <1>4, WorkerMoves

LEMMA PauseKeepsInv ==
  ASSUME AlertsInv, NEW w \in Workers, Pause(w)
  PROVE  AlertsInv'
<1>1. /\ Busy(w) /\ UNCHANGED <<alert, mailed>>
      /\ worker' = [worker EXCEPT ![w] = [worker[w] EXCEPT !.paused = TRUE]]
      /\ faults' = faults + 1 /\ faults' \in 0..MaxFaults
  BY AlertConstants DEF Pause, AlertsInv, AlertTables
<1>2. PICK r : r = GoesOn(w, worker[w].step, TRUE)
  OBVIOUS
<1>3. WorkerOK(w)
  BY DEF AlertsInv
<1>4. worker' = [worker EXCEPT ![w] = r] /\ worker[w].step \in {"leased", "sent", "failed"}
  BY <1>1, <1>2, <1>3 DEF WorkerOK, GoesOn, Busy
<1>5. WorkerOK(w)'
  BY <1>1, <1>2, <1>4, StepWithin
<1> QED BY <1>1, <1>4, <1>5, WorkerMoves

LEMMA ResumeKeepsInv ==
  ASSUME AlertsInv, NEW w \in Workers, Resume(w)
  PROVE  AlertsInv'
<1>1. /\ worker[w].paused /\ UNCHANGED <<alert, mailed, faults>>
      /\ worker' = [worker EXCEPT ![w] = [worker[w] EXCEPT !.paused = FALSE]]
  BY DEF Resume
<1>2. PICK r : r = GoesOn(w, worker[w].step, FALSE)
  OBVIOUS
<1>3. WorkerOK(w) /\ faults \in 0..MaxFaults
  BY DEF AlertsInv, AlertTables
<1>4. Busy(w)
  BY <1>1, <1>3 DEF WorkerOK, Busy
<1>5. worker' = [worker EXCEPT ![w] = r] /\ worker[w].step \in {"leased", "sent", "failed"}
  BY <1>1, <1>2, <1>3, <1>4 DEF WorkerOK, GoesOn, Busy
<1>6. WorkerOK(w)' /\ \A k \in AlertKeys : InHand(k) => InHand(k)'
  BY <1>1, <1>2, <1>4, <1>5, StepWithin
<1> QED BY <1>1, <1>3, <1>5, <1>6, WorkerMoves

LEMMA TriggerKeepsInv ==
  ASSUME AlertsInv, NEW j \in AlertKeys, Trigger(j)
  PROVE  AlertsInv'
<1>1. /\ alert' = [k \in AlertKeys |-> IF k \in {j} /\ alert[k] = NoAlert
                                       THEN NewAlert(QueuedNow) ELSE alert[k]]
      /\ UNCHANGED <<worker, mailed, faults>>
  BY DEF Trigger, QueueMail, Queued
<1>2. /\ faults \in Nat /\ faults \in 0..MaxFaults /\ RowOK(j)
      /\ worker' = [w \in Workers |-> worker'[w]]
      /\ \A w \in Workers : worker'[w] = worker[w]
      /\ alert[j] # NoAlert => alert[j].attempts \in Nat
  BY <1>1, AlertConstants DEF AlertsInv, AlertTables, RowOK
<1>3. CASE alert[j] = NoAlert
  <2>1. PICK n : alert'[j] = NewAlert(n)
    BY <1>1, <1>3
  <2>2. RowOK(j)' /\ alert'[j].status = "PENDING"
    BY <1>1, <1>2, <2>1, NewRow
  <2>3. \A k \in AlertKeys : k # j => alert'[k] = alert[k]
    BY <1>1
  <2>4. \A k \in AlertKeys : k # j /\ InHand(k) => InHand(k)'
    BY <1>1, <2>3 DEF InHand, Holder
  <2>5. alert' = [k \in AlertKeys |-> alert'[k]]
    BY <1>1
  <2> QED BY <1>1, <1>2, <1>3, <2>2, <2>3, <2>4, <2>5, AlertMoves
<1>4. CASE alert[j] # NoAlert
  <2>1. \A k \in AlertKeys : alert'[k] = alert[k]
    BY <1>1, <1>4
  <2>2. alert' = alert
    BY <1>1, <2>1 DEF AlertsInv, AlertTables
  <2> QED BY <2>2 DEF Trigger
<1> QED BY <1>3, <1>4

\* What a worker writes when it is done with its row.
Marked(r, st, wt) == [r EXCEPT !.status = st, !.wait = wt, !.lease = 0]
Settled(r, st) == [r EXCEPT !.status = st, !.lease = 0]

PutRow(t, j, r) == [k \in AlertKeys |-> IF k = j THEN r ELSE t[k]]
PutSettled(t, j, st) == [t EXCEPT ![j].status = st, ![j].lease = 0]
PutMarked(t, j, st) == [t EXCEPT ![j].status = st, ![j].wait = 1, ![j].lease = 0]

LEMMA ColumnIs ==
  ASSUME NEW r, NEW st, NEW wt, NEW s, NEW n, NEW a, NEW d, NEW l, NEW c,
         r = [status |-> s, attempts |-> n, age |-> a, wait |-> d, lease |-> l, created |-> c]
  PROVE  /\ [r EXCEPT !.status = st]
              = [status |-> st, attempts |-> n, age |-> a, wait |-> d, lease |-> l, created |-> c]
         /\ [r EXCEPT !.wait = wt]
              = [status |-> s, attempts |-> n, age |-> a, wait |-> wt, lease |-> l, created |-> c]
         /\ [r EXCEPT !.lease = wt]
              = [status |-> s, attempts |-> n, age |-> a, wait |-> d, lease |-> wt, created |-> c]
OBVIOUS

LEMMA MarkedIs ==
  ASSUME NEW r, NEW st, NEW wt, NEW s, NEW n, NEW a, NEW d, NEW l, NEW c,
         r = [status |-> s, attempts |-> n, age |-> a, wait |-> d, lease |-> l, created |-> c]
  PROVE  /\ Marked(r, st, wt) = [status |-> st, attempts |-> n, age |-> a, wait |-> wt,
                                 lease |-> 0, created |-> c]
         /\ Settled(r, st) = Marked(r, st, d)
<1>1. PICK x : x = [r EXCEPT !.status = st]
  OBVIOUS
<1>2. x = [status |-> st, attempts |-> n, age |-> a, wait |-> d, lease |-> l, created |-> c]
  BY <1>1, ColumnIs
<1>3. PICK y : y = [x EXCEPT !.wait = wt]
  OBVIOUS
<1>4. y = [status |-> st, attempts |-> n, age |-> a, wait |-> wt, lease |-> l, created |-> c]
  BY <1>2, <1>3, ColumnIs
<1>5. [y EXCEPT !.lease = 0]
        = [status |-> st, attempts |-> n, age |-> a, wait |-> wt, lease |-> 0, created |-> c]
  BY <1>4, ColumnIs
<1>6. PICK z : z = [x EXCEPT !.wait = d]
  OBVIOUS
<1>7. z = x
  BY <1>2, <1>6
<1>8. Marked(r, st, wt) = [y EXCEPT !.lease = 0] /\ Marked(r, st, d) = [z EXCEPT !.lease = 0]
      /\ Settled(r, st) = [x EXCEPT !.lease = 0]
  BY <1>1, <1>3, <1>6, Zenon DEF Marked, Settled
<1> QED BY <1>5, <1>7, <1>8

\* Writing several columns of one row.
LEMMA ColumnsOf ==
  ASSUME NEW j \in AlertKeys, NEW st, NEW t, t = [k \in AlertKeys |-> t[k]], IsRow(t[j])
  PROVE  /\ PutSettled(t, j, st) = PutRow(t, j, Marked(t[j], st, t[j].wait))
         /\ PutMarked(t, j, st) = PutRow(t, j, Marked(t[j], st, 1))
<1>1. PICK s, n, a, d, l, c :
        /\ t[j] = [status |-> s, attempts |-> n, age |-> a, wait |-> d, lease |-> l,
                   created |-> c]
        /\ d = t[j].wait
  BY DEF IsRow
<1>2. Settled(t[j], st) = Marked(t[j], st, t[j].wait)
  BY <1>1, MarkedIs
<1>3. /\ PutSettled(t, j, st) = PutRow(t, j, Settled(t[j], st))
      /\ PutMarked(t, j, st) = PutRow(t, j, Marked(t[j], st, 1))
  <2>1. PICK f : t = [k \in AlertKeys |-> f[k]]
    OBVIOUS
  <2> QED BY <2>1 DEF PutSettled, PutMarked, PutRow, Settled, Marked
<1> QED BY <1>2, <1>3

\* It marks its row if it still holds the lease, changes nothing of it if not, and is free.
LEMMA DoneKeepsInv ==
  ASSUME AlertsInv, NEW w \in Workers, Busy(w), UNCHANGED <<mailed, faults>>,
         worker' = [worker EXCEPT ![w] = Free],
         alert' = [k \in AlertKeys |-> alert'[k]],
         NEW j \in AlertKeys, j = worker[w].key,
         NEW st \in {"ACCEPTED", "PENDING", "FAILED"}, NEW wt \in 0..1,
         \/ ~Holds(w) /\ alert'[j] = alert[j]
         \/ Holds(w) /\ alert'[j] = Marked(alert[j], st, wt),
         st = "PENDING" => worker[w].token < MaxAttempts,
         st = "ACCEPTED" =>
            \/ j[2] # ToAdmins /\ mailed[j].copies > 0
            \/ j[2] = ToAdmins /\ \A a \in AdminInboxes : alert'[<<j[1], a>>] # NoAlert,
         \A k \in AlertKeys : k # j =>
            \/ alert'[k] = alert[k]
            \/ alert[k] = NoAlert /\ \E n : alert'[k] = NewAlert(n)
  PROVE  AlertsInv'
<1>1. worker' = [v \in Workers |-> IF v = w THEN Free ELSE worker[v]]
  BY DEF AlertsInv, AlertTables
<1>2. /\ worker' = [v \in Workers |-> worker'[v]]
      /\ \A v \in Workers : worker'[v] = worker[v] \/ WorkerOK(v)'
  BY <1>1, FreedWorker
<1>3. WorkerOK(w) /\ worker[w].step # "idle" /\ RowOK(j) /\ alert[j] # NoAlert
  BY DEF AlertsInv, Busy, WorkerOK
<1>4. faults \in Nat /\ faults \in 0..MaxFaults /\ alert[j].attempts \in Nat
  BY <1>3, AlertConstants DEF AlertsInv, AlertTables, RowOK
<1>5. \A k \in AlertKeys : k # j /\ alert[k].status = "SENDING" /\ InHand(k) => InHand(k)'
  <2>1. ASSUME NEW k \in AlertKeys, k # j, alert[k].status = "SENDING", InHand(k)
        PROVE  InHand(k)'
    <3>1. PICK v \in Workers : Holder(v, k) /\ ~worker[v].paused
      BY <2>1 DEF InHand
    <3>2. v # w
      BY <2>1, <3>1 DEF Holder
    <3>3. alert[k] # NoAlert
      BY <2>1 DEF NoAlert
    <3>4. alert'[k] = alert[k] /\ worker'[v] = worker[v]
      BY <1>1, <2>1, <3>2, <3>3
    <3> QED BY <2>1, <3>1, <3>4 DEF InHand, Holder
  <2> QED BY <2>1
<1>6. CASE ~Holds(w) /\ alert'[j] = alert[j]
  <2>1. alert[j].status = "SENDING" => (InHand(j) => InHand(j)')
    <3>1. ASSUME alert[j].status = "SENDING", InHand(j) PROVE InHand(j)'
      <4>1. PICK v \in Workers : Holder(v, j) /\ ~worker[v].paused
        BY <3>1 DEF InHand
      <4>2. v # w
        BY <1>3, <1>6, <3>1, <4>1 DEF Holder, Holds, RowOK
      <4> QED BY <1>1, <1>6, <3>1, <4>1, <4>2 DEF InHand, Holder
    <3> QED BY <3>1
  <2>2. RowOK(j)'
    BY <1>3, <1>4, <1>6, <2>1, RowKept
  <2> QED BY <1>2, <1>3, <1>4, <1>5, <1>6, <2>2, AlertMoves
<1>7. CASE Holds(w) /\ alert'[j] = Marked(alert[j], st, wt)
  <2>1. alert'[j] = [status |-> st, attempts |-> alert[j].attempts, age |-> alert[j].age,
                     wait |-> wt, lease |-> 0, created |-> alert[j].created]
    BY <1>3, <1>7, MarkedIs DEF RowOK, IsRow
  <2>2. worker[w].token = alert[j].attempts
    BY <1>3, <1>7 DEF Holds, RowOK, WorkerOK
  <2>3. /\ alert'[j] # NoAlert /\ alert'[j].attempts = alert[j].attempts
        /\ alert'[j].age = alert[j].age /\ alert'[j].status = st
    BY <2>1 DEF NoAlert
  <2>4. RowOK(j)'
    <3>1. IsRow(alert'[j]) /\ alert'[j].wait = wt /\ alert'[j].lease = 0
      BY <2>1 DEF IsRow
    <3>2. /\ alert[j].attempts <= MaxAttempts + faults + 1
          /\ alert[j].age \in 0..RetryWindow
      BY <1>3 DEF RowOK
    <3> QED BY <1>4, <2>2, <2>3, <3>1, <3>2 DEF RowOK
  <2>5. alert'[j].attempts >= alert[j].attempts /\ alert'[j].attempts \in Nat
    BY <1>4, <2>3
  <2> QED BY <1>2, <1>4, <1>5, <2>3, <2>4, <2>5, AlertMoves
<1> QED BY <1>6, <1>7

LEMMA AcceptKeepsInv ==
  ASSUME AlertsInv, NEW w \in Workers, Accept(w)
  PROVE  AlertsInv'
<1>1. PICK j, st : j = worker[w].key /\ st = "ACCEPTED"
  OBVIOUS
<1>2. /\ worker[w].step = "sent" /\ Busy(w)
      /\ worker' = [worker EXCEPT ![w] = Free] /\ UNCHANGED <<mailed, faults>>
  BY DEF Accept, Awake, Busy
<1>3. WorkerOK(w)
  BY DEF AlertsInv
<1>4. j \in AlertKeys /\ RowOK(j) /\ alert[j] # NoAlert /\ j[2] # ToAdmins /\ mailed[j].copies > 0
  BY <1>1, <1>2, <1>3 DEF WorkerOK, AlertsInv
<1>5. alert' = IF Holds(w) THEN PutRow(alert, j, Marked(alert[j], st, alert[j].wait)) ELSE alert
  <2>1. PutSettled(alert, j, st) = PutRow(alert, j, Marked(alert[j], st, alert[j].wait))
    BY <1>4, ColumnsOf DEF AlertsInv, AlertTables, RowOK
  <2>2. alert' = IF Holds(w) THEN PutSettled(alert, j, st) ELSE alert
    BY <1>1, Zenon DEF Accept, PutSettled
  <2> QED BY <2>1, <2>2, Zenon
<1>6. /\ alert' = [k \in AlertKeys |-> alert'[k]]
      /\ \A k \in AlertKeys : k # j => alert'[k] = alert[k]
      /\ \/ ~Holds(w) /\ alert'[j] = alert[j]
         \/ Holds(w) /\ alert'[j] = Marked(alert[j], st, alert[j].wait)
  BY <1>4, <1>5 DEF AlertsInv, AlertTables, PutRow
<1>7. PICK wt \in 0..1 : wt = alert[j].wait
  BY <1>4 DEF RowOK
<1>10. \A k \in AlertKeys : k # j =>
         \/ alert'[k] = alert[k]
         \/ alert[k] = NoAlert /\ \E n : alert'[k] = NewAlert(n)
  BY <1>6
<1>11. /\ st \in {"ACCEPTED", "PENDING", "FAILED"}
       /\ st = "PENDING" => worker[w].token < MaxAttempts
       /\ st = "ACCEPTED" =>
            \/ j[2] # ToAdmins /\ mailed[j].copies > 0
            \/ j[2] = ToAdmins /\ \A a \in AdminInboxes : alert'[<<j[1], a>>] # NoAlert
       /\ \/ ~Holds(w) /\ alert'[j] = alert[j]
          \/ Holds(w) /\ alert'[j] = Marked(alert[j], st, wt)
  BY <1>1, <1>2, <1>4, <1>6, <1>7
<1> QED BY <1>1, <1>2, <1>4, <1>6, <1>10, <1>11, DoneKeepsInv

LEMMA PutBackKeepsInv ==
  ASSUME AlertsInv, NEW w \in Workers, PutBack(w)
  PROVE  AlertsInv'
<1>1. PICK j : j = worker[w].key
  OBVIOUS
<1>2. /\ worker[w].step = "failed" /\ Busy(w)
      /\ worker' = [worker EXCEPT ![w] = Free] /\ UNCHANGED <<mailed, faults>>
  BY DEF PutBack, Awake, Busy
<1>3. WorkerOK(w)
  BY DEF AlertsInv
<1>4. j \in AlertKeys /\ RowOK(j) /\ alert[j] # NoAlert
  BY <1>1, <1>2, <1>3 DEF WorkerOK, AlertsInv
<1>5. PICK st : st = IF Dead(w) THEN "FAILED" ELSE "PENDING"
  OBVIOUS
<1>6. st \in {"ACCEPTED", "PENDING", "FAILED"} /\ st # "ACCEPTED"
      /\ (st = "PENDING" => worker[w].token < MaxAttempts)
  BY <1>2, <1>3, <1>5, AlertConstants DEF Dead, WorkerOK
<1>7. alert' = IF Holds(w) THEN PutRow(alert, j, Marked(alert[j], st, 1)) ELSE alert
  <2>1. PutMarked(alert, j, st) = PutRow(alert, j, Marked(alert[j], st, 1))
    BY <1>4, ColumnsOf DEF AlertsInv, AlertTables, RowOK
  <2>2. alert' = IF Holds(w) THEN PutMarked(alert, j, st) ELSE alert
    BY <1>1, <1>5, Zenon DEF PutBack, Unsent, PutMarked
  <2> QED BY <2>1, <2>2, Zenon
<1>8. /\ alert' = [k \in AlertKeys |-> alert'[k]]
      /\ \A k \in AlertKeys : k # j => alert'[k] = alert[k]
      /\ \/ ~Holds(w) /\ alert'[j] = alert[j]
         \/ Holds(w) /\ alert'[j] = Marked(alert[j], st, 1)
  BY <1>4, <1>7 DEF AlertsInv, AlertTables, PutRow
<1>9. PICK wt \in 0..1 : wt = 1
  OBVIOUS
<1>10. \A k \in AlertKeys : k # j =>
         \/ alert'[k] = alert[k]
         \/ alert[k] = NoAlert /\ \E n : alert'[k] = NewAlert(n)
  BY <1>8
<1>11. /\ st \in {"ACCEPTED", "PENDING", "FAILED"}
       /\ st = "PENDING" => worker[w].token < MaxAttempts
       /\ st = "ACCEPTED" =>
            \/ j[2] # ToAdmins /\ mailed[j].copies > 0
            \/ j[2] = ToAdmins /\ \A a \in AdminInboxes : alert'[<<j[1], a>>] # NoAlert
       /\ \/ ~Holds(w) /\ alert'[j] = alert[j]
          \/ Holds(w) /\ alert'[j] = Marked(alert[j], st, wt)
  BY <1>1, <1>2, <1>4, <1>6, <1>8, <1>9
<1> QED BY ZenonT(30), <1>1, <1>2, <1>4, <1>8, <1>10, <1>11, DoneKeepsInv

LEMMA FanOutKeepsInv ==
  ASSUME AlertsInv, NEW w \in Workers, FanOut(w)
  PROVE  AlertsInv'
<1>1. PICK j, st : j = worker[w].key /\ st = "ACCEPTED"
  OBVIOUS
<1>2. /\ worker[w].step = "leased" /\ Busy(w) /\ UNCHANGED <<mailed, faults>>
      /\ j[2] = ToAdmins
  BY <1>1, Zenon DEF FanOut, Awake, Busy
<1>3. WorkerOK(w)
  BY DEF AlertsInv
<1>4. j \in AlertKeys /\ RowOK(j) /\ alert[j] # NoAlert
  BY <1>1, <1>2, <1>3 DEF WorkerOK, AlertsInv
<1>5. CASE ~configured
  BY <1>2, <1>5, FailingKeepsInv DEF FanOut
<1>6. CASE configured
  <2>1. PICK copies : /\ copies = QueueMail({<<j[1], a>> : a \in AdminInboxes})
                      /\ alert' = IF Holds(w) THEN PutSettled(copies, j, st) ELSE copies
                      /\ worker' = [worker EXCEPT ![w] = Free]
    BY <1>1, <1>6, Zenon DEF FanOut, PutSettled
  <2>2. /\ copies = [k \in AlertKeys |-> copies[k]]
        /\ \A k \in AlertKeys :
             \/ copies[k] = alert[k]
             \/ alert[k] = NoAlert /\ \E n : copies[k] = NewAlert(n)
        /\ copies[j] = alert[j]
    BY <1>4, <2>1 DEF QueueMail, Queued
  <2>3. \A a \in AdminInboxes : <<j[1], a>> \in AlertKeys /\ <<j[1], a>> # j
                                /\ copies[<<j[1], a>>] # NoAlert
    <3>1. ASSUME NEW a \in AdminInboxes
          PROVE  <<j[1], a>> \in AlertKeys /\ <<j[1], a>> # j
      BY <1>2, <1>4, AlertConstants DEF AlertKeys
    <3>2. ASSUME NEW a \in AdminInboxes
          PROVE  copies[<<j[1], a>>] # NoAlert
      <4>1. PICK k \in AlertKeys : k = <<j[1], a>>
        BY <3>1
      <4>2. (copies[k] = alert[k] /\ alert[k] # NoAlert) \/ copies[k] = NewAlert(QueuedNow)
        BY <2>1, <4>1 DEF QueueMail, Queued
      <4>3. NewAlert(QueuedNow) # NoAlert
        BY DEF NewAlert, NoAlert
      <4> QED BY <4>1, <4>2, <4>3
    <3> QED BY <3>1, <3>2
  <2>4. alert' = IF Holds(w) THEN PutRow(copies, j, Marked(alert[j], st, alert[j].wait))
                 ELSE copies
    <3>1. PutSettled(copies, j, st) = PutRow(copies, j, Marked(copies[j], st, copies[j].wait))
      BY <1>4, <2>2, ColumnsOf DEF RowOK
    <3> QED BY <2>1, <2>2, <3>1, Zenon
  <2>5. PICK wt \in 0..1 : wt = alert[j].wait
    BY <1>4 DEF RowOK
  <2>6. /\ alert' = [k \in AlertKeys |-> alert'[k]]
        /\ \A k \in AlertKeys : k # j => alert'[k] = copies[k]
        /\ \/ ~Holds(w) /\ alert'[j] = alert[j]
           \/ Holds(w) /\ alert'[j] = Marked(alert[j], st, wt)
    BY <1>4, <2>2, <2>4, <2>5 DEF PutRow
  <2>7. \A k \in AlertKeys : k # j =>
           \/ alert'[k] = alert[k]
           \/ alert[k] = NoAlert /\ \E n : alert'[k] = NewAlert(n)
    BY <2>2, <2>6
  <2>8. \A a \in AdminInboxes : alert'[<<j[1], a>>] # NoAlert
    BY <2>3, <2>6
  <2>9. /\ st \in {"ACCEPTED", "PENDING", "FAILED"}
        /\ st = "PENDING" => worker[w].token < MaxAttempts
    BY <1>1
  <2> QED BY <1>1, <1>2, <1>4, <2>1, <2>6, <2>7, <2>8, <2>9, DoneKeepsInv
<1> QED BY <1>5, <1>6

\* The provider has not seen the key, or it would know it still: the attempt began
\* within the retry window and the process was not away for longer than it may be.
LEMMA SendsOnce ==
  ASSUME AlertsInv, NEW w \in Workers, Busy(w), MaySend(w),
         mailed[worker[w].key].copies = 0 \/ mailed[worker[w].key].age >= DedupeWindow
  PROVE  mailed[worker[w].key].copies = 0
<1>1. WorkerOK(w) /\ worker[w].step # "idle"
  BY DEF AlertsInv, Busy
<1>2. PICK k \in AlertKeys : k = worker[w].key
  BY <1>1 DEF WorkerOK
<1>3. MailOK(k) /\ worker[w].expired = FALSE
  BY <1>1 DEF AlertsInv, MaySend, WorkerOK
<1>4. /\ mailed[k].copies \in 0..1 /\ mailed[k].age \in Nat
      /\ mailed[k].copies = 1 => mailed[k].age <= RetryWindow - 1 + worker[w].ticks
      /\ worker[w].ticks \in 0..Stall
  BY <1>1, <1>2, <1>3 DEF MailOK, WorkerOK
<1> QED BY <1>2, <1>4, AlertConstants

LEMMA SendKeepsInv ==
  ASSUME AlertsInv, NEW w \in Workers, Send(w)
  PROVE  AlertsInv'
<1>1. PICK j, step : /\ j = worker[w].key /\ step \in {"sent", "failed"} /\ Goto(w, step)
                     /\ step = "sent" => mailed' = Received(j)
  BY DEF Send
<1>2. /\ worker[w].step = "leased" /\ Busy(w) /\ MaySend(w) /\ UNCHANGED <<alert, faults>>
      /\ j[2] # ToAdmins
  BY <1>1 DEF Send, Awake, Busy
<1>3. WorkerOK(w)
  BY DEF AlertsInv
<1>4. j \in AlertKeys /\ RowOK(j) /\ alert[j] # NoAlert /\ MailOK(j) /\ alert[j].attempts > 0
  BY <1>1, <1>2, <1>3 DEF WorkerOK, AlertsInv, RowOK
<1>5. CASE UNCHANGED mailed /\ step = "failed"
  BY <1>1, <1>2, <1>5, FailingKeepsInv
<1>6. CASE mailed' = Received(j)
  <2>1. /\ mailed' = [k \in AlertKeys |-> mailed'[k]]
        /\ \A k \in AlertKeys : k # j => mailed'[k] = mailed[k]
    BY <1>4, <1>6 DEF Received, AlertsInv, AlertTables
  <2>2. \/ mailed'[j] = mailed[j] /\ mailed[j].copies = 1
        \/ mailed'[j] = [copies |-> 1, age |-> 0] /\ mailed[j].copies = 0
    <3>1. CASE mailed[j].copies = 0 \/ mailed[j].age >= DedupeWindow
      <4>1. mailed[j].copies = 0
        BY <1>1, <1>2, <3>1, SendsOnce
      <4>2. mailed'[j] = [copies |-> mailed[j].copies + 1, age |-> 0]
        <5>1. mailed' = [mailed EXCEPT ![j] = [copies |-> mailed[j].copies + 1, age |-> 0]]
          BY <1>6, <3>1 DEF Received
        <5> QED BY <1>4, <5>1 DEF AlertsInv, AlertTables
      <4> QED BY <4>1, <4>2
    <3>2. CASE ~(mailed[j].copies = 0 \/ mailed[j].age >= DedupeWindow)
      BY <1>4, <1>6, <3>2 DEF Received, MailOK
    <3> QED BY <3>1, <3>2
  <2>3. \A k \in AlertKeys : \/ mailed'[k] = mailed[k]
                             \/ mailed'[k].copies = 1 /\ mailed'[k].age = 0
    BY <2>1, <2>2
  <2>4. ASSUME NEW k \in AlertKeys PROVE RowOK(k)' /\ MailOK(k)'
    <3>1. RowOK(k) /\ MailOK(k)
      BY DEF AlertsInv
    <3>2. PICK p \in BOOLEAN : p = worker[w].paused
      BY <1>3 DEF WorkerOK
    <3>3. worker' = [v \in Workers |-> IF v = w THEN GoesOn(w, step, worker[w].paused)
                                       ELSE worker[v]]
      BY <1>1, <1>2, GotoIs DEF AlertsInv, AlertTables
    <3>4. /\ GoesOn(w, step, worker[w].paused).key = worker[w].key
          /\ GoesOn(w, step, worker[w].paused).token = worker[w].token
          /\ GoesOn(w, step, worker[w].paused).paused = worker[w].paused
          /\ GoesOn(w, step, worker[w].paused).step = step
      BY <1>2, <1>3 DEF GoesOn, WorkerOK, Busy
    <3>5. InHand(k) => InHand(k)'
      <4>1. \A v \in Workers : Holder(v, k) /\ ~worker[v].paused
              => worker'[v].step # "idle" /\ worker'[v].key = k
                 /\ worker'[v].token = alert'[k].attempts /\ ~worker'[v].paused
        BY <1>1, <1>2, <3>3, <3>4 DEF Holder
      <4> QED BY <1>2, <4>1 DEF InHand, Holder
    <3>6. faults \in Nat /\ faults' \in Nat
      BY <1>2, AlertConstants DEF AlertsInv, AlertTables
    <3>7. RowOK(k)'
      BY <1>2, <3>1, <3>5, <3>6, RowKept
    <3>8. MailOK(k)'
      <4>1. CASE k # j
        BY <1>2, <2>1, <3>1, <4>1 DEF MailOK
      <4>2. CASE k = j
        BY <1>2, <1>4, <2>2, <3>1, <4>2 DEF MailOK, RowOK
      <4> QED BY <4>1, <4>2
    <3> QED BY <3>7, <3>8
  <2>5. ASSUME NEW v \in Workers PROVE WorkerOK(v)'
    <3>1. WorkerOK(v)
      BY DEF AlertsInv
    <3>2. CASE v # w
      <4>1. worker'[v] = worker[v]
        BY <1>1, <3>2 DEF Goto, AlertsInv, AlertTables
      <4>2. \A k \in AlertKeys : alert[k] # NoAlert =>
              /\ alert'[k] # NoAlert /\ alert[k].attempts \in Nat
              /\ alert'[k].attempts \in Nat /\ alert'[k].attempts >= alert[k].attempts
        BY <1>2 DEF AlertsInv, RowOK
      <4> QED BY <2>3, <3>1, <4>1, <4>2, WorkerKept
    <3>3. CASE v = w
      <4>1. worker'[w] = [step |-> step, key |-> j, token |-> worker[w].token,
                          expired |-> worker[w].expired, paused |-> worker[w].paused,
                          ticks |-> worker[w].ticks]
        BY <1>1, <1>2, <1>3 DEF Goto, WorkerOK, AlertsInv, AlertTables, Busy
      <4>2. mailed'[j].copies = 1
        BY <2>2
      <4>3. mailed'[j].copies = 1 /\ worker[w].expired = FALSE
              => mailed'[j].age <= RetryWindow - 1 + worker[w].ticks
        BY <1>1, <1>2, <1>3, <2>2, AlertConstants DEF WorkerOK, Busy
      <4> QED BY <1>1, <1>2, <1>3, <1>4, <3>3, <4>1, <4>2, <4>3 DEF WorkerOK, Busy
    <3> QED BY <3>2, <3>3
  <2>6. AcceptedMeansTold'
    <3>1. ASSUME NEW k \in AlertKeys
          PROVE  mailed[k].copies \in Nat /\ mailed'[k].copies \in Nat
                 /\ mailed'[k].copies >= mailed[k].copies
      <4>1. MailOK(k)
        BY DEF AlertsInv
      <4>2. mailed[k].copies \in 0..1
        BY <4>1 DEF MailOK
      <4> QED BY <2>1, <2>2, <4>2
    <3> QED BY <1>2, <3>1, ToldKept DEF AlertsInv
  <2>7. AlertTables'
    BY <1>1, <1>2, <2>1 DEF Goto, AlertsInv, AlertTables
  <2> QED BY <2>4, <2>5, <2>6, <2>7 DEF AlertsInv
<1>7. (UNCHANGED mailed /\ step = "failed") \/ mailed' = Received(j)
  BY <1>1 DEF Send
<1> QED BY <1>5, <1>6, <1>7

\* The row as it is drawn for its next attempt.
Drawn(r) ==
  [r EXCEPT !.status = "SENDING", !.wait = 1, !.attempts = @ + 1, !.lease = r.attempts + 1,
            !.age = IF r.attempts = 0 THEN 0 ELSE @]
DrawnFor(w, k) ==
  [step |-> "leased", key |-> k, token |-> alert[k].attempts + 1,
   expired |-> alert[k].attempts > 0 /\ alert[k].age >= RetryWindow,
   paused |-> FALSE, ticks |-> 0]

LEMMA DrawnIs ==
  ASSUME NEW r, IsRow(r)
  PROVE  Drawn(r) = [status |-> "SENDING", attempts |-> r.attempts + 1,
                     age |-> IF r.attempts = 0 THEN 0 ELSE r.age, wait |-> 1,
                     lease |-> r.attempts + 1, created |-> r.created]
<1>1. PICK s, n, a, d, l, c :
        r = [status |-> s, attempts |-> n, age |-> a, wait |-> d, lease |-> l, created |-> c]
  BY DEF IsRow
<1>2. PICK x : x = [r EXCEPT !.status = "SENDING"]
  OBVIOUS
<1>3. x = [status |-> "SENDING", attempts |-> n, age |-> a, wait |-> d, lease |-> l, created |-> c]
  BY <1>1, <1>2
<1>4. PICK y : y = [x EXCEPT !.wait = 1]
  OBVIOUS
<1>5. y = [status |-> "SENDING", attempts |-> n, age |-> a, wait |-> 1, lease |-> l, created |-> c]
  BY <1>3, <1>4
<1>6. PICK z : z = [y EXCEPT !.attempts = y.attempts + 1]
  OBVIOUS
<1>7. z = [status |-> "SENDING", attempts |-> n + 1, age |-> a, wait |-> 1, lease |-> l,
           created |-> c]
  BY <1>5, <1>6
<1>8. PICK v : v = [z EXCEPT !.lease = r.attempts + 1]
  OBVIOUS
<1>9. v = [status |-> "SENDING", attempts |-> n + 1, age |-> a, wait |-> 1,
           lease |-> r.attempts + 1, created |-> c]
  BY <1>7, <1>8
<1>10. Drawn(r) = [v EXCEPT !.age = IF r.attempts = 0 THEN 0 ELSE v.age]
  BY <1>2, <1>4, <1>6, <1>8, Zenon DEF Drawn
<1>11. r.attempts = n /\ r.age = a /\ r.created = c /\ v.age = a
  BY <1>1, <1>9
<1> QED BY <1>9, <1>10, <1>11

LEMMA LeaseKeepsInv ==
  ASSUME AlertsInv, NEW w \in Workers, Lease(w)
  PROVE  AlertsInv'
<1>1. PICK k \in AlertKeys :
        /\ Queued(k) /\ Available(k)
        /\ alert' = [alert EXCEPT ![k].status = "SENDING", ![k].wait = 1,
                                  ![k].attempts = @ + 1, ![k].lease = alert[k].attempts + 1,
                                  ![k].age = IF alert[k].attempts = 0 THEN 0 ELSE @]
        /\ worker' = [worker EXCEPT ![w] = DrawnFor(w, k)]
  BY Zenon DEF Lease, Oldest, DrawnFor
<1>2. ~Busy(w) /\ UNCHANGED <<mailed, faults>>
  BY Zenon DEF Lease
<1>3. /\ RowOK(k) /\ MailOK(k) /\ alert[k] # NoAlert /\ alert[k].wait = 0
      /\ alert[k].status \in {"PENDING", "SENDING"}
  BY <1>1 DEF AlertsInv, Queued, Available
<1>4. faults \in Nat /\ faults \in 0..MaxFaults /\ alert[k].attempts \in Nat
      /\ alert[k].age \in 0..RetryWindow
  BY <1>3, AlertConstants DEF AlertsInv, AlertTables, RowOK
<1>5. alert' = PutRow(alert, k, Drawn(alert[k]))
  <2>1. PICK f : alert = [j \in AlertKeys |-> f[j]]
    BY DEF AlertsInv, AlertTables
  <2> QED BY <1>1, <2>1 DEF PutRow, Drawn
<1>6. /\ alert'[k] = [status |-> "SENDING", attempts |-> alert[k].attempts + 1,
                      age |-> IF alert[k].attempts = 0 THEN 0 ELSE alert[k].age, wait |-> 1,
                      lease |-> alert[k].attempts + 1, created |-> alert[k].created]
      /\ alert' = [j \in AlertKeys |-> alert'[j]]
      /\ \A j \in AlertKeys : j # k => alert'[j] = alert[j]
  <2>1. alert'[k] = Drawn(alert[k]) /\ alert' = [j \in AlertKeys |-> alert'[j]]
        /\ \A j \in AlertKeys : j # k => alert'[j] = alert[j]
    BY <1>5 DEF PutRow
  <2>2. IsRow(alert[k])
    BY <1>3 DEF RowOK
  <2> QED BY <2>1, <2>2, DrawnIs
<1>7. worker' = [v \in Workers |-> IF v = w THEN DrawnFor(w, k) ELSE worker[v]]
  BY <1>1 DEF AlertsInv, AlertTables
<1>8. /\ alert'[k] # NoAlert /\ alert'[k].attempts = alert[k].attempts + 1
      /\ alert'[k].status = "SENDING" /\ alert'[k].wait = 1
      /\ alert'[k].age = alert[k].age \/ alert[k].attempts = 0
  BY <1>6 DEF NoAlert
<1>9. WorkerOK(w)'
  <2>1. worker'[w] = DrawnFor(w, k)
    BY <1>7
  <2>2. PICK x \in BOOLEAN : x = (alert[k].attempts > 0 /\ alert[k].age >= RetryWindow)
    OBVIOUS
  <2>3. worker'[w] = [step |-> "leased", key |-> k, token |-> alert[k].attempts + 1,
                      expired |-> x, paused |-> FALSE, ticks |-> 0]
    BY <2>1, <2>2, Zenon DEF DrawnFor
  <2>4. mailed'[k].copies = 1 /\ x = FALSE => mailed'[k].age <= RetryWindow - 1
    <3>1. x = FALSE => ~(alert[k].attempts > 0 /\ alert[k].age >= RetryWindow)
      BY <2>2, Zenon
    <3>2. mailed'[k] = mailed[k] /\ mailed[k].age \in Nat
          /\ (mailed[k].copies = 1 => alert[k].attempts > 0
               /\ (alert[k].age < RetryWindow => mailed[k].age <= alert[k].age))
      BY <1>2, <1>3 DEF MailOK
    <3> QED BY <1>4, <3>1, <3>2, AlertConstants
  <2> QED BY <1>4, <1>8, <2>3, <2>4, AlertConstants DEF WorkerOK
<1>10. InHand(k)'
  <2>1. worker'[w].step = "leased" /\ worker'[w].key = k
        /\ worker'[w].token = alert[k].attempts + 1 /\ worker'[w].paused = FALSE
    BY <1>7 DEF DrawnFor
  <2> QED BY <1>8, <2>1 DEF InHand, Holder
<1>11. RowOK(k)'
  <2>1. alert[k].status = "SENDING" => alert[k].attempts <= MaxAttempts + faults
    BY <1>3 DEF RowOK, InHand
  <2>2. alert[k].status = "PENDING" => alert[k].attempts < MaxAttempts
    BY <1>3 DEF RowOK
  <2>3. alert'[k].attempts <= MaxAttempts + faults + 1
    BY <1>3, <1>4, <1>8, <2>1, <2>2, AlertConstants
  <2> QED BY <1>2, <1>4, <1>6, <1>10, <2>3, AlertConstants DEF RowOK, IsRow
<1>12. \A j \in AlertKeys : j # k /\ InHand(j) => InHand(j)'
  <2>1. ASSUME NEW j \in AlertKeys, j # k, InHand(j) PROVE InHand(j)'
    <3>1. PICK v \in Workers : Holder(v, j) /\ ~worker[v].paused
      BY <2>1 DEF InHand
    <3>2. worker'[v] = worker[v] /\ alert'[j] = alert[j]
      BY <1>2, <1>6, <1>7, <2>1, <3>1 DEF Holder, Busy
    <3> QED BY <2>1, <3>1, <3>2 DEF InHand, Holder
  <2> QED BY <2>1
<1>13. /\ worker' = [v \in Workers |-> worker'[v]]
       /\ \A v \in Workers : worker'[v] = worker[v] \/ WorkerOK(v)'
  BY <1>7, <1>9
<1>14. alert'[k].attempts \in Nat /\ alert'[k].attempts >= alert[k].attempts
  BY <1>4, <1>8
<1> QED BY <1>2, <1>4, <1>6, <1>8, <1>11, <1>12, <1>13, <1>14, AlertMoves

LEMMA RowLaterIs ==
  ASSUME NEW s, NEW n, NEW a, NEW d \in 0..1, NEW l, NEW c
  PROVE  RowLater([status |-> s, attempts |-> n, age |-> a, wait |-> d, lease |-> l,
                   created |-> c])
           = [status |-> s, attempts |-> n, age |-> Older(a, RetryWindow), wait |-> 0,
              lease |-> l, created |-> c]
<1>1. Sooner(d) = 0
  BY DEF Sooner
<1>2. \A o, q, r : /\ q = [status |-> s, attempts |-> n, age |-> a, wait |-> 0, lease |-> l,
                         created |-> c]
                  /\ r = [q EXCEPT !.age = o]
        => r = [status |-> s, attempts |-> n, age |-> o, wait |-> 0, lease |-> l, created |-> c]
  OBVIOUS
<1>3. PICK r : r = [status |-> s, attempts |-> n, age |-> a, wait |-> d, lease |-> l,
                    created |-> c]
  OBVIOUS
<1>4. r.wait = d /\ r.age = a
  BY <1>3
<1>5. RowLater(r) = [r EXCEPT !.wait = Sooner(r.wait), !.age = Older(r.age, RetryWindow)]
  BY Zenon DEF RowLater
<1>6. RowLater(r) = [r EXCEPT !.wait = 0, !.age = Older(a, RetryWindow)]
  BY <1>1, <1>4, <1>5, Zenon
<1>7. [r EXCEPT !.wait = 0] = [status |-> s, attempts |-> n, age |-> a, wait |-> 0, lease |-> l,
                               created |-> c]
  BY <1>3
<1>8. PICK o : o = Older(a, RetryWindow)
  OBVIOUS
<1>9. PICK q : q = [r EXCEPT !.wait = 0]
  OBVIOUS
<1>10. RowLater(r) = [q EXCEPT !.age = o]
  BY <1>6, <1>8, <1>9, Zenon
<1> QED BY <1>2, <1>3, <1>7, <1>8, <1>9, <1>10, Zenon

\* A clock that has stopped stays, another gains a tick.
LEMMA OlderIs ==
  ASSUME NEW n \in Nat, NEW b \in Nat
  PROVE  \E o \in Nat : /\ o = Older(n, b) /\ n <= o /\ o <= n + 1
                        /\ n <= b => o <= b
                        /\ o < b => o = n + 1
BY DEF Older

LEMMA MailLaterIs ==
  ASSUME NEW n, NEW a
  PROVE  MailLater([copies |-> n, age |-> a])
           = IF n = 0 THEN [copies |-> n, age |-> a]
             ELSE [copies |-> n, age |-> Older(a, DedupeWindow)]
<1>1. PICK m : m = [copies |-> n, age |-> a]
  OBVIOUS
<1>2. m.copies = n /\ m.age = a
  BY <1>1
<1>3. \A o : [m EXCEPT !.age = o] = [copies |-> n, age |-> o]
  BY <1>1
<1>4. MailLater(m) = IF m.copies = 0 THEN m ELSE [m EXCEPT !.age = Older(m.age, DedupeWindow)]
  BY Zenon DEF MailLater
<1>5. n # 0 => MailLater(m) = [m EXCEPT !.age = Older(a, DedupeWindow)]
  BY <1>2, <1>4, Zenon
<1>6. n = 0 => MailLater(m) = m
  BY <1>2, <1>4, Zenon
<1>7. n # 0 => MailLater(m) = [copies |-> n, age |-> Older(a, DedupeWindow)]
  BY <1>3, <1>5, Zenon
<1> QED BY <1>1, <1>6, <1>7, Zenon

LEMMA WorkLaterIs ==
  ASSUME NEW s, NEW k, NEW n, NEW x, NEW p, NEW t, s # "idle"
  PROVE  WorkLater([step |-> s, key |-> k, token |-> n, expired |-> x, paused |-> p, ticks |-> t])
           = [step |-> s, key |-> k, token |-> n, expired |-> x, paused |-> p, ticks |-> t + 1]
<1>1. PICK m : m = [step |-> s, key |-> k, token |-> n, expired |-> x, paused |-> p, ticks |-> t]
  OBVIOUS
<1>2. m.step = s /\ m.ticks = t
  BY <1>1
<1>3. \A o : [m EXCEPT !.ticks = o]
        = [step |-> s, key |-> k, token |-> n, expired |-> x, paused |-> p, ticks |-> o]
  BY <1>1
<1>4. WorkLater(m) = IF m.step = "idle" THEN m ELSE [m EXCEPT !.ticks = m.ticks + 1]
  BY Zenon DEF WorkLater
<1>5. WorkLater(m) = [m EXCEPT !.ticks = t + 1]
  BY <1>2, <1>4, Zenon
<1> QED BY <1>1, <1>3, <1>5, Zenon

LEMMA TickIs ==
  ASSUME Tick
  PROVE  /\ \A k \in AlertKeys :
              /\ alert'[k] = IF Queued(k) THEN RowLater(alert[k]) ELSE NoAlert
              /\ mailed'[k] = MailLater(mailed[k])
         /\ \A w \in Workers : worker'[w] = WorkLater(worker[w])
         /\ alert' = [k \in AlertKeys |-> alert'[k]]
         /\ mailed' = [k \in AlertKeys |-> mailed'[k]]
         /\ worker' = [w \in Workers |-> worker'[w]]
         /\ \A w \in Workers : Busy(w) => worker[w].paused /\ worker[w].ticks < Stall
         /\ UNCHANGED faults
BY DEF Tick

LEMMA TickKeepsInv ==
  ASSUME AlertsInv, Tick
  PROVE  AlertsInv'
<1>1. /\ \A w \in Workers : Busy(w) => worker[w].paused /\ worker[w].ticks < Stall
      /\ UNCHANGED faults
  BY TickIs, Zenon
<1>2. /\ alert' = [k \in AlertKeys |-> alert'[k]] /\ mailed' = [k \in AlertKeys |-> mailed'[k]]
      /\ worker' = [w \in Workers |-> worker'[w]]
  BY TickIs
<1>3. AlertTables'
  BY <1>1, <1>2 DEF AlertsInv, AlertTables
<1>4. RetryWindow \in Nat \ {0} /\ DedupeWindow \in Nat \ {0} /\ Stall \in Nat
  BY AlertConstants
<1>5. ASSUME NEW k \in AlertKeys, alert[k] # NoAlert
      PROVE  \E o \in 0..RetryWindow :
               /\ alert'[k] = [status |-> alert[k].status, attempts |-> alert[k].attempts,
                               age |-> o, wait |-> 0,
                               lease |-> alert[k].lease, created |-> alert[k].created]
               /\ o < RetryWindow => o = alert[k].age + 1
  <2>1. RowOK(k)
    BY DEF AlertsInv
  <2>2. IsRow(alert[k]) /\ alert[k].wait \in 0..1 /\ alert[k].age \in 0..RetryWindow
    BY <1>5, <2>1 DEF RowOK
  <2>3. PICK s, n, a, d, l, c :
          /\ alert[k] = [status |-> s, attempts |-> n, age |-> a, wait |-> d, lease |-> l,
                         created |-> c]
          /\ s = alert[k].status /\ n = alert[k].attempts /\ a = alert[k].age
          /\ d = alert[k].wait /\ l = alert[k].lease /\ c = alert[k].created
    BY <2>2 DEF IsRow
  <2>4. d \in 0..1 /\ a \in 0..RetryWindow
    BY <2>2, <2>3
  <2>5. alert'[k] = RowLater(alert[k])
    BY <1>5, TickIs, Zenon DEF Queued
  <2>6. a \in Nat /\ a <= RetryWindow /\ RetryWindow \in Nat
    BY <1>4, <2>4
  <2>7. PICK o \in Nat : /\ o = Older(a, RetryWindow)
                         /\ a <= RetryWindow => o <= RetryWindow
                         /\ o < RetryWindow => o = a + 1
    BY <2>6, OlderIs, Zenon
  <2>8. alert'[k] = [status |-> s, attempts |-> n, age |-> o, wait |-> 0,
                     lease |-> l, created |-> c]
    <3>1. RowLater([status |-> s, attempts |-> n, age |-> a, wait |-> d, lease |-> l,
                    created |-> c])
            = [status |-> s, attempts |-> n, age |-> Older(a, RetryWindow), wait |-> 0,
               lease |-> l, created |-> c]
      BY <2>4, RowLaterIs
    <3>2. alert'[k] = [status |-> s, attempts |-> n, age |-> Older(a, RetryWindow), wait |-> 0,
                       lease |-> l, created |-> c]
      BY <2>3, <2>5, <3>1, Zenon
    <3> QED BY <2>7, <3>2, Zenon
  <2>9. o \in 0..RetryWindow
    BY <2>6, <2>7
  <2>10. o < RetryWindow => o = alert[k].age + 1
    BY <2>3, <2>7, Zenon
  <2> QED BY <2>3, <2>8, <2>9, <2>10, Zenon
<1>6. ASSUME NEW k \in AlertKeys
      PROVE  \/ mailed[k].copies = 0 /\ mailed'[k] = mailed[k]
             \/ /\ mailed[k].copies = 1
                /\ \E o \in Nat : /\ mailed'[k] = [copies |-> 1, age |-> o]
                                  /\ o >= mailed[k].age /\ o <= mailed[k].age + 1
  <2>1. MailOK(k)
    BY DEF AlertsInv
  <2>2. /\ mailed[k].copies \in 0..1 /\ mailed[k].age \in Nat
        /\ mailed[k] = [copies |-> mailed[k].copies, age |-> mailed[k].age]
    BY <2>1 DEF MailOK
  <2>3. PICK n, a : mailed[k] = [copies |-> n, age |-> a] /\ n = mailed[k].copies
                    /\ a = mailed[k].age
    BY <2>2
  <2>4. mailed'[k] = MailLater(mailed[k])
    BY TickIs, Zenon
  <2>5. PICK o \in Nat : o = Older(a, DedupeWindow) /\ a <= o /\ o <= a + 1
    <3>1. a \in Nat /\ DedupeWindow \in Nat
      BY <1>4, <2>2, <2>3
    <3> QED BY <3>1, OlderIs, Zenon
  <2>6. mailed'[k] = IF n = 0 THEN [copies |-> n, age |-> a] ELSE [copies |-> n, age |-> o]
    BY <2>3, <2>4, <2>5, MailLaterIs, Zenon
  <2>7. n = 0 \/ n = 1
    BY <2>2, <2>3
  <2> QED BY <2>2, <2>3, <2>5, <2>6, <2>7
<1>7. ASSUME NEW k \in AlertKeys
      PROVE  /\ alert[k] = NoAlert => alert'[k] = NoAlert
             /\ alert[k] # NoAlert =>
                  /\ alert'[k] # NoAlert /\ alert'[k].status = alert[k].status
                  /\ alert'[k].attempts = alert[k].attempts
  <2>1. CASE alert[k] = NoAlert
    BY <2>1, TickIs, Zenon DEF Queued
  <2>2. CASE alert[k] # NoAlert
    <3>1. PICK o : alert'[k] = [status |-> alert[k].status, attempts |-> alert[k].attempts,
                               age |-> o, wait |-> 0,
                               lease |-> alert[k].lease, created |-> alert[k].created]
      BY <1>5, <2>2, Zenon
    <3> QED BY <2>2, <3>1 DEF NoAlert
  <2> QED BY <2>1, <2>2
<1>8. ASSUME NEW k \in AlertKeys PROVE RowOK(k)'
  <2>1. RowOK(k)
    BY DEF AlertsInv
  <2>2. CASE alert[k] = NoAlert
    BY <1>7, <2>2 DEF RowOK
  <2>3. CASE alert[k] # NoAlert
    <3>1. PICK o \in 0..RetryWindow :
            alert'[k] = [status |-> alert[k].status, attempts |-> alert[k].attempts,
                         age |-> o, wait |-> 0,
                         lease |-> alert[k].lease, created |-> alert[k].created]
      BY <1>5, <2>3, Zenon
    <3>2. ~InHand(k)
      BY <1>1 DEF InHand, Holder, Busy
    <3>3. alert[k].status = "SENDING" => alert[k].attempts <= MaxAttempts + faults
      BY <2>1, <2>3, <3>2 DEF RowOK
    <3> QED BY <1>1, <2>1, <2>3, <3>1, <3>3 DEF RowOK, IsRow
  <2> QED BY <2>2, <2>3
<1>9. ASSUME NEW k \in AlertKeys PROVE MailOK(k)'
  <2>1. MailOK(k) /\ RowOK(k)
    BY DEF AlertsInv
  <2>2. CASE mailed[k].copies = 0 /\ mailed'[k] = mailed[k]
    BY <2>1, <2>2 DEF MailOK
  <2>3. CASE mailed[k].copies = 1
    <3>1. PICK o \in Nat : /\ mailed'[k] = [copies |-> 1, age |-> o]
                           /\ o >= mailed[k].age /\ o <= mailed[k].age + 1
      BY <1>6, <2>3
    <3>2. /\ alert[k] # NoAlert /\ alert[k].attempts > 0 /\ alert[k].age \in 0..RetryWindow
          /\ alert[k].age < RetryWindow => mailed[k].age <= alert[k].age
          /\ mailed[k].age \in Nat
      BY <2>1, <2>3 DEF MailOK, RowOK
    <3>3. PICK a \in 0..RetryWindow :
            /\ alert'[k] = [status |-> alert[k].status, attempts |-> alert[k].attempts,
                            age |-> a, wait |-> 0,
                            lease |-> alert[k].lease, created |-> alert[k].created]
            /\ a < RetryWindow => a = alert[k].age + 1
      BY <1>5, <3>2, Zenon
    <3>4. alert'[k].age = a /\ alert'[k].attempts > 0 /\ alert'[k] # NoAlert
      BY <1>7, <3>2, <3>3
    <3>5. a < RetryWindow => o <= a
      BY <1>4, <3>1, <3>2, <3>3
    <3> QED BY <3>1, <3>4, <3>5 DEF MailOK
  <2> QED BY <1>6, <2>2, <2>3
<1>10. ASSUME NEW w \in Workers PROVE WorkerOK(w)'
  <2>1. WorkerOK(w)
    BY DEF AlertsInv
  <2>2. CASE ~Busy(w)
    <3>1. worker'[w] = worker[w]
      BY <2>2, TickIs, Zenon DEF WorkLater, Busy
    <3> QED BY <2>1, <2>2, <3>1 DEF WorkerOK, Busy
  <2>3. CASE Busy(w)
    <3>0. PICK s, j, n, x, p, t :
            worker[w] = [step |-> s, key |-> j, token |-> n, expired |-> x, paused |-> p, ticks |-> t]
      BY <2>1, <2>3 DEF WorkerOK, Busy
    <3>1. worker'[w] = [step |-> s, key |-> j, token |-> n, expired |-> x, paused |-> p,
                        ticks |-> t + 1]
      <4>1. s # "idle"
        BY <2>3, <3>0 DEF Busy
      <4>2. worker'[w] = WorkLater(worker[w])
        BY TickIs, Zenon
      <4>3. WorkLater([step |-> s, key |-> j, token |-> n, expired |-> x, paused |-> p, ticks |-> t])
              = [step |-> s, key |-> j, token |-> n, expired |-> x, paused |-> p, ticks |-> t + 1]
        BY <4>1, WorkLaterIs
      <4> QED BY <3>0, <4>2, <4>3, Zenon
    <3>2. worker'[w] = [step |-> worker[w].step, key |-> worker[w].key,
                        token |-> worker[w].token, expired |-> worker[w].expired,
                        paused |-> worker[w].paused, ticks |-> worker[w].ticks + 1]
      BY <3>0, <3>1
    <3>3. PICK k \in AlertKeys : k = worker[w].key
      BY <2>1, <2>3 DEF WorkerOK, Busy
    <3>4. /\ alert'[k] # NoAlert /\ alert'[k].attempts = alert[k].attempts
          /\ worker[w].ticks + 1 \in 0..Stall
      <4>1. alert[k] # NoAlert
        BY <2>1, <2>3, <3>3 DEF WorkerOK, Busy
      <4>2. worker[w].ticks \in 0..Stall
        BY <2>1 DEF WorkerOK
      <4>3. worker[w].ticks < Stall
        BY <1>1, <2>3
      <4> QED BY <1>4, <1>7, <4>1, <4>2, <4>3
    <3>5. MailOK(k)
      BY DEF AlertsInv
    <3>6. mailed'[k].copies = mailed[k].copies
          /\ (mailed[k].copies = 1 => mailed'[k].age <= mailed[k].age + 1
                                       /\ mailed'[k].age \in Nat /\ mailed[k].age \in Nat)
      <4>1. mailed[k].age \in Nat
        BY <3>5 DEF MailOK
      <4>2. CASE mailed[k].copies = 0 /\ mailed'[k] = mailed[k]
        BY <4>2
      <4>3. CASE mailed[k].copies = 1
        <5>1. PICK o \in Nat : /\ mailed'[k] = [copies |-> 1, age |-> o]
                               /\ o >= mailed[k].age /\ o <= mailed[k].age + 1
          BY <1>6, <4>3
        <5> QED BY <4>1, <4>3, <5>1
      <4> QED BY <1>6, <4>2, <4>3
    <3>7. mailed'[k].copies = 1 /\ worker[w].expired = FALSE
            => mailed'[k].age <= RetryWindow - 1 + (worker[w].ticks + 1)
      <4>1. mailed[k].copies = 1 /\ worker[w].expired = FALSE
              => mailed[k].age <= RetryWindow - 1 + worker[w].ticks
        BY <2>1, <2>3, <3>3 DEF WorkerOK, Busy
      <4>2. worker[w].ticks \in Nat
        BY <1>4, <2>1 DEF WorkerOK
      <4> QED BY <1>4, <3>6, <4>1, <4>2
    <3> QED BY <2>1, <2>3, <3>2, <3>3, <3>4, <3>6, <3>7 DEF WorkerOK, Busy
  <2> QED BY <2>2, <2>3
<1>11. AcceptedMeansTold'
  <2>1. \A k \in AlertKeys : alert[k] # NoAlert => alert'[k] # NoAlert
    BY <1>7
  <2>2. \A k \in AlertKeys : mailed[k].copies \in Nat /\ mailed'[k].copies \in Nat
                             /\ mailed'[k].copies >= mailed[k].copies
    <3>1. ASSUME NEW k \in AlertKeys
          PROVE  mailed[k].copies \in 0..1 /\ mailed'[k].copies = mailed[k].copies
      <4>1. CASE mailed[k].copies = 0 /\ mailed'[k] = mailed[k]
        BY <4>1
      <4>2. CASE mailed[k].copies = 1 /\ \E o : mailed'[k] = [copies |-> 1, age |-> o]
        <5>1. PICK o : mailed'[k] = [copies |-> 1, age |-> o]
          BY <4>2
        <5> QED BY <4>2, <5>1
      <4> QED BY <1>6, <4>1, <4>2, Zenon
    <3> QED BY <3>1
  <2>3. \A k \in AlertKeys : alert'[k] # NoAlert /\ alert'[k].status = "ACCEPTED" =>
          alert[k] # NoAlert /\ alert[k].status = "ACCEPTED"
    BY <1>7
  <2> QED BY <2>1, <2>2, <2>3, ToldKept DEF AlertsInv
<1> QED BY <1>3, <1>8, <1>9, <1>10, <1>11 DEF AlertsInv

LEMMA AlertsInvStep == AlertsInv /\ [AlertsNext]_alertVars => AlertsInv'
<1> SUFFICES ASSUME AlertsInv, [AlertsNext]_alertVars PROVE AlertsInv'
  OBVIOUS
<1>1. ASSUME UNCHANGED <<alert, worker, mailed, faults>> PROVE AlertsInv'
  <2>1. AlertTables' /\ AcceptedMeansTold'
    BY <1>1 DEF AlertsInv, AlertTables, AcceptedMeansTold, Queued
  <2>2. ASSUME NEW k \in AlertKeys PROVE RowOK(k)' /\ MailOK(k)'
    <3>1. InHand(k)' = InHand(k)
      BY <1>1 DEF InHand, Holder
    <3> QED BY <1>1, <3>1 DEF AlertsInv, RowOK, MailOK
  <2>3. ASSUME NEW w \in Workers PROVE WorkerOK(w)'
    BY <1>1 DEF AlertsInv, WorkerOK
  <2> QED BY <2>1, <2>2, <2>3 DEF AlertsInv
<1>2. Configure \/ UNCHANGED alertVars => UNCHANGED <<alert, worker, mailed, faults>>
  BY DEF Configure, alertVars
<1>3. \A w \in Workers : Drain(w) => AlertsInv'
  BY LeaseKeepsInv, GiveUpKeepsInv, FanOutKeepsInv, SendKeepsInv, AcceptKeepsInv,
     PutBackKeepsInv DEF Drain
<1> QED BY <1>1, <1>2, <1>3, TriggerKeepsInv, CrashKeepsInv, PauseKeepsInv, ResumeKeepsInv,
           TickKeepsInv DEF AlertsNext

PutDrawn(t, j) ==
  [t EXCEPT ![j].status = "SENDING", ![j].wait = 1, ![j].attempts = @ + 1,
            ![j].lease = t[j].attempts + 1, ![j].age = IF t[j].attempts = 0 THEN 0 ELSE @]

IsTable(t) == t = [k \in AlertKeys |-> t[k]]

\* Writing one row leaves the others.
LEMMA OthersStay ==
  ASSUME NEW t, IsTable(t)
  PROVE  \A k \in AlertKeys : \A j : j # k =>
           /\ \A st : PutSettled(t, j, st)[k] = t[k]
           /\ \A st : PutMarked(t, j, st)[k] = t[k]
           /\ PutDrawn(t, j)[k] = t[k]
<1> SUFFICES ASSUME NEW k \in AlertKeys, NEW j, j # k, NEW st
             PROVE  /\ PutSettled(t, j, st)[k] = t[k]
                    /\ PutMarked(t, j, st)[k] = t[k]
                    /\ PutDrawn(t, j)[k] = t[k]
  OBVIOUS
<1>1. PICK f : t = [i \in AlertKeys |-> f[i]]
  BY DEF IsTable
<1>2. PutSettled(t, j, st)[k] = t[k] /\ PutMarked(t, j, st)[k] = t[k]
  BY <1>1 DEF PutSettled, PutMarked
<1>3. PutDrawn(t, j)[k] = t[k]
  BY <1>1 DEF PutDrawn
<1> QED BY <1>2, <1>3

\* A settled row is nobody's any more: every lease of it is void.
LEMMA SettledStays ==
  ASSUME AlertsInv, [AlertsNext]_alertVars, NEW k \in AlertKeys, SettledAlert(k)
  PROVE  alert'[k].status = alert[k].status
<1>0. IsTable(alert)
  BY DEF AlertsInv, AlertTables, IsTable
<1>1. RowOK(k) /\ alert[k] # NoAlert /\ alert[k].status \in {"ACCEPTED", "FAILED"}
      /\ alert[k].lease = 0
  BY DEF AlertsInv, SettledAlert, Queued, RowOK
<1>2. \A w \in Workers : Busy(w) /\ worker[w].key = k => ~Holds(w)
  BY <1>1 DEF AlertsInv, WorkerOK, Busy, Holds
<1>3. \A ks : QueueMail(ks)[k] = alert[k]
  BY <1>1 DEF QueueMail, Queued
<1>4. ASSUME NEW w \in Workers, FanOut(w) PROVE alert'[k] = alert[k]
  <2>1. PICK j, st : j = worker[w].key /\ st = "ACCEPTED"
    OBVIOUS
  <2>2. Busy(w)
    BY <1>4, Zenon DEF FanOut, Awake, Busy
  <2>3. CASE ~configured
    BY <1>4, <2>3, Zenon DEF FanOut
  <2>4. CASE configured
    <3>1. PICK copies : /\ copies = QueueMail({<<j[1], a>> : a \in AdminInboxes})
                        /\ alert' = IF Holds(w) THEN PutSettled(copies, j, st) ELSE copies
      BY <1>4, <2>1, <2>4, Zenon DEF FanOut, PutSettled
    <3>2. copies[k] = alert[k]
      BY <1>3, <3>1, Zenon
    <3>3. IsTable(copies)
      BY <3>1 DEF QueueMail, IsTable
    <3>4. CASE ~Holds(w)
      BY <3>1, <3>2, <3>4, Zenon
    <3>5. CASE Holds(w)
      <4>1. k # j
        BY <1>2, <2>1, <2>2, <3>5
      <4>2. PutSettled(copies, j, st)[k] = copies[k]
        <5>1. \A i : i # k => \A s : PutSettled(copies, i, s)[k] = copies[k]
          BY <3>3, OthersStay, Zenon
        <5> QED BY <4>1, <5>1, Zenon
      <4> QED BY <3>1, <3>2, <3>5, <4>2, Zenon
    <3> QED BY <3>4, <3>5
  <2> QED BY <2>3, <2>4
<1>5. ASSUME NEW w \in Workers, Accept(w) \/ PutBack(w) PROVE alert'[k] = alert[k]
  <2>1. worker[w].key # k \/ ~Holds(w)
    BY <1>2, <1>5 DEF Accept, PutBack, Awake, Busy
  <2>2. ASSUME NEW j, j # k, NEW st
        PROVE  PutSettled(alert, j, st)[k] = alert[k] /\ PutMarked(alert, j, st)[k] = alert[k]
    <3>1. \A i : i # k => \A s : PutSettled(alert, i, s)[k] = alert[k]
      BY <1>0, OthersStay, Zenon
    <3>2. \A i : i # k => \A s : PutMarked(alert, i, s)[k] = alert[k]
      BY <1>0, OthersStay, Zenon
    <3> QED BY <2>2, <3>1, <3>2, Zenon
  <2>3. PICK j, st : j = worker[w].key /\
          \/ alert' = IF Holds(w) THEN PutSettled(alert, j, st) ELSE alert
          \/ alert' = IF Holds(w) THEN PutMarked(alert, j, st) ELSE alert
    <3>1. CASE Accept(w)
      <4>1. alert' = IF Holds(w) THEN PutSettled(alert, worker[w].key, "ACCEPTED") ELSE alert
        BY <3>1, Zenon DEF Accept, PutSettled
      <4> QED BY <4>1, Zenon
    <3>2. CASE PutBack(w)
      <4>1. Unsent(w) = PutMarked(alert, worker[w].key, IF Dead(w) THEN "FAILED" ELSE "PENDING")
        BY Zenon DEF Unsent, PutMarked
      <4>2. alert' = IF Holds(w) THEN Unsent(w) ELSE alert
        BY <3>2, Zenon DEF PutBack
      <4> QED BY <4>1, <4>2, Zenon
    <3> QED BY <1>5, <3>1, <3>2
  <2> QED BY <2>1, <2>2, <2>3
<1>6. ASSUME NEW w \in Workers, Lease(w) PROVE alert'[k] = alert[k]
  <2>1. PICK j \in AlertKeys : Available(j) /\ alert' = PutDrawn(alert, j)
    BY <1>6, Zenon DEF Lease, Oldest, PutDrawn
  <2>2. j # k
    BY <1>1, <2>1 DEF Available
  <2> QED BY <1>0, <2>1, <2>2, OthersStay, Zenon
<1>7. Tick => alert'[k].status = alert[k].status
  <2>1. ASSUME Tick PROVE alert'[k].status = alert[k].status
    <3>1. alert'[k] = RowLater(alert[k])
      BY <1>1, <2>1, TickIs, Zenon DEF Queued
    <3>2. PICK s, n, a, d, l, c :
            /\ alert[k] = [status |-> s, attempts |-> n, age |-> a, wait |-> d, lease |-> l,
                           created |-> c]
            /\ d = alert[k].wait
      BY <1>1 DEF RowOK, IsRow
    <3>3. d \in 0..1
      BY <1>1, <3>2 DEF RowOK
    <3>4. RowLater([status |-> s, attempts |-> n, age |-> a, wait |-> d, lease |-> l,
                    created |-> c])
            = [status |-> s, attempts |-> n, age |-> Older(a, RetryWindow), wait |-> 0,
               lease |-> l, created |-> c]
      BY <3>3, RowLaterIs
    <3>5. PICK o : alert'[k] = [status |-> s, attempts |-> n, age |-> o, wait |-> 0, lease |-> l,
                               created |-> c]
      BY <3>1, <3>2, <3>4, Zenon
    <3> QED BY <3>2, <3>5
  <2> QED BY <2>1
<1>8. \A j \in AlertKeys : Trigger(j) => alert'[k] = alert[k]
  BY <1>3 DEF Trigger
<1>9. \A w \in Workers : GiveUp(w) \/ Send(w) \/ Crash(w) \/ Pause(w) \/ Resume(w)
        => alert'[k] = alert[k]
  BY DEF GiveUp, Send, Crash, Pause, Resume
<1>10. Configure \/ UNCHANGED alertVars => alert'[k] = alert[k]
  BY DEF Configure, alertVars
<1> QED BY <1>4, <1>5, <1>6, <1>7, <1>8, <1>9, <1>10 DEF AlertsNext, Drain

\* No alert is mailed twice, none counts as ACCEPTED that nobody was told, and a settled
\* one stays as it is, for any events, inboxes and processes and however they crash, are
\* paused, lose answers and outlive their leases (drain).
THEOREM AlertsAlwaysReachOnce == AlertsSpec => AlertsReachOnce
<1>1. AlertsInv /\ [AlertsNext]_alertVars
        => [\A k \in AlertKeys : SettledAlert(k) => alert'[k].status = alert[k].status]_alertVars
  BY SettledStays
<1> QED BY <1>1, AlertsInvInit, AlertsInvStep, AlertsInvMeans, PTL
        DEF AlertsSpec, AlertsReachOnce, SettledIsFinal

-----------------------------------------------------------------------------
(* The television's session.                                               *)

\* A row of sessions that was made; it may be ended, and is never made again.
Known(s) == s \in 1..MaxSessions /\ session[s] # NoRow

Turning(r) == rotation[r].step # "quiet"

\* A rotation of this generation is about the token the television has, and one that
\* was refused is about a session that is over.
RotationOK(r) ==
  Turning(r) =>
    /\ rotation[r] = [step |-> rotation[r].step, token |-> rotation[r].token,
                      generation |-> rotation[r].generation, pair |-> rotation[r].pair]
    /\ rotation[r].generation \in Nat /\ rotation[r].generation <= tv.generation
    /\ Known(rotation[r].token)
    /\ rotation[r].generation = tv.generation => rotation[r].token = tv.refresh
    /\ rotation[r].step = "served" /\ req[r].step = "revoke" => req[r].id = rotation[r].token
    /\ rotation[r].step = "granted" => Known(rotation[r].pair)
    /\ rotation[r].step = "refused" => ~Usable(rotation[r].token)

\* Who waits for a rotation of this generation began in it.
CallOK(c) ==
  /\ tvCall[c].step = "waits" =>
       /\ tvCall[c].on \in SignCalls /\ Turning(tvCall[c].on)
       /\ rotation[tvCall[c].on].generation = tv.generation => tvCall[c].began = tv.generation
  /\ tvCall[c].step = "sent" => tvCall[c].began = tvCall[c].generation

SessionRows ==
  /\ session = [s \in 1..MaxSessions |-> session[s]]
  /\ \A s \in 1..MaxSessions : Stored(session[s]) => "live" \in DOMAIN session[s]

TvTables ==
  /\ req = [r \in SignCalls |-> req[r]]
  /\ rotation = [r \in SignCalls |-> rotation[r]]
  /\ tvCall = [c \in TvCalls |-> tvCall[c]]

TvShape ==
  /\ tv = [access |-> tv.access, refresh |-> tv.refresh, generation |-> tv.generation,
           user |-> tv.user]
  /\ tv.generation \in Nat
  /\ tv.refresh # 0 => Known(tv.refresh)
  /\ tvForm.step = "login" => tv.refresh = 0

TvInv ==
  /\ SessionRows /\ TvTables /\ TvShape
  /\ crossed = FALSE
  /\ \A r \in SignCalls : RotationOK(r)
  /\ \A r, q \in SignCalls : Turning(r) /\ Turning(q) => r = q
  /\ \A c \in TvCalls : CallOK(c)

\* What the server may do to the rows.
RowsLast ==
  /\ SessionRows'
  /\ \A s \in 1..MaxSessions :
       session[s] # NoRow => session'[s] # NoRow /\ (Usable(s)' => Usable(s))

LEMMA TvInvInit == TvStart => TvInv
<1> SUFFICES ASSUME TvStart PROVE TvInv
  OBVIOUS
<1>1. /\ session = [s \in 1..MaxSessions |-> session[s]] /\ session[1] # NoRow
      /\ \A s \in 1..MaxSessions : Stored(session[s]) => "live" \in DOMAIN session[s]
  <2>1. PICK a : session = [s \in 1..MaxSessions |->
          IF s = 1 THEN [account |-> a, live |-> TRUE, link |-> 0, barred |-> FALSE] ELSE NoRow]
    BY Zenon DEF TvStart
  <2>2. 1 \in 1..MaxSessions
    BY AccountConstants, TvConstants
  <2> QED BY <2>1, <2>2 DEF NoRow, Stored
<1>2. /\ tv.refresh = 1 /\ tv.generation = 0
      /\ tv = [access |-> tv.access, refresh |-> tv.refresh, generation |-> tv.generation,
               user |-> tv.user]
      /\ rotation = [r \in SignCalls |-> Quiet] /\ tvCall = [c \in TvCalls |-> Quiet]
      /\ tvForm = Quiet /\ crossed = FALSE /\ req = [c \in SignCalls |-> Resting]
  BY DEF TvStart, TvAppInit
<1>3. Quiet.step = "quiet"
  BY DEF Quiet
<1>4. Known(1)
  BY <1>1, AccountConstants, TvConstants DEF Known
<1> QED BY <1>1, <1>2, <1>3, <1>4
        DEF TvInv, SessionRows, TvTables, TvShape, RotationOK, CallOK, Turning

-----------------------------------------------------------------------------
(* What the server does.                                                   *)

LEMMA EndedRows ==
  ASSUME SessionRows, NEW s, Stored(session[s]), session' = [session EXCEPT ![s].live = FALSE]
  PROVE  RowsLast /\ (s \in 1..MaxSessions => ~Usable(s)')
<1>1. CASE s \notin 1..MaxSessions
  <2>1. session' = session
    BY <1>1 DEF SessionRows
  <2> QED BY <1>1, <2>1 DEF RowsLast, SessionRows, Usable
<1>2. CASE s \in 1..MaxSessions
  <2>1. /\ session' = [i \in 1..MaxSessions |-> session'[i]]
        /\ session'[s] = [session[s] EXCEPT !.live = FALSE]
        /\ \A i \in 1..MaxSessions : i # s => session'[i] = session[i]
    BY <1>2 DEF SessionRows
  <2>2. "live" \in DOMAIN session[s] /\ session[s] # NoRow
    BY <1>2 DEF SessionRows, Stored
  <2>3. "live" \in DOMAIN session'[s] /\ session'[s].live = FALSE
    BY <2>1, <2>2
  <2>4. session'[s] # NoRow
    BY <2>3 DEF NoRow
  <2>5. SessionRows'
    BY <2>1, <2>3 DEF SessionRows
  <2> QED BY <2>1, <2>3, <2>4, <2>5 DEF RowsLast, Usable
<1> QED BY <1>1, <1>2

LEMMA RowsStay == SessionRows /\ UNCHANGED session => RowsLast
  BY DEF RowsLast, SessionRows, Usable

LEMMA IssuedRow ==
  ASSUME SessionRows, NEW r \in SignCalls, IssuePair(r)
  PROVE  RowsLast /\ \A s \in NextRow(session) : Known(s)'
<1>1. PICK a, l, b : a = req[r].account /\ l = req[r].link /\ b = (req[r].account \in barred[r])
  BY Zenon
<1>2. PICK s \in NextRow(session) :
        session' = [session EXCEPT ![s] = [account |-> a, live |-> TRUE, link |-> l, barred |-> b]]
  BY <1>1, Zenon DEF IssuePair
<1>3. s \in 1..MaxSessions /\ session[s] = NoRow
  BY DEF NextRow, SessionRows
<1>4. /\ session' = [i \in 1..MaxSessions |-> session'[i]]
      /\ session'[s] = [account |-> a, live |-> TRUE, link |-> l, barred |-> b]
      /\ \A i \in 1..MaxSessions : i # s => session'[i] = session[i]
  BY <1>2, <1>3 DEF SessionRows
<1>5. "live" \in DOMAIN session'[s] /\ session'[s] # NoRow
  BY <1>4 DEF NoRow
<1>6. RowsLast
  <2>1. SessionRows'
    BY <1>4, <1>5 DEF SessionRows
  <2>2. \A i \in 1..MaxSessions : session[i] # NoRow => session'[i] = session[i]
    BY <1>3, <1>4
  <2> QED BY <2>1, <2>2 DEF RowsLast, Usable
<1>7. ASSUME NEW t \in NextRow(session) PROVE t = s
  <2>1. t \in 1..MaxSessions /\ session[t] = NoRow
    BY DEF NextRow, SessionRows
  <2>2. ~(t < s) /\ ~(s < t)
    BY <1>3, <2>1, AccountConstants DEF NextRow
  <2> QED BY <1>3, <2>1, <2>2
<1> QED BY <1>3, <1>5, <1>6, <1>7 DEF Known

\* A rotation that stays as it is keeps what is known of it.
LEMMA RotationKept ==
  ASSUME NEW r \in SignCalls, RotationOK(r), rotation'[r] = rotation[r], RowsLast,
         UNCHANGED tv, req'[r] = req[r] \/ req'[r].step # "revoke" \/ rotation[r].step # "served"
  PROVE  RotationOK(r)'
BY DEF RotationOK, Turning, Known, RowsLast

\* The rotation goes on; the television does nothing.
LEMMA RotationGoesOn ==
  ASSUME TvInv, RowsLast, UNCHANGED <<tv, tvCall, tvForm, crossed>>,
         TvTables', NEW r \in SignCalls,
         \A q \in SignCalls : q # r => rotation'[q] = rotation[q] /\ req'[q] = req[q],
         RotationOK(r)', Turning(r)' <=> Turning(r),
         Turning(r) => rotation'[r].generation = rotation[r].generation
  PROVE  TvInv'
<1>1. ASSUME NEW q \in SignCalls
      PROVE  /\ RotationOK(q)' /\ (Turning(q)' <=> Turning(q))
             /\ Turning(q) => rotation'[q].generation = rotation[q].generation
  <2>1. CASE q = r
    BY <2>1
  <2>2. CASE q # r
    <3>1. RotationOK(q)'
      BY <2>2, RotationKept DEF TvInv
    <3> QED BY <2>2, <3>1 DEF Turning
  <2> QED BY <2>1, <2>2
<1>2. \A c \in TvCalls : CallOK(c)'
  BY <1>1 DEF TvInv, CallOK
<1>3. TvShape'
  BY DEF TvInv, TvShape, Known, RowsLast
<1> QED BY <1>1, <1>2, <1>3 DEF TvInv, RowsLast

\* The server acts for nobody's rotation.
LEMMA ServerActs ==
  ASSUME TvInv, RowsLast, UNCHANGED <<tv, tvCall, tvForm, crossed, rotation>>,
         TvTables',
         \A q \in SignCalls : \/ req'[q] = req[q] \/ req'[q].step # "revoke"
                              \/ rotation[q].step # "served"
  PROVE  TvInv'
<1>1. \A q \in SignCalls : RotationOK(q)' /\ (Turning(q)' <=> Turning(q))
  BY RotationKept DEF TvInv, Turning
<1>2. \A c \in TvCalls : CallOK(c)'
  BY <1>1 DEF TvInv, CallOK
<1>3. TvShape'
  BY DEF TvInv, TvShape, Known, RowsLast
<1> QED BY <1>1, <1>2, <1>3 DEF TvInv, RowsLast

LEMMA TakeKeepsTv ==
  ASSUME TvInv, NEW r \in SignCalls, TakeRotation(r)
  PROVE  TvInv'
<1>1. RotationOK(r) /\ rotation[r].step = "asked" /\ Turning(r)
  BY DEF TvInv, TakeRotation, Turning
<1>2. PICK step \in {"served", "refused"} :
        /\ rotation' = [rotation EXCEPT ![r].step = step]
        /\ UNCHANGED session
        /\ \/ /\ step = "served"
              /\ \E x : x.id = rotation[r].token /\ req' = [req EXCEPT ![r] = x]
           \/ step = "refused" /\ ~Usable(rotation[r].token) /\ UNCHANGED req
  <2>1. CASE BeginRefresh(r, rotation[r].token) /\ rotation' = [rotation EXCEPT ![r].step = "served"]
    <3>1. \E x : x.id = rotation[r].token /\ req' = [req EXCEPT ![r] = x]
      <4>1. PICK s : s = rotation[r].token
        OBVIOUS
      <4>2. PICK a, b : req' = [req EXCEPT ![r] =
                          [step |-> "revoke", id |-> s, account |-> a, refused |-> b]]
        BY <2>1, <4>1, Zenon DEF BeginRefresh, Begin
      <4>3. [step |-> "revoke", id |-> s, account |-> a, refused |-> b].id = s
        OBVIOUS
      <4> QED BY <4>1, <4>2, <4>3
    <3> QED BY <2>1, <3>1 DEF BeginRefresh
  <2>2. CASE /\ ~Usable(rotation[r].token) /\ rotation' = [rotation EXCEPT ![r].step = "refused"]
             /\ UNCHANGED accountVars
    BY <2>2 DEF accountVars
  <2> QED BY <2>1, <2>2 DEF TakeRotation
<1>3. /\ UNCHANGED <<tv, tvCall, tvForm, crossed>> /\ RowsLast
  BY <1>2, RowsStay DEF TakeRotation, TvInv
<1>4. TvTables' /\ \A q \in SignCalls : q # r => rotation'[q] = rotation[q] /\ req'[q] = req[q]
  BY <1>2, <1>3 DEF TvInv, TvTables
<1>5. rotation'[r] = [step |-> step, token |-> rotation[r].token,
                      generation |-> rotation[r].generation, pair |-> rotation[r].pair]
  BY <1>1, <1>2 DEF TvInv, TvTables, RotationOK
<1>6. RotationOK(r)'
  <2>1. step = "served" => req'[r].id = rotation[r].token
    BY <1>2 DEF TvInv, TvTables
  <2>2. step = "refused" => ~Usable(rotation[r].token)'
    BY <1>2 DEF Usable
  <2> QED BY <1>1, <1>2, <1>3, <1>5, <2>1, <2>2 DEF RotationOK, Turning, Known
<1> QED BY <1>1, <1>3, <1>4, <1>5, <1>6, RotationGoesOn DEF Turning

LEMMA AnsweringKeepsTv ==
  ASSUME TvInv, NEW r \in SignCalls, NEW step \in {"granted", "refused"}, NEW s,
         Answering(r, step, s), RowsLast, UNCHANGED <<tv, tvCall, tvForm, crossed>>,
         NEW x, req' = [req EXCEPT ![r] = x], x.step # "revoke",
         step = "granted" => Known(s)',
         NEW t, t = rotation[r].token,
         step = "refused" /\ rotation[r].step = "served" => ~Usable(t)'
  PROVE  TvInv'
<1>1. RotationOK(r) /\ TvTables
  BY DEF TvInv
<1>2. CASE rotation[r].step # "served"
  <2>1. UNCHANGED rotation
    BY <1>2 DEF Answering
  <2>2. TvTables' /\ \A q \in SignCalls : q # r => req'[q] = req[q]
    BY <1>1, <2>1 DEF TvTables
  <2> QED BY <1>2, <2>1, <2>2, ServerActs
<1>3. CASE rotation[r].step = "served"
  <2>1. Turning(r)
    BY <1>3 DEF Turning
  <2>2. rotation' = [rotation EXCEPT ![r].step = step, ![r].pair = s]
    BY <1>3, Zenon DEF Answering
  <2>3. rotation'[r] = [step |-> step, token |-> rotation[r].token,
                        generation |-> rotation[r].generation, pair |-> s]
    <3>1. PICK o, g, p : rotation[r] = [step |-> o, token |-> t, generation |-> g, pair |-> p]
      BY <1>1, <2>1 DEF RotationOK
    <3>2. PICK f : rotation = [q \in SignCalls |-> f[q]]
      BY <1>1 DEF TvTables
    <3>3. rotation'[r] = [[rotation[r] EXCEPT !.step = step] EXCEPT !.pair = s]
      BY <2>2, <3>2
    <3>4. PICK y : y = [rotation[r] EXCEPT !.step = step]
      OBVIOUS
    <3>5. y = [step |-> step, token |-> t, generation |-> g, pair |-> p]
      BY <3>1, <3>4
    <3>6. [y EXCEPT !.pair = s] = [step |-> step, token |-> t, generation |-> g, pair |-> s]
      BY <3>5
    <3> QED BY <3>1, <3>3, <3>4, <3>6
  <2>4. TvTables' /\ \A q \in SignCalls : q # r => rotation'[q] = rotation[q] /\ req'[q] = req[q]
    BY <1>1, <2>2 DEF TvTables
  <2>5. req'[r].step # "revoke"
    BY <1>1 DEF TvTables
  <2>6. RotationOK(r)'
    BY <1>1, <1>3, <2>1, <2>3, <2>5 DEF RotationOK, Turning, Known, RowsLast
  <2> QED BY <2>1, <2>3, <2>4, <2>6, RotationGoesOn DEF Turning
<1> QED BY <1>2, <1>3

LEMMA ServeKeepsTv ==
  ASSUME TvInv, NEW r \in SignCalls, ServeRotation(r)
  PROVE  TvInv'
<1>1. /\ RotationOK(r) /\ UNCHANGED <<tv, tvCall, tvForm, crossed>> /\ SessionRows /\ TvTables
  BY DEF TvInv, ServeRotation
<1>2. CASE /\ RevokeOld(r)
           /\ IF req'[r] = Resting THEN Answering(r, "refused", 0) ELSE UNCHANGED rotation
  <2>1. PICK i, x : /\ i = req[r].id /\ Stored(session[i]) /\ req[r].step = "revoke"
                    /\ session' = [session EXCEPT ![i].live = FALSE]
                    /\ req' = [req EXCEPT ![r] = x]
                    /\ x = IF req[r].refused THEN Resting ELSE Issuing(req[r].account, 0)
    BY <1>2, Zenon DEF RevokeOld, Continue
  <2>2. x.step # "revoke" /\ req'[r] = x
    BY <1>1, <2>1 DEF Resting, Issuing, TvTables
  <2>3. RowsLast /\ (i \in 1..MaxSessions => ~Usable(i)')
    BY <1>1, <2>1, EndedRows
  <2>4. CASE req'[r] = Resting
    <3>1. Answering(r, "refused", 0)
      BY <1>2, <2>4
    <3>2. PICK t : t = rotation[r].token
      OBVIOUS
    <3>3. rotation[r].step = "served" => t = i /\ i \in 1..MaxSessions
      BY <1>1, <2>1, <3>2 DEF RotationOK, Turning, Known
    <3>4. rotation[r].step = "served" => ~Usable(t)'
      BY <2>3, <3>3
    <3> QED BY <1>1, <2>1, <2>2, <2>3, <3>1, <3>2, <3>4, AnsweringKeepsTv
  <2>5. CASE req'[r] # Resting
    <3>1. UNCHANGED rotation
      BY <1>2, <2>5
    <3>2. TvTables' /\ \A q \in SignCalls : req'[q] = req[q] \/ req'[q].step # "revoke"
      BY <1>1, <2>1, <2>2, <3>1 DEF TvTables
    <3> QED BY <1>1, <2>3, <3>1, <3>2, ServerActs
  <2> QED BY <2>4, <2>5
<1>3. CASE IssuePair(r) /\ \E s \in NextRow(session) : Answering(r, "granted", s)
  <2>1. PICK s \in NextRow(session) : Answering(r, "granted", s)
    BY <1>3
  <2>2. RowsLast /\ Known(s)'
    BY <1>1, <1>3, IssuedRow
  <2>3. req' = [req EXCEPT ![r] = Resting] /\ Resting.step # "revoke"
    BY <1>3 DEF IssuePair, Continue, Resting
  <2> QED BY <1>1, <2>1, <2>2, <2>3, AnsweringKeepsTv
<1> QED BY <1>2, <1>3 DEF ServeRotation

LEMMA LoseKeepsTv ==
  ASSUME TvInv, NEW r \in SignCalls, LoseRotation(r)
  PROVE  TvInv'
<1>1. /\ RotationOK(r) /\ Turning(r) /\ UNCHANGED <<session, req, tv, tvCall, tvForm, crossed>>
      /\ rotation' = [rotation EXCEPT ![r].step = "failed"]
  BY DEF TvInv, LoseRotation, Turning, accountVars
<1>2. RowsLast
  BY <1>1, RowsStay DEF TvInv
<1>3. TvTables' /\ \A q \in SignCalls : q # r => rotation'[q] = rotation[q] /\ req'[q] = req[q]
  BY <1>1 DEF TvInv, TvTables
<1>4. rotation'[r] = [step |-> "failed", token |-> rotation[r].token,
                      generation |-> rotation[r].generation, pair |-> rotation[r].pair]
  BY <1>1 DEF TvInv, TvTables, RotationOK
<1>5. RotationOK(r)'
  BY <1>1, <1>2, <1>4 DEF RotationOK, Turning, Known
<1> QED BY <1>1, <1>2, <1>3, <1>4, <1>5, RotationGoesOn DEF Turning

-----------------------------------------------------------------------------
(* The answer arrives, and the app's own requests.                         *)

\* Nobody waits for a rotation that is over, and what is sent on belongs to its generation.
LEMMA SettlingKeepsTv ==
  ASSUME TvInv, NEW r \in SignCalls, Turning(r), NEW rotated \in BOOLEAN,
         SettleWith(r, rotated), UNCHANGED <<session, req, tvForm>>,
         rotated = TRUE => rotation[r].generation = tv.generation,
         TvShape'
  PROVE  TvInv'
<1>1. /\ rotation' = [rotation EXCEPT ![r] = Quiet]
      /\ TvTables /\ SessionRows /\ RotationOK(r) /\ crossed = FALSE
  BY DEF TvInv, SettleWith
<1>2. Quiet.step = "quiet" /\ Quiet.step # "waits" /\ Quiet.step # "sent"
  BY DEF Quiet
<1>3. \A q \in SignCalls : rotation'[q].step = "quiet"
  <2>1. ASSUME NEW q \in SignCalls PROVE rotation'[q].step = "quiet"
    <3>1. CASE q = r
      BY <1>1, <1>2, <3>1 DEF TvTables
    <3>2. CASE q # r
      <4>1. ~Turning(q)
        BY <3>2 DEF TvInv
      <4> QED BY <1>1, <3>2, <4>1 DEF TvTables, Turning
    <3> QED BY <3>1, <3>2
  <2> QED BY <2>1
<1>4. ASSUME NEW c \in TvCalls, c \in Waiters(r), rotated = TRUE
      PROVE  tvCall[c].began = tv.generation
  BY <1>4 DEF TvInv, CallOK, Waiters
<1>5. crossed' = FALSE
  <2>1. ~(rotated /\ \E c \in Waiters(r) : tvCall[c].began # tv.generation)
    BY <1>4 DEF Waiters
  <2> QED BY <1>1, <2>1, Zenon DEF SettleWith
<1>6. ASSUME NEW c \in TvCalls PROVE CallOK(c)'
  <2>1. tvCall'[c] = IF c \notin Waiters(r) THEN tvCall[c]
                     ELSE IF rotated THEN Sending(tvCall[c], rotation[r].pair) ELSE Quiet
    BY DEF SettleWith
  <2>2. CASE c \notin Waiters(r)
    <3>1. tvCall[c].step # "waits"
      <4>1. ASSUME tvCall[c].step = "waits" PROVE FALSE
        <5>1. tvCall[c].on \in SignCalls /\ Turning(tvCall[c].on)
          BY <4>1 DEF TvInv, CallOK
        <5>2. tvCall[c].on = r
          BY <5>1 DEF TvInv
        <5> QED BY <2>2, <4>1, <5>2 DEF Waiters
      <4> QED BY <4>1
    <3> QED BY <2>1, <2>2, <3>1 DEF TvInv, CallOK
  <2>3. CASE c \in Waiters(r) /\ rotated = TRUE
    <3>1. tvCall'[c] = Sending(tvCall[c], rotation[r].pair)
      BY <2>1, <2>3
    <3>2. tvCall'[c].step = "sent" /\ tvCall'[c].began = tvCall[c].began
          /\ tvCall'[c].generation = tv.generation
      BY <3>1 DEF Sending
    <3> QED BY <1>4, <2>3, <3>2 DEF CallOK
  <2>4. CASE c \in Waiters(r) /\ rotated = FALSE
    BY <1>2, <2>1, <2>4 DEF CallOK
  <2> QED BY <2>2, <2>3, <2>4
<1>7. SessionRows' /\ TvTables'
  BY <1>1 DEF SessionRows, TvTables, SettleWith
<1> QED BY <1>3, <1>5, <1>6, <1>7 DEF TvInv, RotationOK, Turning

LEMMA SettleKeepsTv ==
  ASSUME TvInv, NEW r \in SignCalls, SettleRotation(r)
  PROVE  TvInv' /\ LiveSessionIsKept /\ SignedOutStaysOut
<1>1. /\ UNCHANGED <<session, req, tvForm>> /\ RotationOK(r) /\ TvShape
      /\ rotation[r].step \in {"granted", "refused", "failed"} /\ Turning(r)
  BY DEF SettleRotation, TvInv, accountVars, Turning
<1>2. CASE /\ rotation[r].step = "granted" /\ rotation[r].generation = tv.generation
           /\ TvStore(rotation[r].pair) /\ SettleWith(r, TRUE)
  <2>1. PICK p : p = rotation[r].pair /\ Known(p) /\ p # 0
    <3>1. Known(rotation[r].pair)
      BY <1>1, <1>2 DEF RotationOK
    <3> QED BY <3>1, AccountConstants DEF Known
  <2>2. tv.refresh # 0
    BY <1>1, <1>2, AccountConstants DEF RotationOK, Known
  <2>3. tv' = [access |-> p, refresh |-> p, generation |-> tv.generation, user |-> tv.user]
    <3>1. PICK a, f, g, u : tv = [access |-> a, refresh |-> f, generation |-> g, user |-> u]
      BY <1>1 DEF TvShape
    <3>2. PICK y : y = [tv EXCEPT !.access = p]
      OBVIOUS
    <3>3. tv' = [y EXCEPT !.refresh = p]
      BY <1>2, <2>1, <3>2, Zenon DEF TvStore
    <3>4. y = [access |-> p, refresh |-> f, generation |-> g, user |-> u]
      BY <3>1, <3>2
    <3> QED BY <3>1, <3>3, <3>4
  <2>4. TvShape'
    BY <1>1, <2>1, <2>2, <2>3 DEF TvShape, Known
  <2>5. TvInv'
    BY <1>1, <1>2, <2>4, SettlingKeepsTv
  <2> QED BY <2>1, <2>2, <2>3, <2>5 DEF LiveSessionIsKept, SignedOutStaysOut
<1>3. CASE /\ rotation[r].step = "refused" /\ rotation[r].generation = tv.generation
           /\ tv' = Cleared /\ SettleWith(r, FALSE)
  <2>1. ~Usable(tv.refresh)
    BY <1>1, <1>3 DEF RotationOK
  <2>2. tv' = [access |-> 0, refresh |-> 0, generation |-> tv.generation + 1, user |-> FALSE]
    BY <1>3 DEF Cleared
  <2>3. TvShape'
    BY <1>1, <2>2 DEF TvShape
  <2>5. TvInv'
    BY <1>1, <1>3, <2>3, SettlingKeepsTv
  <2> QED BY <2>1, <2>2, <2>5 DEF LiveSessionIsKept, SignedOutStaysOut
<1>4. CASE SettleWith(r, FALSE) /\ UNCHANGED tv
  <2>1. TvShape'
    BY <1>1, <1>4 DEF TvShape, Known
  <2>3. TvInv'
    BY <1>1, <1>4, <2>1, SettlingKeepsTv
  <2> QED BY <1>4, <2>3 DEF LiveSessionIsKept, SignedOutStaysOut
<1> QED BY <1>2, <1>3, <1>4 DEF SettleRotation

\* A request that asks in the session it began in: at once, or after a rotation.
LEMMA SendingKeepsTv ==
  ASSUME TvInv, NEW c \in TvCalls, NEW call, call.began = tv.generation, NEW s,
         tvCall' = [tvCall EXCEPT ![c] = Sending(call, s)] \/ tvCall' = [tvCall EXCEPT ![c] = Quiet],
         UNCHANGED <<session, req, tv, rotation, tvForm>>, crossed' = FALSE
  PROVE  TvInv'
<1>1. TvTables' /\ SessionRows' /\ TvShape'
  BY DEF TvInv, TvTables, SessionRows, TvShape, Known
<1>2. ASSUME NEW d \in TvCalls PROVE CallOK(d)'
  <2>1. CASE d # c
    <3>1. tvCall'[d] = tvCall[d]
      BY <2>1 DEF TvInv, TvTables
    <3> QED BY <3>1 DEF TvInv, CallOK, Turning
  <2>2. CASE d = c
    <3>1. tvCall'[d] = Sending(call, s) \/ tvCall'[d] = Quiet
      BY <2>2 DEF TvInv, TvTables
    <3> QED BY <3>1 DEF CallOK, Sending, Quiet
  <2> QED BY <2>1, <2>2
<1>3. \A r \in SignCalls : RotationOK(r)' /\ (Turning(r)' <=> Turning(r))
  BY DEF TvInv, RotationOK, Turning, Known, Usable
<1> QED BY <1>1, <1>2, <1>3 DEF TvInv

LEMMA RotateKeepsTv ==
  ASSUME TvInv, NEW c \in TvCalls, NEW call, call.began = tv.generation, tv.refresh # 0,
         Rotate(c, call), UNCHANGED <<session, req, tv, tvForm, crossed>>
  PROVE  TvInv'
<1>1. SessionRows' /\ TvShape' /\ TvTables /\ TvShape
  BY DEF TvInv, SessionRows, TvShape, Known
<1>2. CASE \E r \in Rotating : tvCall' = [tvCall EXCEPT ![c] = Waiting(call, r)]
                               /\ UNCHANGED rotation
  <2>1. PICK r \in SignCalls : Turning(r) /\ tvCall' = [tvCall EXCEPT ![c] = Waiting(call, r)]
    BY <1>2 DEF Rotating, Turning
  <2>2. \A q \in SignCalls : RotationOK(q)' /\ (Turning(q)' <=> Turning(q))
    BY <1>2 DEF TvInv, RotationOK, Turning, Known, Usable
  <2>3. ASSUME NEW d \in TvCalls PROVE CallOK(d)'
    <3>1. CASE d # c
      <4>1. tvCall'[d] = tvCall[d]
        BY <1>1, <2>1, <3>1 DEF TvTables
      <4> QED BY <1>2, <4>1 DEF TvInv, CallOK, Turning
    <3>2. CASE d = c
      <4>1. tvCall'[d] = Waiting(call, r)
        BY <1>1, <2>1, <3>2 DEF TvTables
      <4> QED BY <1>2, <2>1, <4>1 DEF CallOK, Waiting, Turning
    <3> QED BY <3>1, <3>2
  <2>4. TvTables'
    BY <1>1, <1>2, <2>1 DEF TvTables
  <2> QED BY <1>1, <2>2, <2>3, <2>4 DEF TvInv
<1>3. CASE /\ Rotating = {}
           /\ \E r \in FreeSlots : /\ rotation' = [rotation EXCEPT ![r] = Rotation]
                                   /\ tvCall' = [tvCall EXCEPT ![c] = Waiting(call, r)]
  <2>1. PICK r \in SignCalls : /\ rotation' = [rotation EXCEPT ![r] = Rotation]
                               /\ tvCall' = [tvCall EXCEPT ![c] = Waiting(call, r)]
                               /\ req[r] = Resting
    BY <1>3 DEF FreeSlots
  <2>2. \A q \in SignCalls : ~Turning(q)
    BY <1>3 DEF Rotating, Turning
  <2>3. /\ \A q \in SignCalls : q # r => ~Turning(q)'
        /\ rotation'[r] = Rotation
    BY <1>1, <2>1, <2>2 DEF TvTables, Turning
  <2>4. Turning(r)' /\ rotation'[r].generation = tv.generation
    BY <2>3 DEF Rotation, Turning
  <2>5. RotationOK(r)'
    <3>1. Known(tv.refresh)
      BY <1>1 DEF TvShape
    <3>2. rotation'[r] = [step |-> "asked", token |-> tv.refresh, generation |-> tv.generation,
                          pair |-> 0]
      BY <2>3 DEF Rotation
    <3> QED BY <1>1, <3>1, <3>2 DEF RotationOK, Known, TvShape
  <2>6. ASSUME NEW d \in TvCalls PROVE CallOK(d)'
    <3>1. CASE d # c
      <4>1. tvCall'[d] = tvCall[d]
        BY <1>1, <2>1, <3>1 DEF TvTables
      <4>2. tvCall[d].step # "waits"
        BY <2>2 DEF TvInv, CallOK
      <4> QED BY <4>1, <4>2 DEF TvInv, CallOK
    <3>2. CASE d = c
      <4>1. tvCall'[d] = Waiting(call, r)
        BY <1>1, <2>1, <3>2 DEF TvTables
      <4> QED BY <2>4, <4>1 DEF CallOK, Waiting
    <3> QED BY <3>1, <3>2
  <2>7. TvTables'
    BY <1>1, <2>1 DEF TvTables
  <2>8. \A q \in SignCalls : RotationOK(q)'
    BY <2>3, <2>5 DEF RotationOK
  <2> QED BY <1>1, <2>3, <2>6, <2>7, <2>8 DEF TvInv
<1> QED BY <1>2, <1>3 DEF Rotate

LEMMA AskKeepsTv ==
  ASSUME TvInv, NEW c \in TvCalls, TvAsk(c)
  PROVE  TvInv'
<1>1. UNCHANGED <<session, req, tv, tvForm, crossed>> /\ crossed = FALSE
  BY DEF TvAsk, TvInv, accountVars
<1>2. PICK call : call.began = tv.generation /\ call = [began |-> tv.generation, retried |-> FALSE]
  OBVIOUS
<1>3. CASE tv.refresh # 0 /\ Rotate(c, call)
  BY <1>1, <1>2, <1>3, RotateKeepsTv
<1>4. CASE tvCall' = [tvCall EXCEPT ![c] = Sending(call, tv.access)] /\ UNCHANGED rotation
  BY <1>1, <1>2, <1>4, SendingKeepsTv
<1> QED BY <1>2, <1>3, <1>4, Zenon DEF TvAsk

LEMMA HeardKeepsTv ==
  ASSUME TvInv, NEW c \in TvCalls, TvAnswer(c)
  PROVE  TvInv'
<1>1. /\ UNCHANGED <<session, req, tv, tvForm>> /\ crossed = FALSE
      /\ tvCall[c].step = "sent" /\ tvCall[c].began = tvCall[c].generation
  BY DEF TvAnswer, TvInv, accountVars, CallOK
<1>2. CASE SameSession(tvCall[c]) /\ Unauthorized(c)
  <2>0. PICK call : call = [began |-> tvCall[c].began, retried |-> TRUE]
    OBVIOUS
  <2>1. call = [began |-> tvCall[c].began, retried |-> TRUE] /\ call.began = tv.generation
        /\ tvCall[c].began = tv.generation
    BY <1>1, <1>2, <2>0 DEF SameSession
  <2>2. CASE tv.refresh # 0 /\ Rotate(c, call) /\ UNCHANGED crossed
    BY <1>1, <2>1, <2>2, RotateKeepsTv
  <2>3. CASE /\ tvCall' = [tvCall EXCEPT ![c] = Sending(call, tv.access)]
             /\ crossed' = (crossed \/ tvCall[c].began # tv.generation)
             /\ UNCHANGED rotation
    <3>1. tvCall[c].began = tv.generation
      BY <2>1
    <3>2. crossed' = FALSE
      BY <1>1, <2>3, <3>1, Zenon
    <3> QED BY <1>1, <2>1, <2>3, <3>2, SendingKeepsTv
  <2> QED BY <1>2, <2>1, <2>2, <2>3, Zenon DEF Unauthorized
<1>3. CASE tvCall' = [tvCall EXCEPT ![c] = Quiet] /\ UNCHANGED <<rotation, crossed>>
  <2>1. PICK call : call = [began |-> tv.generation]
    OBVIOUS
  <2>2. call.began = tv.generation
    BY <2>1
  <2> QED BY <1>1, <1>3, <2>2, SendingKeepsTv
<1> QED BY <1>2, <1>3, Zenon DEF TvAnswer

\* Whoever signs in or out has no rotation of the session that begins or is cleared.
LEMMA FormKeepsTv ==
  ASSUME TvInv, RowsLast, UNCHANGED <<rotation, tvCall, crossed>>, TvTables', TvShape',
         \A r \in SignCalls : Turning(r) => \/ req'[r] = req[r] \/ req'[r].step # "revoke",
         \/ tv'.generation = tv.generation + 1
         \/ tv'.generation = tv.generation /\ tv.refresh = 0
         \/ tv'.generation = tv.generation /\ tv'.refresh = tv.refresh
  PROVE  TvInv'
<1>1. TvShape /\ tv.generation \in Nat
  BY DEF TvInv, TvShape
<1>2. ASSUME NEW r \in SignCalls, Turning(r)
      PROVE  /\ rotation[r].generation <= tv'.generation
             /\ rotation[r].generation = tv'.generation =>
                  rotation[r].generation = tv.generation /\ rotation[r].token = tv'.refresh
  <2>1. RotationOK(r)
    BY DEF TvInv
  <2>2. tv.refresh = 0 => rotation[r].generation # tv.generation
    BY <1>2, <2>1, AccountConstants DEF RotationOK, Known
  <2> QED BY <1>1, <1>2, <2>1, <2>2 DEF RotationOK
<1>3. ASSUME NEW r \in SignCalls PROVE RotationOK(r)' /\ (Turning(r)' <=> Turning(r))
  <2>1. RotationOK(r)
    BY DEF TvInv
  <2>2. CASE ~Turning(r)
    BY <2>2 DEF RotationOK, Turning
  <2>3. CASE Turning(r)
    BY <1>2, <2>1, <2>3 DEF RotationOK, Turning, Known, RowsLast
  <2> QED BY <2>2, <2>3
<1>4. ASSUME NEW c \in TvCalls PROVE CallOK(c)'
  <2>1. CallOK(c)
    BY DEF TvInv
  <2>2. tvCall[c].step = "waits" /\ rotation[tvCall[c].on].generation = tv'.generation
          => tvCall[c].began = tv'.generation
    BY <1>2, <2>1 DEF CallOK
  <2> QED BY <2>1, <2>2 DEF CallOK, Turning
<1> QED BY <1>3, <1>4 DEF TvInv, RowsLast

ClearedIs == tv' = [access |-> 0, refresh |-> 0, generation |-> tv.generation + 1, user |-> FALSE]

LEMMA ClearingKeepsTv ==
  ASSUME TvInv, RowsLast, UNCHANGED <<rotation, tvCall, crossed>>, TvTables', ClearedIs,
         \A r \in SignCalls : Turning(r) => \/ req'[r] = req[r] \/ req'[r].step # "revoke"
  PROVE  TvInv'
<1>1. TvShape'
  BY DEF TvInv, TvShape, ClearedIs
<1>2. tv'.generation = tv.generation + 1
  BY DEF ClearedIs
<1> QED BY <1>1, <1>2, FormKeepsTv

LEMMA BeginLoginKeepsTv ==
  ASSUME TvInv, NEW r \in SignCalls, NEW a \in Accounts, BeginTvLogin(r, a)
  PROVE  TvInv' /\ tvForm' # tvForm /\ tv'.refresh = 0
<1>1. /\ UNCHANGED <<session, rotation, tvCall, crossed>> /\ TvTables /\ SessionRows
      /\ req' = [req EXCEPT ![r] = Issuing(a, 0)]
      /\ ~Turning(r)
  BY DEF BeginTvLogin, Login, Begin, FreeSlots, Turning, TvInv
<1>2. ClearedIs
  BY DEF BeginTvLogin, Cleared, ClearedIs
<1>3. TvTables' /\ \A q \in SignCalls : q # r => req'[q] = req[q]
  BY <1>1 DEF TvTables
<1>4. RowsLast
  BY <1>1, RowsStay
<1>5. TvInv'
  BY <1>1, <1>2, <1>3, <1>4, ClearingKeepsTv
<1>6. tvForm.step = "quiet" /\ tvForm'.step = "login"
  BY DEF BeginTvLogin, Quiet
<1>7. tv'.refresh = 0
  BY <1>2 DEF ClearedIs
<1> QED BY <1>5, <1>6, <1>7

LEMMA EndLoginKeepsTv ==
  ASSUME TvInv, NEW r \in SignCalls, EndTvLogin(r)
  PROVE  TvInv' /\ tvForm.step = "login" /\ tv.refresh = 0
<1>1. /\ UNCHANGED <<rotation, tvCall, crossed>> /\ TvTables /\ SessionRows /\ TvShape
      /\ tvForm.step = "login" /\ tvForm'.step = "quiet" /\ tv.refresh = 0
      /\ req' = [req EXCEPT ![r] = Resting] /\ Resting.step # "revoke"
  <2>1. UNCHANGED <<rotation, tvCall, crossed>> /\ tvForm.step = "login" /\ tvForm' = Quiet
    BY Zenon DEF EndTvLogin
  <2>2. TvTables /\ SessionRows /\ TvShape
    BY DEF TvInv
  <2>3. req' = [req EXCEPT ![r] = Resting]
    BY Zenon DEF EndTvLogin, IssuePair, EndSignCall, Continue
  <2>4. tv.refresh = 0
    BY <2>1, <2>2 DEF TvShape
  <2>5. Resting.step # "revoke" /\ Quiet.step = "quiet"
    BY DEF Resting, Quiet
  <2> QED BY <2>1, <2>2, <2>3, <2>4, <2>5
<1>2. TvTables' /\ \A q \in SignCalls : req'[q] = req[q] \/ req'[q].step # "revoke"
  BY <1>1 DEF TvTables
<1>3. CASE /\ IssuePair(r)
           /\ \E s \in NextRow(session) : \E u \in BOOLEAN :
                tv' = [tv EXCEPT !.access = s, !.refresh = s, !.user = u]
  <2>1. PICK s \in NextRow(session), u \in BOOLEAN :
          tv' = [tv EXCEPT !.access = s, !.refresh = s, !.user = u]
    BY <1>3, Zenon
  <2>2. RowsLast /\ Known(s)'
    BY <1>1, <1>3, IssuedRow
  <2>3. tv' = [access |-> s, refresh |-> s, generation |-> tv.generation, user |-> u]
    <3>1. PICK x, f, g, v : tv = [access |-> x, refresh |-> f, generation |-> g, user |-> v]
      BY <1>1 DEF TvShape
    <3>2. PICK y : y = [tv EXCEPT !.access = s]
      OBVIOUS
    <3>3. y = [access |-> s, refresh |-> f, generation |-> g, user |-> v]
      BY <3>1, <3>2
    <3>4. PICK z : z = [y EXCEPT !.refresh = s]
      OBVIOUS
    <3>5. z = [access |-> s, refresh |-> s, generation |-> g, user |-> v]
      BY <3>3, <3>4
    <3>6. tv' = [z EXCEPT !.user = u]
      BY <2>1, <3>2, <3>4, Zenon
    <3> QED BY <3>1, <3>5, <3>6
  <2>4. TvShape'
    BY <1>1, <2>2, <2>3 DEF TvShape
  <2>5. tv'.generation = tv.generation
    BY <2>3
  <2> QED BY <1>1, <1>2, <2>2, <2>4, <2>5, FormKeepsTv
<1>4. CASE EndSignCall(r) /\ UNCHANGED tv
  <2>1. UNCHANGED session
    BY <1>4 DEF EndSignCall
  <2>2. RowsLast /\ TvShape'
    BY <1>1, <1>4, <2>1, RowsStay DEF TvShape
  <2> QED BY <1>1, <1>2, <1>4, <2>2, FormKeepsTv
<1> QED BY <1>1, <1>3, <1>4, Zenon DEF EndTvLogin

LEMMA BeginLogoutKeepsTv ==
  ASSUME TvInv, BeginTvLogout
  PROVE  TvInv' /\ tvForm' # tvForm /\ tv'.refresh = 0
<1>1. /\ UNCHANGED <<session, req, rotation, tvCall, crossed>> /\ TvTables /\ SessionRows
      /\ ClearedIs
  BY DEF BeginTvLogout, TvInv, Cleared, ClearedIs, accountVars
<1>2. TvTables' /\ RowsLast
  BY <1>1, RowsStay DEF TvTables
<1>3. TvInv'
  BY <1>1, <1>2, ClearingKeepsTv
<1>4. tvForm.step = "quiet" /\ tvForm'.step = "logout"
  BY DEF BeginTvLogout, Quiet
<1>5. tv'.refresh = 0
  BY <1>1 DEF ClearedIs
<1> QED BY <1>3, <1>4, <1>5

LEMMA RevokedRow ==
  ASSUME SessionRows, NEW s, RevokeSession(s) \/ UNCHANGED accountVars
  PROVE  RowsLast /\ UNCHANGED req
<1>1. CASE RevokeSession(s)
  BY <1>1, EndedRows DEF RevokeSession, Usable
<1>2. CASE UNCHANGED accountVars
  BY <1>2, RowsStay DEF accountVars
<1> QED BY <1>1, <1>2

LEMMA EndLogoutKeepsTv ==
  ASSUME TvInv, EndTvLogout
  PROVE  TvInv'
<1>1. /\ UNCHANGED <<tv, rotation, tvCall, crossed>> /\ TvTables /\ SessionRows /\ TvShape
      /\ tvForm'.step = "quiet"
  BY DEF EndTvLogout, TvInv, Quiet
<1>2. RowsLast /\ UNCHANGED req
  BY <1>1, RevokedRow, Zenon DEF EndTvLogout
<1>3. TvTables' /\ TvShape'
  BY <1>1, <1>2 DEF TvTables, TvShape, Known, RowsLast
<1> QED BY <1>1, <1>2, <1>3, FormKeepsTv

LEMMA GreetKeepsTv ==
  ASSUME TvInv, Greet
  PROVE  TvInv' /\ tv'.refresh = tv.refresh
<1>1. /\ UNCHANGED <<session, req, rotation, tvCall, tvForm, crossed>> /\ TvTables /\ SessionRows
      /\ tv' = [tv EXCEPT !.user = TRUE] /\ TvShape
  BY DEF Greet, TvInv, accountVars
<1>2. tv' = [access |-> tv.access, refresh |-> tv.refresh, generation |-> tv.generation,
             user |-> TRUE]
  BY <1>1 DEF TvShape
<1>3. TvShape'
  BY <1>1, <1>2 DEF TvShape, Known
<1>4. TvTables' /\ RowsLast /\ tv'.generation = tv.generation /\ tv'.refresh = tv.refresh
  BY <1>1, <1>2, RowsStay DEF TvTables
<1> QED BY <1>1, <1>3, <1>4, FormKeepsTv

LEMMA OthersKeepTv ==
  ASSUME TvInv, TokensAge \/ ElsewhereOnServer \/ UNCHANGED tvAll
  PROVE  TvInv' /\ UNCHANGED tv
<1>1. UNCHANGED <<tv, rotation, tvCall, tvForm, crossed>> /\ SessionRows /\ TvTables
  BY DEF TvInv, TokensAge, ElsewhereOnServer, tvVars, tvAll
<1>2. RowsLast /\ UNCHANGED req
  <2>1. CASE TokensAge \/ UNCHANGED tvAll
    BY <1>1, <2>1, RowsStay DEF TokensAge, tvAll, accountVars
  <2>2. CASE \E s \in 1..MaxSessions : RevokeSession(s)
    BY <1>1, <2>2, RevokedRow
  <2>3. CASE \E a \in Accounts, st \in {"ACTIVE", "SUSPENDED"} : SetUserStatus(a, st)
    BY <1>1, <2>3, RowsStay DEF SetUserStatus
  <2> QED BY <2>1, <2>2, <2>3 DEF ElsewhereOnServer
<1>3. TvTables'
  BY <1>1, <1>2 DEF TvTables
<1> QED BY <1>1, <1>2, <1>3, ServerActs

LEMMA TvStep ==
  ASSUME TvInv, [TvNext]_tvAll
  PROVE  TvInv' /\ LiveSessionIsKept /\ SignedOutStaysOut
<1>1. CASE UNCHANGED tv /\ TvInv'
  BY <1>1 DEF LiveSessionIsKept, SignedOutStaysOut
<1>2. ASSUME NEW r \in SignCalls, SettleRotation(r)
      PROVE  TvInv' /\ LiveSessionIsKept /\ SignedOutStaysOut
  BY <1>2, SettleKeepsTv
<1>3. ASSUME NEW r \in SignCalls, NEW a \in Accounts, BeginTvLogin(r, a)
      PROVE  TvInv' /\ LiveSessionIsKept /\ SignedOutStaysOut
  BY <1>3, BeginLoginKeepsTv DEF LiveSessionIsKept, SignedOutStaysOut
<1>4. ASSUME NEW r \in SignCalls, EndTvLogin(r)
      PROVE  TvInv' /\ LiveSessionIsKept /\ SignedOutStaysOut
  BY <1>4, EndLoginKeepsTv DEF LiveSessionIsKept, SignedOutStaysOut
<1>5. CASE BeginTvLogout
  BY <1>5, BeginLogoutKeepsTv DEF LiveSessionIsKept, SignedOutStaysOut
<1>6. CASE Greet
  BY <1>6, GreetKeepsTv DEF LiveSessionIsKept, SignedOutStaysOut
<1>7. CASE TokensAge \/ ElsewhereOnServer \/ UNCHANGED tvAll
  BY <1>1, <1>7, OthersKeepTv
<1>8. CASE EndTvLogout
  BY <1>1, <1>8, EndLogoutKeepsTv DEF EndTvLogout
<1>9. ASSUME NEW c \in TvCalls, TvAsk(c) \/ TvAnswer(c) PROVE TvInv' /\ UNCHANGED tv
  BY <1>9, AskKeepsTv, HeardKeepsTv DEF TvAsk, TvAnswer
<1>10. ASSUME NEW r \in SignCalls, TakeRotation(r) \/ ServeRotation(r) \/ LoseRotation(r)
       PROVE  TvInv' /\ UNCHANGED tv
  BY <1>10, TakeKeepsTv, ServeKeepsTv, LoseKeepsTv DEF TakeRotation, ServeRotation, LoseRotation
<1> QED BY <1>1, <1>2, <1>3, <1>4, <1>5, <1>6, <1>7, <1>8, <1>9, <1>10, Zenon DEF TvNext

\* Whatever requests share a rotation, however answers are lost, late or crossed by a login
\* or a logout: no session is thrown away that the server would still refresh, nobody who
\* signed out is signed in again by an answer, and no request is repeated in the session of
\* another (rotate, request, clear).
THEOREM TvAlwaysKeepsSession == TvSpec => TvKeepsSession
<1>1. TvInv /\ [TvNext]_tvAll
        => [LiveSessionIsKept /\ SignedOutStaysOut /\ SentAsAsked]_tvAll
  BY TvStep DEF TvInv, SentAsAsked
<1>2. TvInv /\ [TvNext]_tvAll => TvInv'
  BY TvStep
<1> QED BY <1>1, <1>2, TvInvInit, PTL DEF TvSpec, TvKeepsSession

=============================================================================
