------------------------------ MODULE Accounts ------------------------------
(***************************************************************************)
(* Accounts and what lets somebody into them: the users table, federated   *)
(* credentials, sessions, one-time codes, desktop link codes.  A request   *)
(* stops at each await, so it acts on rows that others may have changed.   *)
(***************************************************************************)
EXTENDS Integers, FiniteSets

CONSTANTS Accounts,     \* user ids
          Emails,
          Providers,    \* identity providers, one identity of each an e-mail
          SignCalls,    \* requests in flight
          None,
          VerificationRequired,  \* EMAIL_VERIFICATION_REQUIRED
          MaxSessions, MaxCodes, MaxLinks   \* bounds: rows ever created

ASSUME AccountConstants ==
  /\ None \notin Accounts \cup Emails
  /\ VerificationRequired \in BOOLEAN
  /\ MaxSessions \in Nat /\ MaxCodes \in Nat /\ MaxLinks \in Nat

VARIABLES account,     \* users
          credential,  \* credentials: <<provider, e-mail>> to the account linked
          session,     \* sessions, by refresh token
          code,        \* Redis: <<purpose, e-mail>> to the live code, 0 if none
          issued,      \* how many codes were drawn
          link,        \* desktop_auth_codes
          req,
          barred       \* history: accounts barred ever since each request began

accountVars == <<account, credential, session, code, issued, link, req, barred>>

NoAccount == [status |-> "NONE"]
NoRow == [row |-> "none"]      \* not created yet
Removed == [row |-> "removed"]
Resting == [step |-> "idle"]

Purposes == {"verify", "reset"}

AccountsInit ==
  /\ account = [a \in Accounts |-> NoAccount]
  /\ credential = [i \in Providers \X Emails |-> None]
  /\ session = [s \in 1..MaxSessions |-> NoRow]
  /\ code = [i \in Purposes \X Emails |-> 0]
  /\ issued = 0
  /\ link = [l \in 1..MaxLinks |-> NoRow]
  /\ req = [c \in SignCalls |-> Resting]
  /\ barred = [c \in SignCalls |-> {}]

Exists(a) == account[a] # NoAccount
Owners(e) == {a \in Accounts : Exists(a) /\ account[a].email = e}
Barred(a) == account[a].status \in {"SUSPENDED", "DEACTIVATED"}

\* JwtStrategy.validate: a bearer token is honoured for a living account only.
Authenticated(a) == Exists(a) /\ account[a].status = "ACTIVE" /\ ~account[a].deleted

NextRow(table) == {i \in DOMAIN table : table[i] = NoRow /\ \A j \in 1..(i - 1) : table[j] # NoRow}
Stored(row) == row \notin {NoRow, Removed}

Continue(c, r) ==
  /\ req' = [req EXCEPT ![c] = r]
  /\ barred' = IF r = Resting THEN [barred EXCEPT ![c] = {}] ELSE barred

Begin(c, r) ==
  /\ req[c] = Resting
  /\ req' = [req EXCEPT ![c] = r]
  /\ barred' = [barred EXCEPT ![c] = {a \in Accounts : Exists(a) /\ Barred(a)}]

\* History: an account that is active again is not barred throughout any request.
Reprieved(a, c, r) ==
  /\ req' = [req EXCEPT ![c] = r]
  /\ barred' = [d \in SignCalls |-> IF d = c /\ r = Resting THEN {}
                                     ELSE IF account'[a].status = "ACTIVE" THEN barred[d] \ {a}
                                     ELSE barred[d]]

-----------------------------------------------------------------------------
(* TokensService: pairs are issued, rotated and revoked.                   *)

IssuePair(c) ==
  /\ req[c].step = "issue"
  /\ \E s \in NextRow(session) :
       session' = [session EXCEPT ![s] =
         [account |-> req[c].account, live |-> TRUE,
          link |-> req[c].link, barred |-> req[c].account \in barred[c]]]
  /\ Continue(c, Resting)
  /\ UNCHANGED <<account, credential, code, issued, link>>

\* l: the link code it is exchanged for, 0 for the other ways in.
Issuing(a, l) == [step |-> "issue", account |-> a, link |-> l]

\* Neither revoked nor past its expiry.
Usable(s) == Stored(session[s]) /\ session[s].live

BeginRefresh(c, s) ==
  /\ Usable(s)
  /\ Begin(c, [step |-> "revoke", id |-> s, account |-> session[s].account,
               refused |-> Barred(session[s].account)])
  /\ UNCHANGED <<account, credential, session, code, issued, link>>

\* Mutant: the pair is issued whatever the account's status was.
RevokeOldAnyway(c) ==
  /\ req[c].step = "revoke"
  /\ LET s == req[c].id
     IN  /\ Stored(session[s])
         /\ session' = [session EXCEPT ![s].live = FALSE]
         /\ Continue(c, Issuing(req[c].account, 0))
  /\ UNCHANGED <<account, credential, code, issued, link>>

\* An update by id, which throws when the row is gone (see EndSignCall).
RevokeOld(c) ==
  /\ req[c].step = "revoke"
  /\ LET s == req[c].id
     IN  /\ Stored(session[s])
         /\ session' = [session EXCEPT ![s].live = FALSE]
         /\ Continue(c, IF req[c].refused THEN Resting
                        ELSE Issuing(req[c].account, 0))
  /\ UNCHANGED <<account, credential, code, issued, link>>

\* logout, and SessionsService.revoke of any session of one's own.
RevokeSession(s) ==
  /\ Usable(s)
  /\ Authenticated(session[s].account)
  /\ session' = [session EXCEPT ![s].live = FALSE]
  /\ UNCHANGED <<account, credential, code, issued, link, req, barred>>

-----------------------------------------------------------------------------
(* VerificationService and AuthService: codes, registration, passwords.    *)

SendCode(c) ==
  /\ req[c].step = "send"
  /\ issued < MaxCodes
  /\ issued' = issued + 1
  /\ code' = [code EXCEPT ![<<req[c].purpose, req[c].email>>] = issued']
  /\ Continue(c, Resting)
  /\ UNCHANGED <<account, credential, session, link>>

\* verify: GET and compare, then DEL.
CompareCode(c) ==
  /\ req[c].step = "compare"
  /\ Continue(c, IF code[<<req[c].purpose, req[c].email>>] = req[c].code
                 THEN [req[c] EXCEPT !.step = "drop"] ELSE Resting)
  /\ UNCHANGED <<account, credential, session, code, issued, link>>

DropCode(c) ==
  /\ req[c].step = "drop"
  /\ code' = [code EXCEPT ![<<req[c].purpose, req[c].email>>] = 0]
  /\ Continue(c, [req[c] EXCEPT !.step = IF req[c].purpose = "verify" THEN "find" ELSE "password"])
  /\ UNCHANGED <<account, credential, session, issued, link>>

BeginRegister(c, e) ==
  /\ Owners(e) = {}
  /\ Begin(c, [step |-> "create", email |-> e])
  /\ UNCHANGED <<account, credential, session, code, issued, link>>

\* users.email is unique: the second of two registrations throws.
CreateAccount(c, a) ==
  /\ req[c].step = "create"
  /\ ~Exists(a) /\ Owners(req[c].email) = {}
  /\ account' = [account EXCEPT ![a] =
       [email |-> req[c].email, status |-> "PENDING_VERIFICATION", verified |-> FALSE,
        password |-> TRUE, deleted |-> FALSE]]
  /\ Continue(c, IF VerificationRequired
                 THEN [step |-> "send", purpose |-> "verify", email |-> req[c].email]
                 ELSE [step |-> "activate", account |-> a, then |-> Issuing(a, 0)])
  /\ UNCHANGED <<credential, session, code, issued, link>>

\* markEmailVerified, by id: the account becomes ACTIVE whatever it was.
MarkEmailVerified(c) ==
  /\ req[c].step = "activate"
  /\ LET a == req[c].account
     IN  /\ account' = [account EXCEPT ![a].verified = TRUE, ![a].status = "ACTIVE"]
         /\ Reprieved(a, c, req[c].then)
  /\ UNCHANGED <<credential, session, code, issued, link>>

BeginVerifyEmail(c, e, k) ==
  /\ Begin(c, [step |-> "compare", purpose |-> "verify", email |-> e, code |-> k])
  /\ UNCHANGED <<account, credential, session, code, issued, link>>

FindVerified(c) ==
  /\ req[c].step = "find"
  /\ \E a \in Owners(req[c].email) :
       Continue(c, [step |-> "activate", account |-> a, then |-> Resting])
  /\ UNCHANGED <<account, credential, session, code, issued, link>>

\* login: password, status and verification are judged on the row it read.
Login(c, a) ==
  /\ Exists(a) /\ account[a].password
  /\ ~Barred(a)
  /\ VerificationRequired => account[a].verified
  /\ Begin(c, Issuing(a, 0))
  /\ UNCHANGED <<account, credential, session, code, issued, link>>

ForgotPassword(c, e) ==
  /\ Owners(e) # {}
  /\ Begin(c, [step |-> "send", purpose |-> "reset", email |-> e])
  /\ UNCHANGED <<account, credential, session, code, issued, link>>

BeginReset(c, e, k) ==
  /\ \E a \in Owners(e) :
       Begin(c, [step |-> "compare", purpose |-> "reset", email |-> e, code |-> k, account |-> a])
  /\ UNCHANGED <<account, credential, session, code, issued, link>>

\* updatePassword, by id; sessions are left alone.
UpdatePassword(c) ==
  /\ req[c].step = "password"
  /\ account' = [account EXCEPT ![req[c].account].password = TRUE]
  /\ Continue(c, Resting)
  /\ UNCHANGED <<credential, session, code, issued, link>>

-----------------------------------------------------------------------------
(* Google and Apple: find or create the account, link by e-mail.           *)

FindByProvider(c, p, e) ==
  /\ LET a == credential[<<p, e>>]
     IN  IF a = None
         THEN Begin(c, [step |-> "byEmail", provider |-> p, email |-> e])
         ELSE ~Barred(a) /\ Begin(c, Issuing(a, 0))
  /\ UNCHANGED <<account, credential, session, code, issued, link>>

GoogleSignIn(c, e) == FindByProvider(c, "GOOGLE", e)
AppleSignIn(c, e) == FindByProvider(c, "APPLE", e)

FindByEmail(c) ==
  /\ req[c].step = "byEmail"
  /\ \/ \E a \in Owners(req[c].email) :
          Continue(c, [step |-> "link", provider |-> req[c].provider, email |-> req[c].email,
                       account |-> a, verified |-> account[a].verified, refused |-> Barred(a)])
     \/ /\ Owners(req[c].email) = {}
        /\ Continue(c, [req[c] EXCEPT !.step = "createOAuth"])
  /\ UNCHANGED <<account, credential, session, code, issued, link>>

\* linkCredential: an upsert that leaves an existing link as it is.
LinkCredential(c) ==
  /\ req[c].step = "link"
  /\ LET i == <<req[c].provider, req[c].email>>
         next == IF req[c].refused THEN Resting
                 ELSE Issuing(req[c].account, 0)
     IN  /\ credential' = [credential EXCEPT ![i] = IF @ = None THEN req[c].account ELSE @]
         /\ Continue(c, IF req[c].verified THEN next
                        ELSE [step |-> "activate", account |-> req[c].account, then |-> next])
  /\ UNCHANGED <<account, session, code, issued, link>>

\* createOAuthUser: throws on a taken e-mail or identity.
CreateOAuthUser(c, a) ==
  /\ req[c].step = "createOAuth"
  /\ LET e == req[c].email
         i == <<req[c].provider, e>>
     IN  /\ ~Exists(a) /\ Owners(e) = {} /\ credential[i] = None
         /\ account' = [account EXCEPT ![a] =
              [email |-> e, status |-> "ACTIVE", verified |-> TRUE, password |-> FALSE,
               deleted |-> FALSE]]
         /\ credential' = [credential EXCEPT ![i] = a]
         /\ Continue(c, Issuing(a, 0))
  /\ UNCHANGED <<session, code, issued, link>>

-----------------------------------------------------------------------------
(* DesktopAuthService: a link code is exchanged for a pair.                *)

IssueLink(a) ==
  /\ Authenticated(a)
  /\ \E l \in NextRow(link) :
       link' = [link EXCEPT ![l] = [account |-> a, consumed |-> FALSE, late |-> FALSE]]
  /\ UNCHANGED <<account, credential, session, code, issued, req, barred>>

BeginExchange(c, l) ==
  /\ Stored(link[l]) /\ ~link[l].consumed /\ ~link[l].late
  /\ Begin(c, [step |-> "claim", id |-> l, account |-> link[l].account])
  /\ UNCHANGED <<account, credential, session, code, issued, link>>

\* Mutant: an update by id; the code was checked when it was read.
ClaimLinkById(c) ==
  /\ req[c].step = "claim"
  /\ LET l == req[c].id
     IN  /\ Stored(link[l])
         /\ link' = [link EXCEPT ![l].consumed = TRUE]
  /\ Continue(c, [req[c] EXCEPT !.step = "owner"])
  /\ UNCHANGED <<account, credential, session, code, issued>>

\* The conditional update: only the request that consumes the code goes on.
ClaimLink(c) ==
  /\ req[c].step = "claim"
  /\ LET l == req[c].id
     IN  /\ Stored(link[l]) /\ ~link[l].consumed
         /\ link' = [link EXCEPT ![l].consumed = TRUE]
  /\ Continue(c, [req[c] EXCEPT !.step = "owner"])
  /\ UNCHANGED <<account, credential, session, code, issued>>

FindOwner(c) ==
  /\ req[c].step = "owner"
  /\ ~Barred(req[c].account)
  /\ Continue(c, Issuing(req[c].account, req[c].id))
  /\ UNCHANGED <<account, credential, session, code, issued, link>>

-----------------------------------------------------------------------------
(* AccountDeletionService and the member operations of AdminService.       *)

Purge(table, a) ==
  [i \in DOMAIN table |-> IF Stored(table[i]) /\ table[i].account = a THEN Removed ELSE table[i]]

DeleteAccount(a) ==
  /\ Authenticated(a)
  /\ session' = Purge(session, a)
  /\ link' = Purge(link, a)
  /\ credential' = [i \in DOMAIN credential |-> IF credential[i] = a THEN None ELSE credential[i]]
  /\ account' = [account EXCEPT ![a] =
       [email |-> None, status |-> "DEACTIVATED", verified |-> FALSE, password |-> FALSE,
        deleted |-> TRUE]]
  /\ UNCHANGED <<code, issued, req, barred>>

SetUserStatus(a, st) ==
  /\ Exists(a) /\ account[a].status # st
  /\ account' = [account EXCEPT ![a].status = st]
  /\ barred' = IF st = "ACTIVE" THEN [d \in SignCalls |-> barred[d] \ {a}] ELSE barred
  /\ UNCHANGED <<credential, session, code, issued, link, req>>

BeginVerifyUser(c, a) ==
  /\ Exists(a)
  /\ Begin(c, [step |-> "force", account |-> a,
               pending |-> account[a].status = "PENDING_VERIFICATION"])
  /\ UNCHANGED <<account, credential, session, code, issued, link>>

\* The status it writes depends on the row it read.
ForceVerify(c) ==
  /\ req[c].step = "force"
  /\ LET a == req[c].account
     IN  /\ account' = [account EXCEPT ![a].verified = TRUE,
                                       ![a].status = IF req[c].pending THEN "ACTIVE" ELSE @]
         /\ Reprieved(a, c, Resting)
  /\ UNCHANGED <<credential, session, code, issued, link>>

-----------------------------------------------------------------------------

\* Time: sessions, link codes and one-time codes run out.
RunOut ==
  /\ \/ /\ \E s \in 1..MaxSessions : Usable(s) /\ session' = [session EXCEPT ![s].live = FALSE]
        /\ UNCHANGED <<link, code>>
     \/ /\ \E l \in 1..MaxLinks : /\ Stored(link[l]) /\ ~link[l].late
                                  /\ link' = [link EXCEPT ![l].late = TRUE]
        /\ UNCHANGED <<session, code>>
     \/ /\ \E i \in DOMAIN code : code[i] # 0 /\ code' = [code EXCEPT ![i] = 0]
        /\ UNCHANGED <<session, link>>
  /\ UNCHANGED <<account, credential, issued, req, barred>>

\* A step that finds nothing or throws, or a process that dies.
EndSignCall(c) ==
  /\ req[c] # Resting
  /\ Continue(c, Resting)
  /\ UNCHANGED <<account, credential, session, code, issued, link>>

AuthRequest(c) ==
  \/ \E s \in 1..MaxSessions : BeginRefresh(c, s)
  \/ \E e \in Emails :
       \/ BeginRegister(c, e) \/ ForgotPassword(c, e)
       \/ \E k \in 1..issued : BeginVerifyEmail(c, e, k) \/ BeginReset(c, e, k)
  \/ \E a \in Accounts : CreateAccount(c, a) \/ Login(c, a)
  \/ IssuePair(c) \/ RevokeOld(c) \/ SendCode(c) \/ CompareCode(c) \/ DropCode(c)
  \/ MarkEmailVerified(c) \/ FindVerified(c) \/ UpdatePassword(c)

FederatedRequest(c) ==
  \/ \E e \in Emails : \/ "GOOGLE" \in Providers /\ GoogleSignIn(c, e)
                       \/ "APPLE" \in Providers /\ AppleSignIn(c, e)
  \/ FindByEmail(c) \/ LinkCredential(c)
  \/ \E a \in Accounts : CreateOAuthUser(c, a)

DesktopRequest(c) ==
  (\E l \in 1..MaxLinks : BeginExchange(c, l)) \/ ClaimLink(c) \/ FindOwner(c)

AdminRequest(c) == (\E a \in Accounts : BeginVerifyUser(c, a)) \/ ForceVerify(c)

AccountsNext ==
  \/ \E c \in SignCalls : \/ AuthRequest(c) \/ FederatedRequest(c) \/ DesktopRequest(c)
                          \/ AdminRequest(c) \/ EndSignCall(c)
  \/ \E s \in 1..MaxSessions : RevokeSession(s)
  \/ \E a \in Accounts : \/ IssueLink(a) \/ DeleteAccount(a)
                         \/ \E st \in {"ACTIVE", "SUSPENDED"} : SetUserStatus(a, st)
  \/ RunOut

AccountsSpec == AccountsInit /\ [][AccountsNext]_accountVars

-----------------------------------------------------------------------------
(* Properties.                                                             *)

\* Whichever of the six ways in it took (password, registration, Google, Apple,
\* desktop link, refresh), a request that ran entirely while the account was
\* suspended or closed leaves no session behind (login, signIn, rotate, exchange).
BarredGetNoPair == \A s \in 1..MaxSessions : Stored(session[s]) => ~session[s].barred

\* "Single-use: the conditional update claims the code atomically, so two racing
\* exchanges can never both succeed" (exchange).
LinkBuysOneSession ==
  \A s, t \in 1..MaxSessions :
    /\ Stored(session[s]) /\ Stored(session[t]) /\ s # t
    /\ session[s].link # 0
    => session[s].link # session[t].link

=============================================================================
