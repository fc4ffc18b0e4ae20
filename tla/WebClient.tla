----------------------------- MODULE WebClient -----------------------------
(***************************************************************************)
(* The web client's session (api.ts, auth-context.tsx) over the token       *)
(* service: tabs keep an access token each and share the refresh token in   *)
(* localStorage; every request that is answered 401 refreshes on its own.   *)
(* A token is named by the session row it was issued with.                  *)
(***************************************************************************)
EXTENDS Accounts, TLC

CONSTANTS Tabs,
          WebCalls     \* requests in flight, each also a SignCall: its slot on the server

VARIABLES stored,   \* localStorage: the pair, 0 if none
          held,     \* tokenStore.access of each tab
          greeted,  \* the tab shows a signed-in user
          webCall,
          aged      \* access tokens past their expiry

webVars == <<stored, held, greeted, webCall, aged>>
webAll == <<accountVars, webVars>>

NoCall == [step |-> "quiet"]

WebStart ==
  /\ account = [a \in Accounts |-> [email |-> CHOOSE e \in Emails : TRUE, status |-> "ACTIVE",
                                    verified |-> TRUE, password |-> TRUE, deleted |-> FALSE]]
  /\ session = [s \in 1..MaxSessions |->
       IF s = 1 THEN [account |-> CHOOSE a \in Accounts : TRUE, live |-> TRUE, link |-> 0,
                      barred |-> FALSE] ELSE NoRow]
  /\ credential = [i \in Providers \X Emails |-> None]
  /\ code = [i \in Purposes \X Emails |-> 0] /\ issued = 0
  /\ link = [l \in 1..MaxLinks |-> NoRow]
  /\ req = [c \in SignCalls |-> Resting]
  /\ barred = [c \in SignCalls |-> {}]
  /\ stored = 1
  /\ held = [t \in Tabs |-> 0]
  /\ greeted = [t \in Tabs |-> FALSE]
  /\ webCall = [c \in WebCalls |-> NoCall]
  /\ aged = {}

Honoured(s) == s # 0 /\ s \notin aged /\ Stored(session[s]) /\ Authenticated(session[s].account)

Put(c, r) == webCall' = [webCall EXCEPT ![c] = r]

\* tokenStore.set and tokenStore.clear, in the tab of the call.
SetTokens(t, s) == stored' = s /\ held' = [held EXCEPT ![t] = s]

\* AuthProvider's first effect: hydrate, then me.
OpenTab(t, c) ==
  /\ held[t] = 0 /\ ~greeted[t] /\ stored # 0 /\ webCall[c] = NoCall
  /\ held' = [held EXCEPT ![t] = stored]
  /\ Put(c, [step |-> "sent", tab |-> t, token |-> stored, retried |-> FALSE, what |-> "me"])
  /\ UNCHANGED <<accountVars, stored, greeted, aged>>

\* request, with the access token of the tab.
Ask(t, c) ==
  /\ greeted[t] /\ webCall[c] = NoCall
  /\ Put(c, [step |-> "sent", tab |-> t, token |-> held[t], retried |-> FALSE, what |-> "any"])
  /\ UNCHANGED <<accountVars, stored, held, greeted, aged>>

\* logout: with the refresh token there is; the tokens go when it is answered.
BeginLogout(t, c) ==
  /\ greeted[t] /\ webCall[c] = NoCall
  /\ \/ /\ stored # 0
        /\ Put(c, [step |-> "sent", tab |-> t, token |-> held[t], retried |-> FALSE,
                   what |-> "logout", body |-> stored])
        /\ UNCHANGED <<stored, held, greeted>>
     \/ /\ stored = 0
        /\ SetTokens(t, 0) /\ greeted' = [greeted EXCEPT ![t] = FALSE]
        /\ UNCHANGED webCall
  /\ UNCHANGED <<accountVars, aged>>

\* The call is over, with the user it leaves the tab with.
Finish(c, ok) ==
  LET t == webCall[c].tab
  IN  /\ Put(c, NoCall)
      /\ IF webCall[c].what = "logout"
         THEN SetTokens(t, 0) /\ greeted' = [greeted EXCEPT ![t] = FALSE]
         ELSE /\ greeted' = IF webCall[c].what = "me" THEN [greeted EXCEPT ![t] = ok] ELSE greeted
              /\ UNCHANGED <<stored, held>>

Refreshes(c) == ~webCall[c].retried /\ stored # 0

Respond(c) ==
  /\ webCall[c].step = "sent"
  /\ \/ /\ Honoured(webCall[c].token)
        /\ IF webCall[c].what = "logout" /\ Usable(webCall[c].body)
           THEN RevokeSession(webCall[c].body) ELSE UNCHANGED accountVars
        /\ Finish(c, TRUE)
     \/ /\ ~Honoured(webCall[c].token) /\ ~Refreshes(c)
        /\ Finish(c, FALSE) /\ UNCHANGED accountVars
     \/ /\ ~Honoured(webCall[c].token) /\ Refreshes(c)
        /\ Put(c, [webCall[c] EXCEPT !.step = "refresh", !.token = stored])
        /\ UNCHANGED <<accountVars, stored, held, greeted>>
  /\ UNCHANGED aged

-----------------------------------------------------------------------------
(* tryRefresh: whoever needs a pair asks for one.                          *)

TakeRefresh(c) ==
  /\ webCall[c].step = "refresh"
  /\ \/ BeginRefresh(c, webCall[c].token) /\ Put(c, [webCall[c] EXCEPT !.step = "served"])
     \/ /\ ~Usable(webCall[c].token)
        /\ Put(c, [webCall[c] EXCEPT !.step = "refused"])
        /\ UNCHANGED accountVars
  /\ UNCHANGED <<stored, held, greeted, aged>>

ServeRefresh(c) ==
  /\ webCall[c].step = "served"
  /\ \/ RevokeOld(c) /\ Put(c, IF req'[c] = Resting THEN [webCall[c] EXCEPT !.step = "refused"]
                               ELSE webCall[c])
     \/ /\ IssuePair(c)
        /\ \E s \in NextRow(session) : Put(c, [webCall[c] EXCEPT !.step = "granted", !.token = s])
  /\ UNCHANGED <<stored, held, greeted, aged>>

\* Not ok: the tokens are cleared, whoever put them there since.
ReceiveRefresh(c) ==
  /\ \/ /\ webCall[c].step = "granted"
        /\ SetTokens(webCall[c].tab, webCall[c].token)
        /\ Put(c, [webCall[c] EXCEPT !.step = "sent", !.retried = TRUE])
        /\ UNCHANGED greeted
     \/ /\ webCall[c].step = "refused"
        /\ IF webCall[c].what = "logout" THEN Finish(c, FALSE)
           ELSE /\ SetTokens(webCall[c].tab, 0)
                /\ Put(c, NoCall)
                /\ greeted' = IF webCall[c].what = "me"
                              THEN [greeted EXCEPT ![webCall[c].tab] = FALSE] ELSE greeted
  /\ UNCHANGED <<accountVars, aged>>

\* The network fails after the server answered: the tokens are kept.
LoseRefresh(c) ==
  /\ webCall[c].step \in {"granted", "refused"}
  /\ Finish(c, FALSE)
  /\ UNCHANGED <<accountVars, aged>>

WebTokensAge ==
  /\ \E s \in 1..MaxSessions : Stored(session[s]) /\ s \notin aged /\ aged' = aged \cup {s}
  /\ UNCHANGED <<accountVars, stored, held, greeted, webCall>>

WebNext ==
  \/ \E c \in WebCalls :
       \/ \E t \in Tabs : OpenTab(t, c) \/ Ask(t, c) \/ BeginLogout(t, c)
       \/ Respond(c) \/ TakeRefresh(c) \/ ServeRefresh(c) \/ ReceiveRefresh(c) \/ LoseRefresh(c)
  \/ WebTokensAge

WebSpec == WebStart /\ [][WebNext]_webAll

-----------------------------------------------------------------------------
(* Properties.                                                             *)

\* "Revoke current session": a logout the server answered leaves the session the
\* client held revoked (logout, request).
LogoutRevokes ==
  [][\A c \in WebCalls :
       /\ webCall[c].step = "sent" /\ webCall[c].what = "logout" /\ Honoured(webCall[c].token)
       /\ webCall'[c] = NoCall /\ stored # 0
       => ~session'[stored].live]_webAll

=============================================================================
