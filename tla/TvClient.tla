------------------------------ MODULE TvClient ------------------------------
(***************************************************************************)
(* The television client's session (api.js) over the token service: several *)
(* requests share one pair, one rotation and one generation counter, while  *)
(* a login or a logout may change all of them.  A token is named by the     *)
(* session row it was issued with.                                          *)
(***************************************************************************)
EXTENDS Accounts

CONSTANTS TvCalls,      \* requests of the app in flight
          MaxGeneration \* bound: how often the session is cleared

\* There is a session the app may have restored.
ASSUME TvConstants == MaxSessions > 0

VARIABLES tv,        \* access, refresh, generation; user is the app's
          rotation,  \* one record a refresh request, by SignCall
          tvCall,    \* requests
          tvForm,    \* the login or logout under way ("acting")
          aged,      \* access tokens past their expiry
          crossed    \* history: a request went out in another generation than it began in

tvVars == <<tv, rotation, tvCall, tvForm, aged, crossed>>
tvAll == <<accountVars, tvVars>>

Quiet == [step |-> "quiet"]

\* The app restored a pair, or lost its access token with the process.
TvAppInit ==
  /\ tv \in [access : {0, 1}, refresh : {1}, generation : {0}, user : BOOLEAN]
  /\ rotation = [r \in SignCalls |-> Quiet]
  /\ tvCall = [c \in TvCalls |-> Quiet]
  /\ tvForm = Quiet
  /\ aged = {}
  /\ crossed = FALSE

TvStart ==
  /\ account = [a \in Accounts |-> [email |-> CHOOSE e \in Emails : TRUE, status |-> "ACTIVE",
                                    verified |-> TRUE, password |-> TRUE, deleted |-> FALSE]]
  /\ session = [s \in 1..MaxSessions |->
       IF s = 1 THEN [account |-> CHOOSE a \in Accounts : TRUE, live |-> TRUE, link |-> 0,
                      barred |-> FALSE] ELSE NoRow]
  /\ credential = [i \in Providers \X Emails |-> None]
  /\ code = [i \in Purposes \X Emails |-> 0] /\ issued = 0
  /\ link = [l \in 1..MaxLinks |-> NoRow]
  /\ req = [c \in SignCalls |-> Resting]
  /\ barred = [c \in SignCalls |-> {}]
  /\ TvAppInit

\* The bearer token is honoured (JwtStrategy.validate).
Honoured(s) == s # 0 /\ s \notin aged /\ Stored(session[s]) /\ Authenticated(session[s].account)

TvStore(s) == tv' = [tv EXCEPT !.access = s, !.refresh = s]

\* clear, and onSessionLost.
Cleared == [access |-> 0, refresh |-> 0, generation |-> tv.generation + 1, user |-> FALSE]

-----------------------------------------------------------------------------
(* rotate: one refresh at a time, shared by all who wait for it.           *)

Rotating == {r \in SignCalls : rotation[r].step # "quiet"}
FreeSlots == {r \in SignCalls : rotation[r].step = "quiet" /\ req[r] = Resting}

Rotation == [step |-> "asked", token |-> tv.refresh, generation |-> tv.generation, pair |-> 0]

Waiting(call, r) ==
  [step |-> "waits", on |-> r, began |-> call.began, retried |-> call.retried]

\* The caller waits for the rotation in flight, or starts it.
Rotate(c, call) ==
  \/ \E r \in Rotating :
       /\ tvCall' = [tvCall EXCEPT ![c] = Waiting(call, r)]
       /\ UNCHANGED rotation
  \/ /\ Rotating = {}
     /\ \E r \in FreeSlots :
          /\ rotation' = [rotation EXCEPT ![r] = Rotation]
          /\ tvCall' = [tvCall EXCEPT ![c] = Waiting(call, r)]

\* The server takes the request, or refuses a token it does not know as live.
TakeRotation(r) ==
  /\ rotation[r].step = "asked"
  /\ LET s == rotation[r].token
     IN  \/ /\ BeginRefresh(r, s)
            /\ rotation' = [rotation EXCEPT ![r].step = "served"]
         \/ /\ ~Usable(s)
            /\ rotation' = [rotation EXCEPT ![r].step = "refused"]
            /\ UNCHANGED accountVars
  /\ UNCHANGED <<tv, tvCall, tvForm, aged, crossed>>

Answering(r, step, s) ==
  rotation' = IF rotation[r].step = "served"
              THEN [rotation EXCEPT ![r].step = step, ![r].pair = s] ELSE rotation

ServeRotation(r) ==
  /\ \/ /\ RevokeOld(r)
        /\ IF req'[r] = Resting THEN Answering(r, "refused", 0) ELSE UNCHANGED rotation
     \/ /\ IssuePair(r)
        /\ \E s \in NextRow(session) : Answering(r, "granted", s)
  /\ UNCHANGED <<tv, tvCall, tvForm, aged, crossed>>

\* No answer, or a 429 or 5xx: the server may have rotated all the same.
LoseRotation(r) ==
  /\ rotation[r].step \in {"asked", "served", "granted", "refused"}
  /\ rotation' = [rotation EXCEPT ![r].step = "failed"]
  /\ UNCHANGED <<accountVars, tv, tvCall, tvForm, aged, crossed>>

Waiters(r) == {c \in TvCalls : tvCall[c].step = "waits" /\ tvCall[c].on = r}

Sending(call, s) == [step |-> "sent", token |-> s, generation |-> tv.generation,
                     began |-> call.began, retried |-> call.retried]

SettleWith(r, rotated) ==
  /\ rotation' = [rotation EXCEPT ![r] = Quiet]
  /\ tvCall' = [c \in TvCalls |->
       IF c \notin Waiters(r) THEN tvCall[c]
       ELSE IF rotated THEN Sending(tvCall[c], rotation[r].pair) ELSE Quiet]
  /\ crossed' = (crossed \/ (rotated /\ \E c \in Waiters(r) : tvCall[c].began # tv.generation))

\* Mutant: an answer is stored whatever happened to the session meanwhile.
SettleRotationAnyway(r) ==
  /\ rotation[r].step \in {"granted", "refused", "failed"}
  /\ \/ /\ rotation[r].step = "granted"
        /\ TvStore(rotation[r].pair)
        /\ SettleWith(r, TRUE)
     \/ /\ rotation[r].step = "refused"
        /\ tv' = IF rotation[r].generation = tv.generation THEN Cleared ELSE tv
        /\ SettleWith(r, FALSE)
     \/ rotation[r].step = "failed" /\ SettleWith(r, FALSE) /\ UNCHANGED tv
  /\ UNCHANGED <<accountVars, tvForm, aged>>

\* The answer arrives: it counts only in the generation it was asked in.
SettleRotation(r) ==
  /\ rotation[r].step \in {"granted", "refused", "failed"}
  /\ LET current == rotation[r].generation = tv.generation
     IN  \/ /\ rotation[r].step = "granted" /\ current
            /\ TvStore(rotation[r].pair)
            /\ SettleWith(r, TRUE)
         \/ /\ rotation[r].step = "refused" /\ current
            /\ tv' = Cleared
            /\ SettleWith(r, FALSE)
         \/ /\ rotation[r].step = "failed" \/ ~current
            /\ SettleWith(r, FALSE)
            /\ UNCHANGED tv
  /\ UNCHANGED <<accountVars, tvForm, aged>>

-----------------------------------------------------------------------------
(* request: with the token there is, and once more after a 401.            *)

TvAsk(c) ==
  /\ tvCall[c] = Quiet
  /\ LET call == [began |-> tv.generation, retried |-> FALSE]
     IN  \/ /\ tv.access = 0 /\ tv.refresh # 0
            /\ Rotate(c, call)
         \/ /\ tv.access # 0
            /\ tvCall' = [tvCall EXCEPT ![c] = Sending(call, tv.access)]
            /\ UNCHANGED rotation
  /\ UNCHANGED <<accountVars, tv, tvForm, aged, crossed>>

SameSession(call) == call.generation = tv.generation

\* A 401 retries once: with the newer token if there is one, else after a rotation.
Unauthorized(c) ==
  LET call == tvCall[c]
      again == [began |-> call.began, retried |-> TRUE]
  IN  /\ ~call.retried /\ tv.refresh # 0
      /\ \/ tv.access = call.token /\ Rotate(c, again) /\ UNCHANGED crossed
         \/ /\ tv.access # call.token /\ tv.access # 0
            /\ tvCall' = [tvCall EXCEPT ![c] = Sending(again, tv.access)]
            /\ crossed' = (crossed \/ call.began # tv.generation)
            /\ UNCHANGED rotation

TvAnswer(c) ==
  /\ tvCall[c].step = "sent"
  /\ \/ SameSession(tvCall[c]) /\ ~Honoured(tvCall[c].token) /\ Unauthorized(c)
     \/ /\ \/ ~SameSession(tvCall[c]) \/ Honoured(tvCall[c].token)
           \/ tvCall[c].retried \/ tv.refresh = 0
        /\ tvCall' = [tvCall EXCEPT ![c] = Quiet]
        /\ UNCHANGED <<rotation, crossed>>
  /\ UNCHANGED <<accountVars, tv, tvForm, aged>>

-----------------------------------------------------------------------------
(* login and logout, one at a time (acting), from the screens that offer them. *)

BeginTvLogin(r, a) ==
  /\ tvForm = Quiet /\ ~tv.user /\ tv.generation < MaxGeneration
  /\ r \in FreeSlots /\ Login(r, a)
  /\ tv' = Cleared
  /\ tvForm' = [step |-> "login", on |-> r]
  /\ UNCHANGED <<rotation, tvCall, aged, crossed>>

\* store, then GET /me; a request that fails leaves nobody signed in.
EndTvLogin(r) ==
  /\ tvForm.step = "login" /\ tvForm.on = r
  /\ \/ /\ IssuePair(r)
        /\ \E s \in NextRow(session) : \E u \in BOOLEAN :
             tv' = [tv EXCEPT !.access = s, !.refresh = s, !.user = u]
     \/ EndSignCall(r) /\ UNCHANGED tv
  /\ tvForm' = Quiet
  /\ UNCHANGED <<rotation, tvCall, aged, crossed>>

BeginTvLogout ==
  /\ tvForm = Quiet /\ tv.user /\ tv.generation < MaxGeneration
  /\ tvForm' = [step |-> "logout", access |-> tv.access, refresh |-> tv.refresh]
  /\ tv' = Cleared
  /\ UNCHANGED <<accountVars, rotation, tvCall, aged, crossed>>

EndTvLogout ==
  /\ tvForm.step = "logout"
  /\ IF Honoured(tvForm.access) /\ tvForm.refresh # 0 /\ Usable(tvForm.refresh)
     THEN RevokeSession(tvForm.refresh) \/ UNCHANGED accountVars
     ELSE UNCHANGED accountVars
  /\ tvForm' = Quiet
  /\ UNCHANGED <<tv, rotation, tvCall, aged, crossed>>

\* The app greets the account of a session it restored.
Greet ==
  /\ tv.refresh # 0 /\ Honoured(tv.access) /\ ~tv.user /\ tvForm = Quiet
  /\ tv' = [tv EXCEPT !.user = TRUE]
  /\ UNCHANGED <<accountVars, rotation, tvCall, tvForm, aged, crossed>>

-----------------------------------------------------------------------------

TokensAge ==
  /\ \E s \in 1..MaxSessions : Stored(session[s]) /\ s \notin aged /\ aged' = aged \cup {s}
  /\ UNCHANGED <<accountVars, tv, rotation, tvCall, tvForm, crossed>>

\* Sessions revoked from another device, members suspended and reactivated.
ElsewhereOnServer ==
  /\ \/ \E s \in 1..MaxSessions : RevokeSession(s)
     \/ \E a \in Accounts, st \in {"ACTIVE", "SUSPENDED"} : SetUserStatus(a, st)
  /\ UNCHANGED tvVars

TvNext ==
  \/ \E c \in TvCalls : TvAsk(c) \/ TvAnswer(c)
  \/ \E r \in SignCalls : TakeRotation(r) \/ ServeRotation(r) \/ LoseRotation(r) \/ SettleRotation(r)
                          \/ EndTvLogin(r) \/ \E a \in Accounts : BeginTvLogin(r, a)
  \/ BeginTvLogout \/ EndTvLogout \/ Greet \/ TokensAge \/ ElsewhereOnServer

TvSpec == TvStart /\ [][TvNext]_tvAll

-----------------------------------------------------------------------------
(* What no step of the television may do.                                  *)

\* "serialized refresh rotation": a rotation never throws away a session that the
\* server would still refresh (rotate, request).
LiveSessionIsKept ==
  tv.refresh # 0 /\ tv'.refresh = 0 /\ tvForm' = tvForm => ~Usable(tv.refresh)

\* "logout during refresh cannot resurrect a session": only a login ends the
\* state of being signed out (rotate, clear).
SignedOutStaysOut ==
  tv.refresh = 0 /\ tv'.refresh # 0 => tvForm.step = "login"

\* A request that outlives its session is not repeated with the next one's
\* tokens: what one account asked for never runs as another (request).
SentAsAsked == ~crossed'

\* "serialized refresh rotation" and "logout during refresh cannot resurrect a session":
\* the television loses no session the server would still refresh, and once signed out
\* it stays so until a login; what one session asked for never runs in the next (rotate,
\* request, clear).
TvKeepsSession == [][LiveSessionIsKept /\ SignedOutStaysOut /\ SentAsAsked]_tvAll

=============================================================================
