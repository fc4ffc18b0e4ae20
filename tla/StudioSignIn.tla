---------------------------- MODULE StudioSignIn ----------------------------
(***************************************************************************)
(* Signing the desktop studio in through the browser: attempts in the      *)
(* renderer (app-context.tsx), the loopback listener of the main process   *)
(* (electron/main.ts), and the page the user approves on.  Calls from the   *)
(* renderer reach the main process in order; everything else interleaves.   *)
(***************************************************************************)
EXTENDS Integers, Sequences, FiniteSets

CONSTANT MaxSignIns   \* bound: how often the user presses "Sign in"

Attempts == 1..MaxSignIns

VARIABLES phase,      \* auth.phase
          cancelled,  \* linkingCancelled.current, shared by all attempts
          attempt,
          calls,      \* studio.* calls on their way to the main process
          listener,   \* loopbackServer: the attempt it was opened for, 0 if none
          strays,     \* listeners that nobody can close any more
          waiter,     \* codeWaiter: the attempt that waits, 0 if none
          pending,    \* pendingCode: the attempt whose page it came from, 0 if none
          page,       \* the approval page of each attempt
          tokens      \* the stored pair: the attempt it was bought with, 0 if none

signInVars == <<phase, cancelled, attempt, calls, listener, strays, waiter, pending, page, tokens>>

Idle == [step |-> "idle"]
Done == [step |-> "done"]

SignInStart ==
  /\ phase = "booting" /\ cancelled = FALSE
  /\ attempt = [n \in Attempts |-> Idle]
  /\ calls = <<>> /\ listener = 0 /\ strays = {} /\ waiter = 0 /\ pending = 0
  /\ page = [n \in Attempts |-> "none"]
  /\ tokens \in {0, MaxSignIns + 1}     \* a pair of an earlier run

Becomes(n, a) == attempt' = [attempt EXCEPT ![n] = a]
Call(c) == calls' = Append(calls, c)
Ends(n) == Becomes(n, Done) /\ Call(<<"stop">>)

-----------------------------------------------------------------------------
(* The renderer: boot, signIn, cancelSignIn, signOut.                      *)

\* What probe may find: an administrator, another member, or no session.
Probed == {"ready", "blocked", "signedOut"}

Boot ==
  /\ phase = "booting"
  /\ phase' \in IF tokens = 0 THEN {"signedOut"} ELSE Probed
  /\ UNCHANGED <<cancelled, attempt, calls, listener, strays, waiter, pending, page, tokens>>

SignIn(n) ==
  /\ phase = "signedOut"
  /\ attempt[n] = Idle /\ \A m \in 1..(n - 1) : attempt[m] # Idle
  /\ phase' = "linking" /\ cancelled' = FALSE
  /\ Becomes(n, [step |-> "verifier"])
  /\ UNCHANGED <<calls, listener, strays, waiter, pending, page, tokens>>

AskToListen(n) ==
  /\ attempt[n].step = "verifier"
  /\ Becomes(n, [step |-> "starting"])
  /\ Call(<<"start", n>>)
  /\ UNCHANGED <<phase, cancelled, listener, strays, waiter, pending, page, tokens>>

\* openExternal: the page is there before the call returns.
OpenPage(n) ==
  /\ attempt[n].step = "port"
  /\ page' = [page EXCEPT ![n] = "open"]
  /\ Becomes(n, [step |-> "opening"])
  /\ UNCHANGED <<phase, cancelled, calls, listener, strays, waiter, pending, tokens>>

Opened(n) ==
  /\ attempt[n].step = "opening"
  /\ \/ Becomes(n, [step |-> "waiting"]) /\ Call(<<"await", n>>)
     \/ Becomes(n, [step |-> "failed"]) /\ UNCHANGED calls
  /\ UNCHANGED <<phase, cancelled, listener, strays, waiter, pending, page, tokens>>

GotCode(n) ==
  /\ attempt[n].step = "code"
  /\ IF cancelled THEN Ends(n)
     ELSE Becomes(n, [step |-> "exchange", code |-> attempt[n].code]) /\ UNCHANGED calls
  /\ UNCHANGED <<phase, cancelled, listener, strays, waiter, pending, page, tokens>>

\* exchangeDesktopCode: the code answers to the verifier of its own page only.
Exchange(n) ==
  /\ attempt[n].step = "exchange"
  /\ \/ /\ attempt[n].code = n
        /\ tokens' = n
        /\ Becomes(n, [step |-> "probe"])
     \/ Becomes(n, [step |-> "failed"]) /\ UNCHANGED tokens
  /\ UNCHANGED <<phase, cancelled, calls, listener, strays, waiter, pending, page>>

Probe(n) ==
  /\ attempt[n].step = "probe"
  /\ phase' \in Probed
  /\ Ends(n)
  /\ UNCHANGED <<cancelled, listener, strays, waiter, pending, page, tokens>>

\* Mutant: a cancelled wait is nobody's error.
FailedQuietly(n) ==
  /\ attempt[n].step = "failed"
  /\ Ends(n)
  /\ UNCHANGED <<phase, cancelled, listener, strays, waiter, pending, page, tokens>>

Failed(n) ==
  /\ attempt[n].step = "failed"
  /\ phase' = IF cancelled THEN phase ELSE "signedOut"
  /\ Ends(n)
  /\ UNCHANGED <<cancelled, listener, strays, waiter, pending, page, tokens>>

CancelSignIn ==
  /\ phase = "linking"
  /\ cancelled' = TRUE /\ phase' = "signedOut"
  /\ Call(<<"stop">>)
  /\ UNCHANGED <<attempt, listener, strays, waiter, pending, page, tokens>>

SignOut ==
  /\ phase \in {"ready", "blocked"}
  /\ phase' = "signedOut" /\ tokens' = 0
  /\ UNCHANGED <<cancelled, attempt, calls, listener, strays, waiter, pending, page>>

-----------------------------------------------------------------------------
(* The main process: startLoopback, awaitAuthCode, stopLoopback.           *)

Reject(waiting) == [n \in Attempts |-> IF n = waiting THEN [step |-> "failed"] ELSE attempt[n]]

\* stopLoopback; then: what the renderer's attempts hear of it.
StopLoopback(then) ==
  /\ listener' = 0 /\ waiter' = 0 /\ pending' = 0
  /\ attempt' = [n \in Attempts |-> IF n = waiter THEN [step |-> "failed"] ELSE then[n]]

TakeCall ==
  /\ calls # <<>>
  /\ calls' = Tail(calls)
  /\ LET c == Head(calls)
     IN  \/ c[1] = "start" /\ StopLoopback([attempt EXCEPT ![c[2]] = [step |-> "binding"]])
         \/ c[1] = "stop" /\ StopLoopback(attempt)
         \/ /\ c[1] = "await"
            /\ IF pending # 0
               THEN /\ Becomes(c[2], [step |-> "code", code |-> pending])
                    /\ pending' = 0 /\ UNCHANGED waiter
               ELSE attempt' = Reject(waiter) /\ waiter' = c[2] /\ UNCHANGED pending
            /\ UNCHANGED listener
  /\ UNCHANGED <<phase, cancelled, strays, page, tokens>>

\* The listen callback overwrites whatever listener there is.
Listening(n) ==
  /\ attempt[n].step = "binding"
  /\ strays' = strays \cup ({listener} \ {0})
  /\ listener' = n
  /\ Becomes(n, [step |-> "port"])
  /\ UNCHANGED <<phase, cancelled, calls, waiter, pending, page, tokens>>

Reachable(n) == n \in strays \cup {listener}

\* The user approves: the page is sent to /callback with the code.
Approve(n) ==
  /\ page[n] = "open"
  /\ page' = [page EXCEPT ![n] = "approved"]
  /\ IF Reachable(n)
     THEN IF waiter # 0
          THEN /\ Becomes(waiter, [step |-> "code", code |-> n])
               /\ waiter' = 0 /\ UNCHANGED pending
          ELSE pending' = n /\ UNCHANGED <<attempt, waiter>>
     ELSE UNCHANGED <<attempt, waiter, pending>>
  /\ UNCHANGED <<phase, cancelled, calls, listener, strays, tokens>>

-----------------------------------------------------------------------------

SignInNext ==
  \/ Boot \/ CancelSignIn \/ SignOut \/ TakeCall
  \/ \E n \in Attempts :
       \/ SignIn(n) \/ AskToListen(n) \/ OpenPage(n) \/ Opened(n) \/ GotCode(n) \/ Exchange(n)
       \/ Probe(n) \/ Failed(n) \/ Listening(n) \/ Approve(n)

SignInSpec == SignInStart /\ [][SignInNext]_signInVars

-----------------------------------------------------------------------------
(* Properties.                                                             *)

\* "Waiting for you to approve in the browser…" is shown only while it can come
\* true: an attempt is on its way, or waits behind an open listener (signIn,
\* stopLoopback, cancelSignIn).
LinkingCanEnd ==
  phase = "linking" =>
    \E n \in Attempts :
      \/ attempt[n].step \notin {"idle", "done", "waiting"}
      \/ attempt[n].step = "waiting" /\ (listener # 0 \/ calls # <<>>)

=============================================================================
