------------------------------ MODULE MCSignIn ------------------------------
(***************************************************************************)
(* Three scenarios, chosen at the start: all the ways into one account on  *)
(* the server, the television's session over that server, and the desktop  *)
(* studio being signed in through the browser.                             *)
(***************************************************************************)
EXTENDS TvClient, StudioSignIn, TLC

VARIABLE part
allVars == <<tvAll, signInVars, part>>

MaxPairs == 2    \* bound: sessions ever created while no television is used

NoTelevision == tv.access = 0 /\ ~tv.user

\* Apple's identities are resolved by the same code as Google's: they come to an
\* account that has no code and no link, from one request at a time.
AppleRequests == {c \in SignCalls : "provider" \in DOMAIN req[c] /\ req[c].provider = "APPLE"}
AppleApart ==
  AppleRequests # {} \/ (\E e \in Emails : credential[<<"APPLE", e>>] # None) =>
    /\ issued = 0 /\ (\A l \in 1..MaxLinks : link[l] = NoRow)
    /\ Cardinality({c \in SignCalls : req[c] # Resting}) <= 1

Start ==
  /\ part \in {"accounts", "tv", "studio"}
  /\ IF part = "tv" THEN TvStart ELSE AccountsInit /\ TvAppInit /\ NoTelevision
  /\ SignInStart
  /\ part # "studio" => tokens = 0

Step ==
  /\ UNCHANGED part
  /\ \/ /\ part = "accounts" /\ AccountsNext /\ UNCHANGED <<tvVars, signInVars>>
        /\ \A s \in 1..MaxSessions : s > MaxPairs => session'[s] = NoRow
        /\ AppleApart'
     \/ part = "tv" /\ TvNext /\ UNCHANGED signInVars
     \/ part = "studio" /\ SignInNext /\ UNCHANGED tvAll

SignInRunSpec == Start /\ [][Step]_allVars

Symmetry == Permutations(SignCalls) \cup Permutations(TvCalls)

=============================================================================
