--------------------------- MODULE GooglePlayCoins --------------------------
(***************************************************************************)
(* GooglePlayCoinsService.confirm: verify the purchase token with the      *)
(* store, credit the wallet, then consume the token.  The store is         *)
(* external; the two calls to it and the transaction between them are      *)
(* separate steps, and a request may die after any of them.                *)
(***************************************************************************)
EXTENDS CoinLedger

CONSTANTS Tokens,      \* purchase tokens the store has issued
          TokenOwner,  \* the account each purchase is bound to
          TokenCoins,  \* the coins of the pack it bought
          PlayCalls    \* slots for requests in flight

ASSUME PlayConstants ==
  /\ TokenOwner \in [Tokens -> Users]
  /\ TokenCoins \in [Tokens -> Nat \ {0}]

VARIABLES playTopup,  \* coin_topups with provider GOOGLE_PLAY: those PAID
          consumed,   \* the store's consumptionState
          playCall    \* requests in flight

playVars == <<playTopup, consumed, playCall>>

PlayIdle == [step |-> "idle"]

PlayInit ==
  /\ playTopup = {}
  /\ consumed = {}
  /\ playCall = [c \in PlayCalls |-> PlayIdle]

\* verifyPurchase: what the store says about consumption is kept to the end.
VerifyPurchase(c, t) ==
  /\ playCall[c] = PlayIdle
  /\ playCall' = [playCall EXCEPT ![c] =
       [step |-> "verified", token |-> t, wasConsumed |-> t \in consumed]]
  /\ UNCHANGED <<ledgerVars, playTopup, consumed>>

\* The lookup before the transaction: a consumed token we never credited is
\* refused (EndPlayCall); one we did credit goes on to the transaction.
LookUp(c) ==
  /\ playCall[c].step = "verified"
  /\ playCall[c].wasConsumed => playCall[c].token \in playTopup
  /\ playCall' = [playCall EXCEPT ![c].step = "looked"]
  /\ UNCHANGED <<ledgerVars, playTopup, consumed>>

\* The transaction: an existing row, or losing the unique-key race for it,
\* leaves everything as it is.
CreditPurchase(c) ==
  /\ playCall[c].step = "looked"
  /\ LET t == playCall[c].token
     IN  IF t \in playTopup THEN UNCHANGED <<ledgerVars, playTopup>>
         ELSE /\ playTopup' = playTopup \cup {t}
              /\ Post({Write(TokenOwner[t], "TOPUP", TokenCoins[t], <<"google_play", t>>)})
  /\ playCall' = [playCall EXCEPT ![c].step = "credited"]
  /\ UNCHANGED consumed

\* Mutant: consume first, then credit.
ConsumePurchaseFirst(c) ==
  /\ playCall[c].step = "looked"
  /\ consumed' = IF playCall[c].wasConsumed THEN consumed
                 ELSE consumed \cup {playCall[c].token}
  /\ UNCHANGED <<ledgerVars, playTopup, playCall>>

\* Consume last, and only a token that was not consumed when it was verified.
ConsumePurchase(c) ==
  /\ playCall[c].step = "credited"
  /\ consumed' = IF playCall[c].wasConsumed THEN consumed
                 ELSE consumed \cup {playCall[c].token}
  /\ playCall' = [playCall EXCEPT ![c] = PlayIdle]
  /\ UNCHANGED <<ledgerVars, playTopup>>

\* The request is refused, its call to the store fails, or its process dies.
EndPlayCall(c) ==
  /\ playCall[c] # PlayIdle
  /\ playCall' = [playCall EXCEPT ![c] = PlayIdle]
  /\ UNCHANGED <<ledgerVars, playTopup, consumed>>

Confirming(c) ==
  \/ \E t \in Tokens : VerifyPurchase(c, t)
  \/ LookUp(c) \/ CreditPurchase(c) \/ ConsumePurchase(c)

PlayNext == \E c \in PlayCalls : Confirming(c) \/ EndPlayCall(c)

-----------------------------------------------------------------------------
(* Properties.                                                             *)

PlayTypeOK ==
  /\ playTopup \subseteq Tokens
  /\ consumed \subseteq Tokens
  /\ playCall \in [PlayCalls ->
       {PlayIdle} \cup [step : {"verified", "looked", "credited"}, token : Tokens,
                        wasConsumed : BOOLEAN]]

\* The store never hears "consumed" of a purchase whose coins are not in the
\* ledger: a crash between the two leaves a token that a retry settles (confirm,
\* "credit first, then consume").
ConsumedIsCredited ==
  \A t \in consumed :
    \E e \in ledger : /\ e.key = <<"google_play", t>>
                      /\ e.user = TokenOwner[t]
                      /\ e.delta = TokenCoins[t]

=============================================================================
