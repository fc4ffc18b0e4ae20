------------------------------- MODULE Tickets ------------------------------
(***************************************************************************)
(* Buying tickets and watching films with them, over one table of tickets. *)
(***************************************************************************)
EXTENDS Commerce, Viewing

vars == <<ledgerVars, entVars, commerceVars, viewingVars>>

Init == CommerceInit /\ ViewingInit

Next == \/ CommerceNext /\ UNCHANGED viewingVars
        \/ ViewingNext  /\ UNCHANGED <<ledgerVars, commerceVars>>

Spec == Init /\ [][Next]_vars

TypeOK == CommerceTypeOK /\ ViewingTypeOK

\* Whoever holds a ticket had it paid for, and whoever paid coins holds it, whatever
\* retries, webhooks and crashes did (markPaid, grant, ensureEntitlement,
\* purchaseWithCoins), in well-typed tables.
TicketsMatchPayments == TicketsArePaidFor /\ CoinsBuyTickets /\ TypeOK

\* "so different taps cannot buy the same active ticket twice" (purchaseWithCoins), and
\* test coins are not spent twice over (purchaseWithSandboxCoins).
TapsBuyOnce == NoTicketTwice /\ SandboxNeverOverspends

=============================================================================
