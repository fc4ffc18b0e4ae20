----------------------------- MODULE CoinService ----------------------------
(***************************************************************************)
(* What the coin wallet promises its users, with no tables, requests or    *)
(* gateway: a bought top-up is credited once, and a transfer key moves     *)
(* coins the sender has, once, to one other user.                          *)
(***************************************************************************)
EXTENDS Integers

CONSTANTS Users, TopupRefs, TopupAmounts, TransferKeys, TransferAmounts

VARIABLES worth,     \* coins of each user, net of debt
          credited,  \* top-ups that have been credited
          sent       \* the transfer each sender made under each key

vars == <<worth, credited, sent>>

Unsent == [coins |-> 0]

Init ==
  /\ worth = [u \in Users |-> 0]
  /\ credited = {}
  /\ sent = [s \in Users |-> [k \in TransferKeys |-> Unsent]]

Credit(r, u, n) ==
  /\ r \notin credited
  /\ credited' = credited \cup {r}
  /\ worth' = [worth EXCEPT ![u] = @ + n]
  /\ UNCHANGED sent

Send(s, k, r, n) ==
  /\ s # r
  /\ sent[s][k] = Unsent
  /\ worth[s] >= n
  /\ sent' = [sent EXCEPT ![s][k] = [coins |-> n]]
  /\ worth' = [worth EXCEPT ![s] = @ - n, ![r] = @ + n]
  /\ UNCHANGED credited

Next ==
  \/ \E r \in TopupRefs, u \in Users, n \in TopupAmounts : Credit(r, u, n)
  \/ \E s, r \in Users, k \in TransferKeys, n \in TransferAmounts : Send(s, k, r, n)

Spec == Init /\ [][Next]_vars

=============================================================================
