---------------------------- MODULE MCTicketLife ----------------------------
(***************************************************************************)
(* Three scenarios of a ticket's life, chosen at the start: two users buy  *)
(* one film, a viewer watches a free film, a viewer watches a series.      *)
(* Each is bounded to the films, buyers and requests it is about.          *)
(***************************************************************************)
EXTENDS Tickets, SeriesViewing, TLC

CONSTANTS film, matinee

VARIABLE part
allVars == <<vars, seriesVars, part>>

MCPrice == film :> 2 @@ matinee :> 0 @@ Series :> 0

ShopEnds == 3    \* bound: the shop's clock
ViewEnds == 4    \* bound: the film viewer's clock
PlayEnds == 5    \* bound: the series viewer's clock
LoneEnds == 3    \* bound: the same, while there is one ticket
LossEnds == 3    \* bound: until then episodes lose their video or are deleted
\* Bounds: the episode of the first release keeps its video; one request at a
\* time counts the closed ones, and one heartbeat is under way.

Start == Init /\ SeriesInit /\ part \in {"shop", "film", "series"}

InShop ==
  /\ now <= ShopEnds
  /\ \A r \in DOMAIN purchase : r[1] # "apple"

\* One request to the shop at a time, never with coins.
AtTheFilm ==
  /\ now <= ViewEnds
  /\ \A c \in Orders : order[c].op # "checked"
  /\ Cardinality({c \in Orders : order[c] # OrderIdle}) <= 1

OneViewer == {CHOOSE u \in Viewers : TRUE}

Shopping == OrdersOf(Users, {film}) /\ UNCHANGED <<viewingVars, seriesVars>>

WatchingTheFilm ==
  /\ \/ OrdersOf(OneViewer, {matinee}) /\ UNCHANGED viewingVars
     \/ ViewsOf(OneViewer, {matinee}) /\ UNCHANGED <<ledgerVars, commerceVars>>
  /\ UNCHANGED seriesVars

\* The tickets of the series are bought at Apple, each with its purchase.
MCSeriesTickets == {AppleRef(c) : c \in Orders}

Counting(c) == watch[c].op \in {"settling", "playableCounted", "closedCounted"}

Beating(c) == watch[c].op \in {"checking", "saving", "completing"}

WatchingTheSeries ==
  /\ WatchedBy(OneViewer) /\ FirstRelease \subseteq playable'
  /\ now' <= IF DOMAIN ent' = MCSeriesTickets THEN PlayEnds ELSE LoneEnds
  /\ now > LossEnds => playable \subseteq playable' /\ deleted' = deleted
  /\ Cardinality({c \in Watches : Counting(c)'}) <= 1
  /\ Cardinality({c \in Watches : Beating(c)'}) <= 1
  /\ purchase' = [r \in DOMAIN ent' |->
       [buyer |-> ent'[r].user, user |-> ent'[r].user, title |-> ent'[r].title, status |-> "PAID"]]
  /\ UNCHANGED <<ledgerVars, charge, order, viewingVars>>

Step ==
  /\ UNCHANGED part
  /\ \/ part = "shop" /\ Shopping /\ InShop'
     \/ part = "film" /\ WatchingTheFilm /\ AtTheFilm'
     \/ part = "series" /\ WatchingTheSeries

TicketLifeSpec == Start /\ [][Step]_allVars

\* One film bought and watched; a cfg leaves the ways to pay it is not about out.
BuyingAndWatching ==
  /\ \/ OrdersOf(Users, {film}) /\ UNCHANGED viewingVars
     \/ ViewsOf(Users, {film}) /\ UNCHANGED <<ledgerVars, commerceVars>>
  /\ UNCHANGED <<seriesVars, part>>

TicketsOnly == Start /\ part = "shop" /\ [][BuyingAndWatching]_allVars

-----------------------------------------------------------------------------

\* Orders also make the series' tickets and Views are also Watches: no part uses both.
Symmetry == Permutations(Orders) \cup Permutations(Views)

=============================================================================
