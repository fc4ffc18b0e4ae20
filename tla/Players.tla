------------------------------ MODULE Players -------------------------------
(***************************************************************************)
(* The players of the web (SecurePlayer.tsx, watch/page.tsx) and of the    *)
(* television (app.js): what they report to the progress route while they  *)
(* play, and in which order.  The route itself is Viewing's.               *)
(***************************************************************************)
EXTENDS Viewing

CONSTANTS TvPlayers, WebPlayers,
          Purchases,  \* tickets that may be bought for the film
          MaxBeats    \* bound: heartbeats a player sends

ASSUME PlayersApart == TvPlayers \cap WebPlayers = {}

VARIABLES player,
          mail,      \* heartbeats that the server has not taken up
          serving,   \* the heartbeat a request slot works on
          written    \* history: the last heartbeat of each player that was saved

playerVars == <<player, mail, serving, written>>
playersAll == <<entVars, viewingVars, playerVars>>

AllPlayers == TvPlayers \cup WebPlayers
PlayerOff == [step |-> "off"]
NoBeat == [n |-> 0]

PlayersStart ==
  /\ EntitlementsInit /\ ViewingInit
  /\ player = [p \in AllPlayers |-> PlayerOff]
  /\ mail = {}
  /\ serving = [c \in Views |-> NoBeat]
  /\ written = [p \in AllPlayers |-> 0]

PlayerIs(p, r) == player' = [player EXCEPT ![p] = r]

BuyTicketFor(u, t) ==
  /\ \E r \in Purchases \ DOMAIN ent : ent' = Granted(r, NewTicket(u, t, Never))
  /\ Stamp
  /\ UNCHANGED <<viewingVars, playerVars>>

-----------------------------------------------------------------------------
(* A player asks for the film, plays it and tells how far it is.           *)

AskForFilm(p, c, u, t) ==
  /\ player[p] = PlayerOff /\ serving[c] = NoBeat /\ written[p] = 0
  /\ BeginStart(c, u, t)
  /\ PlayerIs(p, [step |-> "asking", on |-> c])
  /\ UNCHANGED <<mail, serving, written>>

ShowFilm(p) ==
  /\ player[p].step = "asking"
  /\ LET c == player[p].on
     IN  /\ view[c].op = "playing"
         /\ PlayerIs(p, [step |-> "open", ref |-> view[c].ref, at |-> "middle", sent |-> 0,
                         ended |-> FALSE])
         /\ view' = [view EXCEPT ![c] = ViewIdle]
  /\ UNCHANGED <<entVars, progress, mail, serving, written>>

\* Refused, or answered to nobody: the player says so and offers to try again.
StartRefused(p) ==
  /\ player[p].step = "asking"
  /\ EndView(player[p].on)
  /\ PlayerIs(p, PlayerOff)
  /\ UNCHANGED <<mail, serving, written>>

PlayerLocked(p) == p \in TvPlayers /\ (player[p].ended \/ Elapsed(ent[player[p].ref].expiresAt))

\* The film runs to its end, or is sought back.
Play(p) ==
  /\ player[p].step = "open" /\ ~PlayerLocked(p)
  /\ PlayerIs(p, [player[p] EXCEPT !.at = IF @ = "middle" THEN "end" ELSE "middle"])
  /\ UNCHANGED <<entVars, viewingVars, mail, serving, written>>

\* saveProgress: every ten seconds, on pause, at the end and when the page is hidden.
\* The television's names its session, the web's none.
Beat(p) ==
  [player |-> p, n |-> player[p].sent + 1, pos |-> player[p].at, ref |-> player[p].ref,
   named |-> p \in TvPlayers, late |-> FALSE]

SendBeat(p) ==
  /\ player[p].step = "open" /\ player[p].sent < MaxBeats
  /\ mail' = mail \cup {Beat(p)}
  /\ \/ PlayerIs(p, [player[p] EXCEPT !.sent = @ + 1, !.ended = @ \/ player[p].at = "end"])
     \/ PlayerIs(p, [step |-> "closed"])
  /\ UNCHANGED <<entVars, viewingVars, serving, written>>

-----------------------------------------------------------------------------
(* Delivery: the television waits for an answer before it sends the next,  *)
(* twenty seconds at most; the server may still handle what came late.     *)

\* What player p has queued, or waits for.
Outstanding(p) ==
  {b \in mail : b.player = p /\ ~b.late}
  \cup {serving[c] : c \in {d \in Views : /\ serving[d] # NoBeat
                                         /\ serving[d].player = p /\ ~serving[d].late}}

\* Mutant: heartbeats go out as they come.
TurnAlways(b) == TRUE

\* progressQueue: "Preserve order so a slower old heartbeat cannot overwrite the final position."
Turn(b) ==
  b.player \in WebPlayers \/ b.late \/ \A x \in Outstanding(b.player) : b.n <= x.n

\* ontimeout: the request is given up, whatever the server makes of it.
TimeOut(b) ==
  /\ b.player \in TvPlayers /\ b \in Outstanding(b.player) /\ Turn(b)
  /\ LET late == [b EXCEPT !.late = TRUE]
     IN  /\ mail' = IF b \in mail THEN (mail \ {b}) \cup {late} ELSE mail
         /\ serving' = [c \in Views |-> IF serving[c] = b THEN late ELSE serving[c]]
  /\ UNCHANGED <<entVars, viewingVars, player, written>>

Accepts(b, c) ==
  /\ \E u \in Viewers, t \in Movies : BeginSave(c, u, t, b.pos)
  /\ IF b.named THEN view'[c].ref = b.ref
     ELSE Cardinality(TicketsOf(ent[b.ref].user, ent[b.ref].title)) = 1

Deliver(b, c) ==
  /\ b \in mail /\ Turn(b) /\ serving[c] = NoBeat
  /\ Accepts(b, c)
  /\ mail' = mail \ {b} /\ serving' = [serving EXCEPT ![c] = b]
  /\ UNCHANGED <<player, written>>

Acceptable(b) ==
  \E r \in FindUsable(ent[b.ref].user, ent[b.ref].title) :
    IF b.named THEN r = b.ref ELSE Cardinality(TicketsOf(ent[r].user, ent[r].title)) = 1

\* The route says 403, or the request is lost: the players go on without it.
Refuse(b) ==
  /\ b \in mail /\ Turn(b) /\ ~Acceptable(b)
  /\ mail' = mail \ {b}
  /\ UNCHANGED <<entVars, viewingVars, player, serving, written>>

LoseBeat(b) ==
  /\ b \in mail /\ Turn(b) /\ Acceptable(b)
  /\ mail' = mail \ {b}
  /\ UNCHANGED <<entVars, viewingVars, player, serving, written>>

WriteBeat(c) ==
  /\ serving[c] # NoBeat
  /\ \/ SaveProgress(c) /\ written' = [written EXCEPT ![serving[c].player] = serving[c].n]
     \/ (CompleteViewing(c) \/ EndView(c)) /\ UNCHANGED written
  /\ serving' = IF view'[c] = ViewIdle THEN [serving EXCEPT ![c] = NoBeat] ELSE serving
  /\ UNCHANGED <<player, mail>>

ServeStart(c) ==
  /\ ReadProgress(c) \/ ResumeViewing(c) \/ OpenViewing(c) \/ StartPlaying(c)
  /\ UNCHANGED playerVars

PlayersNext ==
  \/ \E u \in Viewers, t \in Titles :
       \/ BuyTicketFor(u, t)
       \/ \E p \in AllPlayers, c \in Views : AskForFilm(p, c, u, t)
  \/ \E p \in AllPlayers : ShowFilm(p) \/ StartRefused(p) \/ Play(p) \/ SendBeat(p)
  \/ \E b \in mail : Refuse(b) \/ LoseBeat(b) \/ \E c \in Views : Deliver(b, c)
  \/ \E p \in TvPlayers : \E b \in Outstanding(p) : TimeOut(b)
  \/ \E c \in Views : WriteBeat(c) \/ ServeStart(c)
  \/ Tick /\ UNCHANGED <<viewingVars, playerVars>>

PlayersSpec == PlayersStart /\ [][PlayersNext]_playersAll

-----------------------------------------------------------------------------
(* Properties.                                                             *)

\* "Preserve order so a slower old heartbeat cannot overwrite the final position":
\* what a television player reported last is saved last, as long as its requests are
\* answered in time.  Only one that the player had given up on (xhr.timeout) may still
\* be saved after a newer one (saveProgress, progressQueue).
BeatsInOrder ==
  [][\A p \in TvPlayers :
       written'[p] < written[p] =>
         \E c \in Views : /\ serving[c] # NoBeat /\ serving[c].player = p /\ serving[c].late
                         /\ written'[p] = serving[c].n]_playersAll

\* "Backend uses these to detect single-view completion": the end of a film that is
\* played with a usable ticket is not turned away (SecurePlayer's saveProgress).
EndIsTaken ==
  [][\A b \in mail :
       /\ b \notin mail' /\ serving' = serving /\ b.pos = "end" /\ b.player \in WebPlayers
       /\ FindUsable(ent[b.ref].user, ent[b.ref].title) = {b.ref}
       => Acceptable(b)]_playersAll

=============================================================================
