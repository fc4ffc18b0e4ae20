----------------------------- MODULE TvScreens ------------------------------
(***************************************************************************)
(* The television app's screens and its player (app.js, movie-intro.js):     *)
(* a screen is drawn when its requests are answered, a film starts after   *)
(* the server, the intro clip and the viewer had their turn.  Every answer  *)
(* may come after the viewer has gone elsewhere.                           *)
(***************************************************************************)
EXTENDS Integers, Sequences

CONSTANTS Pages,      \* screens other than a film's own
          Films,      \* film and series screens
          MaxEpoch,   \* bound: how often a screen is drawn
          MaxHistory  \* bound: screens remembered for Back

ASSUME ScreenConstants ==
  /\ MaxEpoch \in Nat
  /\ (Pages \cup Films) \cap {"loading", "error", "none"} = {}

VARIABLES epoch, route, history,
          shown,     \* what the view holds: a screen, "loading" or "error"
          drawing,   \* render calls in flight: the screen by their epoch
          detail,    \* the film loaded with the screen, "none" if none
          acting,    \* the action under way, "none" if none
          opening,   \* startPlayback, as far as it got
          intro,     \* movieIntro: "none", "runs", "done" or "cancelled"
          tvPlayer

screenVars == <<epoch, route, history, shown, drawing, detail, acting, opening, intro, tvPlayer>>

Screens == Pages \cup Films
NotOpening == [step |-> "none"]
NoPlayer == [on |-> "none"]

ScreensStart ==
  /\ epoch = 0 /\ route \in Pages /\ history = <<>>
  /\ shown = "loading" /\ drawing = [e \in 1..MaxEpoch |-> "none"]
  /\ detail = "none" /\ acting = "none" /\ opening = NotOpening
  /\ intro = "none" /\ tvPlayer = NoPlayer

\* The intro covers the screen and takes the keys while it runs, the player does after it.
ScreenInReach == intro # "runs" /\ tvPlayer = NoPlayer

-----------------------------------------------------------------------------
(* render.                                                                 *)

\* Called from where the screen is to become r.
Render(r) ==
  /\ epoch < MaxEpoch
  /\ epoch' = epoch + 1
  /\ detail' = "none" /\ shown' = "loading"
  /\ drawing' = [drawing EXCEPT ![epoch + 1] = r]

Current(e) == e = epoch

\* The answers are in; a screen nobody waits for any more is not drawn.
Draw(e) ==
  /\ drawing[e] # "none"
  /\ drawing' = [drawing EXCEPT ![e] = "none"]
  /\ IF Current(e)
     THEN /\ shown' = drawing[e]
          /\ detail' = IF drawing[e] \in Films THEN drawing[e] ELSE detail
     ELSE UNCHANGED <<shown, detail>>
  /\ UNCHANGED <<epoch, route, history, acting, opening, intro, tvPlayer>>

CancelIntro == intro' = IF intro = "runs" THEN "cancelled" ELSE intro

\* An answer is an error: the intro is cancelled, whoever's answer it was.
DrawError(e) ==
  /\ drawing[e] # "none"
  /\ drawing' = [drawing EXCEPT ![e] = "none"]
  /\ shown' = IF Current(e) THEN "error" ELSE shown
  /\ CancelIntro
  /\ UNCHANGED <<epoch, route, history, detail, acting, opening, tvPlayer>>

Navigate(r) ==
  /\ ScreenInReach /\ r # route
  /\ Len(history) < MaxHistory
  /\ history' = Append(history, route) /\ route' = r
  /\ Render(r)
  /\ UNCHANGED <<acting, opening, intro, tvPlayer>>

Retry ==
  /\ ScreenInReach
  /\ Render(route)
  /\ UNCHANGED <<route, history, acting, opening, intro, tvPlayer>>

Back ==
  /\ ScreenInReach /\ history # <<>>
  /\ route' = history[Len(history)]
  /\ history' = SubSeq(history, 1, Len(history) - 1)
  /\ Render(route')
  /\ UNCHANGED <<acting, opening, intro, tvPlayer>>

\* stopPlayback, by Back or "Back to film" in the player: the film's screen is drawn again.
LeavePlayer ==
  /\ tvPlayer # NoPlayer /\ intro # "runs"
  /\ tvPlayer' = NoPlayer
  /\ Render(route)
  /\ UNCHANGED <<route, history, acting, opening, intro>>

\* Back while the intro runs: stopPlayback and no more.
LeaveIntro ==
  /\ intro = "runs"
  /\ intro' = "cancelled" /\ tvPlayer' = NoPlayer
  /\ UNCHANGED <<epoch, route, history, shown, drawing, detail, acting, opening>>

-----------------------------------------------------------------------------
(* Actions that wait for the server, one at a time (acting).               *)

\* save and free: the screen is drawn again if it is still the same.
BeginAction ==
  /\ ScreenInReach /\ acting = "none" /\ detail # "none" /\ shown = detail
  /\ acting' = "saving" /\ opening' = [step |-> "saving", epoch |-> epoch]
  /\ UNCHANGED <<epoch, route, history, shown, drawing, detail, intro, tvPlayer>>

EndAction ==
  /\ acting = "saving"
  /\ acting' = "none" /\ opening' = NotOpening
  /\ IF opening.epoch = epoch THEN Render(route) \/ UNCHANGED <<epoch, detail, shown, drawing>>
     ELSE UNCHANGED <<epoch, detail, shown, drawing>>
  /\ UNCHANGED <<route, history, intro, tvPlayer>>

\* startPlayback: the intro starts at once, then the resume point is asked for.
Watch(trailer) ==
  /\ ScreenInReach /\ acting = "none" /\ detail # "none" /\ shown = detail
  /\ acting' = "watching"
  /\ intro' = IF trailer THEN "none" ELSE "runs"
  /\ opening' = [step |-> IF trailer THEN "start" ELSE "resume", epoch |-> epoch,
                 film |-> detail, trailer |-> trailer]
  /\ UNCHANGED <<epoch, route, history, shown, drawing, detail, tvPlayer>>

\* The clip ends, is skipped, cannot play, or lasts five seconds.
IntroEnds ==
  /\ intro = "runs"
  /\ intro' = "done"
  /\ UNCHANGED <<epoch, route, history, shown, drawing, detail, acting, opening, tvPlayer>>

\* Mutant: the film starts wherever the viewer is by now.
AbandonedNever == FALSE

\* The viewer left the film's screen, or cancelled the intro.
Abandoned == opening.epoch # epoch \/ intro = "cancelled"

GiveUp ==
  /\ acting' = "none" /\ opening' = NotOpening
  /\ intro' = "none"
  /\ UNCHANGED tvPlayer

Resumed ==
  /\ opening.step = "resume"
  /\ IF Abandoned THEN GiveUp
     ELSE opening' = [opening EXCEPT !.step = "start"] /\ UNCHANGED <<acting, intro, tvPlayer>>
  /\ UNCHANGED <<epoch, route, history, shown, drawing, detail>>

\* The session is there: the player takes the place of the screens.
Started ==
  /\ opening.step = "start"
  /\ IF Abandoned THEN GiveUp
     ELSE /\ tvPlayer' = [on |-> opening.film, epoch |-> opening.epoch,
                        introActive |-> ~opening.trailer, playing |-> FALSE]
          /\ opening' = [opening EXCEPT !.step = "intro"]
          /\ UNCHANGED <<acting, intro>>
  /\ UNCHANGED <<epoch, route, history, shown, drawing, detail>>

StartFails ==
  /\ opening.step \in {"resume", "start"}
  /\ acting' = "none" /\ opening' = NotOpening /\ intro' = "none"
  /\ UNCHANGED <<epoch, route, history, shown, drawing, detail, tvPlayer>>

\* The intro is over: the film plays, unless the player is closed or the intro cancelled.
IntroOver ==
  /\ opening.step = "intro" /\ intro # "runs"
  /\ tvPlayer' = IF tvPlayer = NoPlayer \/ intro = "cancelled" THEN tvPlayer
               ELSE [tvPlayer EXCEPT !.introActive = FALSE, !.playing = TRUE]
  /\ acting' = "none" /\ opening' = NotOpening /\ intro' = "none"
  /\ UNCHANGED <<epoch, route, history, shown, drawing, detail>>

\* playVideo and pause from the remote.
Toggle ==
  /\ tvPlayer # NoPlayer /\ intro # "runs" /\ ~tvPlayer.introActive
  /\ tvPlayer' = [tvPlayer EXCEPT !.playing = ~@]
  /\ UNCHANGED <<epoch, route, history, shown, drawing, detail, acting, opening, intro>>

-----------------------------------------------------------------------------

ScreensNext ==
  \/ \E e \in 1..MaxEpoch : Draw(e) \/ DrawError(e)
  \/ \E r \in Screens : Navigate(r)
  \/ Retry \/ Back \/ LeavePlayer \/ LeaveIntro \/ BeginAction \/ EndAction
  \/ \E trailer \in BOOLEAN : Watch(trailer)
  \/ IntroEnds \/ Resumed \/ Started \/ StartFails \/ IntroOver \/ Toggle

ScreensSpec == ScreensStart /\ [][ScreensNext]_screenVars

-----------------------------------------------------------------------------
(* Properties.                                                             *)

\* A screen that was asked for earlier and answered later never replaces the one
\* the viewer went to, and the buttons of a film act on the film on the screen
\* (render, detail).
ShownIsWanted ==
  /\ shown \in Screens => shown = route
  /\ detail # "none" => detail = route

\* A film never starts over a screen the viewer went to while it was being
\* prepared (startPlayback).
PlayerIsWanted ==
  tvPlayer # NoPlayer => tvPlayer.epoch = epoch /\ tvPlayer.on = route

\* Neither a screen nor a player that was asked for earlier appears when the viewer has
\* gone on meanwhile (render, startPlayback: both compare the epoch after each await).
ScreenIsWanted == ShownIsWanted /\ PlayerIsWanted

=============================================================================
