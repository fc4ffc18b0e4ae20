---------------------------- MODULE SeriesViewing ---------------------------
(***************************************************************************)
(* PlaybackService for series: one ticket buys the series, each episode is *)
(* watchable once under it.  There is one playback row for a viewer and an *)
(* episode, reused by the tickets bought later; `watch` holds the requests *)
(* in flight with what they have read.  The studio gives episodes videos,  *)
(* takes them away and deletes episodes meanwhile.                         *)
(***************************************************************************)
EXTENDS Entitlements

CONSTANTS Series,       \* the series, one of Titles
          Episodes,
          FirstRelease, \* episodes with a video at the start
          Tickets,      \* purchases of the series that may be made
          Watches       \* slots for requests

ASSUME SeriesConstants ==
  Series \in Titles /\ IsFiniteSet(Episodes) /\ FirstRelease \in SUBSET Episodes

VARIABLES playable,  \* episodes with a video
          deleted,   \* episodes that are gone, with their playback rows
          playback,  \* episode_playback
          watch,
          ended      \* history: which tickets' players reported an episode's end

shelf == <<playable, deleted>>
seriesVars == <<shelf, playback, watch, ended>>

WatchIdle == [op |-> "idle"]
NoPlay    == [startedAt |-> Never, expiresAt |-> Never, consumed |-> FALSE]

SeriesInit ==
  /\ EntitlementsInit
  /\ playable = FirstRelease /\ deleted = {}
  /\ playback = [u \in Viewers |-> [e \in Episodes |-> NoPlay]]
  /\ watch = [c \in Watches |-> WatchIdle]
  /\ ended = {}

\* belongsToTicket: a window opened before the ticket was bought is left over.
Belongs(row, r) == row.startedAt # Never /\ row.startedAt >= ent[r].createdAt

EpisodeClosed(row) == row.consumed \/ Elapsed(row.expiresAt)

RowNow(c) == playback[watch[c].user][watch[c].episode]

Goto(c, op) == watch' = [watch EXCEPT ![c].op = op]

-----------------------------------------------------------------------------
(* The catalogue and the shop, as far as they matter here.                 *)

\* updateEpisode gives an episode a video, or takes its video away; the rows of
\* its viewings stay.  Any episode may go dark: the rule that a published series
\* keeps a video (SeriesPublishing) does not bind an unpublished one.
SetVideo(e) ==
  /\ e \notin playable \cup deleted
  /\ playable' = playable \cup {e}
  /\ UNCHANGED <<entVars, deleted, playback, watch, ended>>

ClearVideo(e) ==
  /\ e \in playable
  /\ playable' = playable \ {e}
  /\ UNCHANGED <<entVars, deleted, playback, watch, ended>>

\* deleteEpisode, or deleteSeason its episodes: the rows go with them.
DeleteEpisodes(es) ==
  /\ es \cap deleted = {}
  /\ playable' = playable \ es /\ deleted' = deleted \cup es
  /\ playback' = [u \in Viewers |-> [e \in Episodes |->
                    IF e \in es THEN NoPlay ELSE playback[u][e]]]
  /\ UNCHANGED <<entVars, watch, ended>>

\* purchaseWithCoins: a ticket for a viewer who has no usable one.  A checkout
\* paid late grants a second one all the same (Commerce, OneActivePerTitle); here
\* tickets are bought with coins.
BuyWithCoins(u, r) ==
  /\ r \notin DOMAIN ent
  /\ Usable(u, Series) = {}
  /\ ent' = Granted(r, NewTicket(u, Series, Never))
  /\ Stamp
  /\ UNCHANGED seriesVars

-----------------------------------------------------------------------------
(* startEpisode.                                                           *)

BeginEpisode(c, u, e) ==
  /\ watch[c] = WatchIdle
  /\ e \in playable
  /\ \E r \in FindUsable(u, Series) :
       watch' = [watch EXCEPT ![c] = [op |-> "opening", user |-> u, episode |-> e, ref |-> r]]
  /\ UNCHANGED <<entVars, shelf, playback, ended>>

\* openEpisodeWindow, the first read: an open window is resumed, a closed one
\* refused (after settling the series), otherwise a start is stamped.
ReadPlayback(c) ==
  /\ watch[c].op = "opening"
  /\ IF Belongs(RowNow(c), watch[c].ref)
     THEN /\ Goto(c, IF EpisodeClosed(RowNow(c)) THEN "settling" ELSE "playing")
          /\ UNCHANGED now
     ELSE /\ watch' = [watch EXCEPT ![c] =
               [op |-> "upserting", user |-> @.user, episode |-> @.episode,
                ref |-> @.ref, stamp |-> now]]
          /\ Stamp
  /\ UNCHANGED <<ent, shelf, playback, ended>>

Fresh(stamp) == [startedAt |-> stamp, expiresAt |-> stamp + Window, consumed |-> FALSE]

WriteRow(c, row) ==
  playback' = [playback EXCEPT ![watch[c].user][watch[c].episode] = row]

\* The upsert: it creates the row, or returns the one that is there.  It fails
\* for an episode deleted since.
UpsertPlayback(c) ==
  /\ watch[c].op = "upserting" /\ watch[c].episode \notin deleted
  /\ IF RowNow(c) = NoPlay
     THEN WriteRow(c, Fresh(watch[c].stamp)) /\ Goto(c, "rereading")
     ELSE /\ UNCHANGED playback
          /\ IF Belongs(RowNow(c), watch[c].ref) THEN Goto(c, "rereading")
             ELSE watch' = [watch EXCEPT ![c] =
                    [op |-> "resetting", user |-> @.user, episode |-> @.episode,
                     ref |-> @.ref, stamp |-> @.stamp, seen |-> RowNow(c).startedAt]]
  /\ UNCHANGED <<entVars, shelf, ended>>

\* Mutant: the row is reset whoever has reset it in the meantime.
ResetPlaybackAnyway(c) ==
  /\ watch[c].op = "resetting"
  /\ WriteRow(c, Fresh(watch[c].stamp))
  /\ Goto(c, "rereading")
  /\ UNCHANGED <<entVars, shelf, ended>>

\* A row of an earlier ticket is reset, if it is still the one that was seen.
ResetPlayback(c) ==
  /\ watch[c].op = "resetting"
  /\ IF RowNow(c).startedAt = watch[c].seen
     THEN WriteRow(c, Fresh(watch[c].stamp)) ELSE UNCHANGED playback
  /\ Goto(c, "rereading")
  /\ UNCHANGED <<entVars, shelf, ended>>

RereadPlayback(c) ==
  /\ watch[c].op = "rereading"
  /\ Goto(c, IF Belongs(RowNow(c), watch[c].ref) /\ ~EpisodeClosed(RowNow(c))
             THEN "playing" ELSE "settling")
  /\ UNCHANGED <<entVars, shelf, playback, ended>>

-----------------------------------------------------------------------------
(* saveEpisodeProgress.                                                    *)

\* The read of the row; heartbeats after completion are answered at once.
\* `session` is the ticket the player was started with.
ReadRow(c, u, e, session, atEnd) ==
  /\ watch[c] = WatchIdle
  /\ playback[u][e] # NoPlay /\ ~playback[u][e].consumed
  /\ session \in TicketsOf(u, Series)
  /\ watch' = [watch EXCEPT ![c] =
       [op |-> "checking", user |-> u, episode |-> e, ref |-> session,
        atEnd |-> atEnd, row |-> playback[u][e]]]
  /\ ended' = IF atEnd THEN ended \cup {<<session, e>>} ELSE ended
  /\ UNCHANGED <<entVars, shelf, playback>>

\* The ticket must be the usable one, and the row read must be its own window.
CheckSave(c) ==
  /\ watch[c].op = "checking"
  /\ watch[c].ref \in FindUsable(watch[c].user, Series)
  /\ Belongs(watch[c].row, watch[c].ref)
  /\ ~EpisodeClosed(watch[c].row)
  /\ Goto(c, "saving")
  /\ UNCHANGED <<entVars, shelf, playback, ended>>

\* Mutant: any window that is not consumed will do.
SameWindowAny(c) == ~RowNow(c).consumed

SameWindow(c) == RowNow(c).startedAt = watch[c].row.startedAt /\ ~RowNow(c).consumed

\* The position, and at the threshold the completion: each a conditional update.
WritePosition(c) ==
  /\ watch[c].op = "saving"
  /\ SameWindow(c)
  /\ IF watch[c].atEnd THEN Goto(c, "completing")
     ELSE watch' = [watch EXCEPT ![c] = WatchIdle]
  /\ UNCHANGED <<entVars, shelf, playback, ended>>

CompleteEpisode(c) ==
  /\ watch[c].op = "completing"
  /\ SameWindow(c)
  /\ WriteRow(c, [RowNow(c) EXCEPT !.consumed = TRUE])
  /\ Goto(c, "settling")
  /\ UNCHANGED <<entVars, shelf, ended>>

-----------------------------------------------------------------------------
(* settleSeries, from a refused start, a completion or a status request.   *)

AskStatus(c, u) ==
  /\ watch[c] = WatchIdle
  /\ \E r \in FindUsable(u, Series) :
       watch' = [watch EXCEPT ![c] = [op |-> "settling", user |-> u, ref |-> r]]
  /\ UNCHANGED <<entVars, shelf, playback, ended>>

ClosedUnder(u, e, r) == Belongs(playback[u][e], r) /\ EpisodeClosed(playback[u][e])

\* Mutant: an episode without a video counts among the closed.
ClosedOfAny(c) == {e \in Episodes : ClosedUnder(watch[c].user, e, watch[c].ref)}

ClosedOf(c) == {e \in playable : ClosedUnder(watch[c].user, e, watch[c].ref)}

\* With both numbers in hand.  The request keeps the sets that were counted: the
\* playable ones, and those playable when the closed ones were counted (`among`).
Decided(c, counted, among, closed) ==
  watch' = [watch EXCEPT ![c] =
    IF counted # {} /\ Cardinality(closed) >= Cardinality(counted)
    THEN [op |-> "consuming", ref |-> @.ref, counted |-> counted, among |-> among]
    ELSE WatchIdle]

\* The two counts of the Promise.all: separate queries, in either order.
CountPlayable(c) ==
  /\ \/ /\ watch[c].op = "settling"
        /\ watch' = [watch EXCEPT ![c] = [op |-> "playableCounted", user |-> @.user,
                                         ref |-> @.ref, counted |-> playable]]
     \/ /\ watch[c].op = "closedCounted"
        /\ Decided(c, playable, watch[c].among, watch[c].closed)
  /\ UNCHANGED <<entVars, shelf, playback, ended>>

CountClosed(c) ==
  /\ \/ /\ watch[c].op = "settling"
        /\ watch' = [watch EXCEPT ![c] = [op |-> "closedCounted", user |-> @.user, ref |-> @.ref,
                                         among |-> playable, closed |-> ClosedOf(c)]]
     \/ /\ watch[c].op = "playableCounted"
        /\ Decided(c, watch[c].counted, playable, ClosedOf(c))
  /\ UNCHANGED <<entVars, shelf, playback, ended>>

ConsumeSeries(c) ==
  /\ watch[c].op = "consuming"
  /\ ent' = Consumed(watch[c].ref)
  /\ watch' = [watch EXCEPT ![c] = WatchIdle]
  /\ UNCHANGED <<now, shelf, playback, ended>>

\* The answer is read, the request is refused, or its process dies.
EndWatch(c) ==
  /\ watch[c] # WatchIdle
  /\ watch' = [watch EXCEPT ![c] = WatchIdle]
  /\ UNCHANGED <<entVars, shelf, playback, ended>>

\* The viewers us.
WatchedBy(us) ==
  \/ \E e \in Episodes : SetVideo(e) \/ ClearVideo(e)
  \/ \E es \in SUBSET Episodes \ {{}} : DeleteEpisodes(es)
  \/ \E u \in us, r \in Tickets : BuyWithCoins(u, r)
  \/ \E c \in Watches :
       \/ \E u \in us :
            \/ AskStatus(c, u)
            \/ \E e \in Episodes :
                 \/ BeginEpisode(c, u, e)
                 \/ \E session \in Tickets, atEnd \in BOOLEAN : ReadRow(c, u, e, session, atEnd)
       \/ ReadPlayback(c) \/ UpsertPlayback(c) \/ ResetPlayback(c) \/ RereadPlayback(c)
       \/ CheckSave(c) \/ WritePosition(c) \/ CompleteEpisode(c)
       \/ CountPlayable(c) \/ CountClosed(c) \/ ConsumeSeries(c) \/ EndWatch(c)
  \/ Tick /\ UNCHANGED seriesVars

SeriesNext == WatchedBy(Viewers)

SeriesSpec == SeriesInit /\ [][SeriesNext]_<<entVars, seriesVars>>

-----------------------------------------------------------------------------
(* Properties.                                                             *)

PlayRow == [startedAt : Times \cup {Never}, expiresAt : Times \cup {Never}, consumed : BOOLEAN]

SeriesTypeOK ==
  /\ EntitlementsTypeOK
  /\ playable \subseteq Episodes /\ deleted \subseteq Episodes
  /\ playback \in [Viewers -> [Episodes -> PlayRow]]
  /\ \A c \in Watches : watch[c].op # "idle" => watch[c].ref \in DOMAIN ent
  /\ ended \subseteq Tickets \X Episodes

\* A window that was opened is replaced, and a watched episode reopened, only
\* for a ticket bought after that window began: under one ticket an episode has
\* one window and one viewing, however starts, heartbeats and purchases race
\* (openEpisodeWindow, saveEpisodeProgress), until the episode itself is deleted.
EpisodeOncePerTicket ==
  [][\A u \in Viewers, e \in Episodes :
       LET old == playback[u][e]
           new == playback'[u][e]
       IN  old # NoPlay /\ (new.startedAt # old.startedAt \/ old.consumed # new.consumed)
             => \/ \E r \in TicketsOf(u, Series) :
                     old.startedAt < ent[r].createdAt /\ ent[r].createdAt <= new.startedAt
                \/ new = [old EXCEPT !.consumed = TRUE]
                \/ new = NoPlay /\ e \in deleted']_playback

Owners(u, row) ==
  {r \in TicketsOf(u, Series) :
     /\ Belongs(row, r)
     /\ \A s \in TicketsOf(u, Series) : Belongs(row, s) => ent[s].createdAt <= ent[r].createdAt}

\* A watched episode was watched with the ticket its window was opened for: a
\* viewer who bought the series again never loses an episode to a heartbeat of
\* the old player (saveEpisodeProgress compares session and window); the tables
\* stay well typed.
WatchedWithItsTicket ==
  SeriesTypeOK /\ \A u \in Viewers, e \in Episodes :
    playback[u][e].consumed => \A r \in Owners(u, playback[u][e]) : <<r, e>> \in ended

\* "when EVERY playable episode [...] is closed for this ticket": whichever request
\* settles the series, a ticket is used up only when each episode that was counted
\* as playable (there is one) has been watched or has run out under it, or is gone
\* (settleSeries).  The one way round is a video set between the count of the
\* playable episodes and that of the closed ones, or taken away between the two in
\* the other order: then an episode is among the second and not the first, and it
\* can make up for one still open.
TicketUsedUp ==
  [][\A r \in DOMAIN ent :
       ent[r].title = Series /\ ent[r].status = "ACTIVE" /\ ent'[r].status = "CONSUMED" =>
         \E c \in Watches :
           /\ watch[c].op = "consuming" /\ watch[c].ref = r /\ watch'[c] # watch[c]
           /\ watch[c].counted # {}
           /\ watch[c].among \subseteq watch[c].counted =>
                \A e \in watch[c].counted \ deleted : ClosedUnder(ent[r].user, e, r)]_ent

=============================================================================
