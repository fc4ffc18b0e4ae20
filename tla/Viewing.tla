------------------------------ MODULE Viewing -------------------------------
(***************************************************************************)
(* PlaybackService for films: opening the single viewing window, player    *)
(* heartbeats that save the position and consume the ticket at the end,    *)
(* and the entitlement list that writes expiry back.  `view` holds the     *)
(* requests in flight and the sessions their answers opened.               *)
(***************************************************************************)
EXTENDS Entitlements

CONSTANTS Movies,  \* titles with a video of their own: start refuses the others
          Views    \* slots for requests and players

ASSUME ViewingConstants == Movies \subseteq Titles

VARIABLES progress,  \* playback_progress: a row per viewer and title
          view

viewingVars == <<progress, view>>

ViewIdle == [op |-> "idle"]
NoRow    == [pos |-> "none"]
Unread   == [pos |-> "unread"]

\* Below and from the completion threshold.  A progress row also says `by` the
\* player of which ticket it was reported (a history, not in the table).
Positions == {"middle", "end"}

ViewingInit ==
  /\ progress = [u \in Viewers |-> [t \in Titles |-> NoRow]]
  /\ view = [c \in Views |-> ViewIdle]

-----------------------------------------------------------------------------

\* start sends two reads at once: the newest usable ticket (startViewing) and
\* the progress row.  This is the first one; the row is still unread.
BeginStart(c, u, t) ==
  /\ view[c] = ViewIdle
  /\ \E r \in FindUsable(u, t) :
       view' = [view EXCEPT ![c] =
         [op |-> "starting", ref |-> r, startedAt |-> ent[r].startedAt, row |-> Unread]]
  /\ UNCHANGED <<entVars, progress>>

RowOf(r) == progress[ent[r].user][ent[r].title]

\* The row may arrive before the ticket's window is stamped or after it.
ReadProgress(c) ==
  /\ view[c].op \in {"starting", "started"} /\ view[c].row = Unread
  /\ view' = [view EXCEPT ![c].row = RowOf(view[c].ref)]
  /\ UNCHANGED <<entVars, progress>>

\* startViewing on a ticket whose window was open when it was read.
ResumeViewing(c) ==
  /\ view[c].op = "starting" /\ view[c].startedAt # Never
  /\ view' = [view EXCEPT ![c].op = "started"]
  /\ UNCHANGED <<entVars, progress>>

\* startViewing on a ticket read as unopened: stamp the window.
OpenViewing(c) ==
  /\ view[c].op = "starting" /\ view[c].startedAt = Never
  /\ ent' = Opened(view[c].ref)
  /\ view' = [view EXCEPT ![c].op = "started", ![c].startedAt = now]
  /\ Stamp
  /\ UNCHANGED progress

\* Progress written since the window opened belongs to this ticket; at the end
\* of the film there is nothing to resume.
Resumes(row, startedAt) ==
  row # NoRow /\ row.updatedAt >= startedAt /\ row.pos = "middle"

\* start, its answer: the player and where it resumes.
StartPlaying(c) ==
  /\ view[c].op = "started" /\ view[c].row # Unread
  /\ LET v == view[c]
     IN  view' = [view EXCEPT ![c] =
           [op |-> "playing", ref |-> v.ref,
            resumed |-> IF Resumes(v.row, v.startedAt) THEN {v.row.by} ELSE {}]]
  /\ UNCHANGED <<entVars, progress>>

\* Mutant: a heartbeat is taken for whatever ticket is usable now.
BeginSaveAnySession(c, u, t, pos) ==
  /\ view[c] = ViewIdle
  /\ \E r \in FindUsable(u, t) :
       view' = [view EXCEPT ![c] = [op |-> "saving", ref |-> r, pos |-> pos]]
  /\ UNCHANGED <<entVars, progress>>

\* saveProgress, the check: the heartbeat names the ticket it plays; one of an
\* old app names none and is accepted while the viewer has had one ticket only.
BeginSave(c, u, t, pos) ==
  /\ view[c] = ViewIdle
  /\ \E r \in FindUsable(u, t) :
       /\ ent[r].startedAt # Never \/ Cardinality(TicketsOf(u, t)) = 1
       /\ view' = [view EXCEPT ![c] = [op |-> "saving", ref |-> r, pos |-> pos]]
  /\ UNCHANGED <<entVars, progress>>

\* saveProgress, the upsert: keyed by viewer and title, not by ticket.
SaveProgress(c) ==
  /\ view[c].op = "saving"
  /\ LET r == view[c].ref
     IN  progress' = [progress EXCEPT ![ent[r].user][ent[r].title] =
           [pos |-> view[c].pos, updatedAt |-> now, by |-> r]]
  /\ view' = [view EXCEPT ![c] =
                IF view[c].pos = "end" THEN [op |-> "completing", ref |-> view[c].ref]
                ELSE ViewIdle]
  /\ Stamp
  /\ UNCHANGED ent

\* saveProgress at the completion threshold: the ticket is used up.
CompleteViewing(c) ==
  /\ view[c].op = "completing"
  /\ ent' = Consumed(view[c].ref)
  /\ view' = [view EXCEPT ![c] = ViewIdle]
  /\ UNCHANGED <<now, progress>>

\* listForUser: the read, and the update of the rows it found to have expired.
BeginList(c, u) ==
  /\ view[c] = ViewIdle
  /\ ExpiredOf(u) # {}
  /\ view' = [view EXCEPT ![c] = [op |-> "listing", rows |-> ExpiredOf(u)]]
  /\ UNCHANGED <<entVars, progress>>

WriteExpired(c) ==
  /\ view[c].op = "listing"
  /\ ent' = Expired(view[c].rows)
  /\ view' = [view EXCEPT ![c] = ViewIdle]
  /\ UNCHANGED <<now, progress>>

ClearProgress(u, t) ==
  /\ progress[u][t] # NoRow
  /\ progress' = [progress EXCEPT ![u][t] = NoRow]
  /\ UNCHANGED <<entVars, view>>

\* The player closes, or the request dies before its next step.
EndView(c) ==
  /\ view[c] # ViewIdle
  /\ view' = [view EXCEPT ![c] = ViewIdle]
  /\ UNCHANGED <<entVars, progress>>

\* The viewers us with the films ts.
ViewsOf(us, ts) ==
  \/ \E c \in Views :
       \/ \E u \in us :
            \/ BeginList(c, u)
            \/ \E t \in ts :
                 BeginStart(c, u, t) \/ \E pos \in Positions : BeginSave(c, u, t, pos)
       \/ ReadProgress(c) \/ ResumeViewing(c) \/ OpenViewing(c) \/ StartPlaying(c)
       \/ SaveProgress(c) \/ CompleteViewing(c) \/ WriteExpired(c) \/ EndView(c)
  \/ \E u \in us, t \in ts : ClearProgress(u, t)
  \/ Tick /\ UNCHANGED viewingVars

ViewingNext == ViewsOf(Viewers, Movies)

-----------------------------------------------------------------------------
(* Properties.                                                             *)

ProgressRow == {NoRow} \cup [pos : Positions, updatedAt : Times, by : DOMAIN ent]

ViewingTypeOK ==
  /\ EntitlementsTypeOK
  /\ progress \in [Viewers -> [Titles -> ProgressRow]]
  /\ \A c \in Views :
       view[c].op \in {"starting", "started", "playing", "saving", "completing"} =>
         view[c].ref \in DOMAIN ent

Rebought(r) ==
  \E s \in TicketsOf(ent[r].user, ent[r].title) : ent[s].createdAt < ent[r].createdAt

\* A completion heartbeat uses up the ticket it was played with and no other: a
\* ticket bought again for the same film is never CONSUMED before it is opened
\* (saveProgress checks the session, consume is by id).
UnplayedTicketIsKept ==
  \A r \in DOMAIN ent :
    ent[r].title \in Movies /\ Rebought(r) /\ ent[r].startedAt = Never
      => ent[r].status # "CONSUMED"

\* "Old progress from a previous ticket must not resume a fresh purchase": a
\* player only resumes where a player of the same ticket left off.
ResumesOwnTicket ==
  \A c \in Views : view[c].op = "playing" => view[c].resumed \subseteq {view[c].ref}

=============================================================================
