-------------------------- MODULE SeriesPublishing --------------------------
(***************************************************************************)
(* AdminSeriesService: one series that admins edit at the same time.  A    *)
(* write to the title row reads it, merges one change and saves every      *)
(* column; the season count is such a write, made after each season write; *)
(* removals of a video count what remains under a lock on the title row.   *)
(***************************************************************************)
EXTENDS Integers, FiniteSets

CONSTANTS Episodes,
          Seasons,   \* the episodes of each season, as a set of sets
          Texts,     \* what the metadata may say
          Edits      \* slots for admin requests

ASSUME PublishingConstants == IsFiniteSet(Seasons)

VARIABLES series,    \* its row in catalogue_titles: metadata, status, season count
          seasons,   \* season rows
          episodes,  \* episode rows
          withVideo, \* those with a video
          edit,      \* requests in flight
          apart      \* history: no two requests overlapped, and no count was lost

publishingVars == <<series, seasons, episodes, withVideo, edit, apart>>
treeVars == <<seasons, episodes, withVideo>>

EditIdle == [op |-> "idle"]
NoSeries == [status |-> "missing"]
Changes == {[column |-> "meta", value |-> x] : x \in Texts}
           \cup {[column |-> "status", value |-> x] : x \in {"draft", "published"}}

\* create: a draft without seasons.
PublishingInit ==
  /\ \E x \in Texts : series = [meta |-> x, status |-> "draft", seasons |-> 0]
  /\ seasons = {} /\ episodes = {} /\ withVideo = {}
  /\ edit = [c \in Edits |-> EditIdle]
  /\ apart = TRUE

Busy == {c \in Edits : edit[c] # EditIdle}

Open(c, r) ==
  /\ edit[c] = EditIdle
  /\ edit' = [edit EXCEPT ![c] = r]
  /\ apart' = (apart /\ Busy = {})

Go(c, r) == edit' = [edit EXCEPT ![c] = r] /\ UNCHANGED apart

\* Mutant: the title row is not locked.
SeriesLockedNever == FALSE

\* Writes of the row, and new seasons that refer to it, wait for a removal that
\* holds the title's lock.
SeriesLocked == \E c \in Edits : edit[c].op = "remove"

-----------------------------------------------------------------------------
(* The title row.                                                          *)

Publishes(change) == change.column = "status" /\ change.value = "published"

\* update: "Publishing requires a playable episode", judged before the write.
BeginSave(c, change) ==
  /\ series # NoSeries
  /\ Publishes(change) /\ series.status # "published" => withVideo # {}
  /\ Open(c, [op |-> "merge", change |-> change])
  /\ UNCHANGED <<series, treeVars>>

\* The repository reads the row once more and merges the change into it.
MergeSeries(c) ==
  /\ edit[c].op = "merge" /\ series # NoSeries
  /\ Go(c, [op |-> "save", change |-> edit[c].change,
            row |-> [series EXCEPT ![edit[c].change.column] = edit[c].change.value]])
  /\ UNCHANGED <<series, treeVars>>

\* save: an upsert of every column, also of a series that is gone by now.
SaveSeries(c) ==
  /\ edit[c].op = "save" /\ ~SeriesLocked
  /\ series' = edit[c].row
  /\ Go(c, EditIdle)
  /\ UNCHANGED treeVars

\* syncSeasonCount: counts, then writes like any update.
CountSeasons(c) ==
  /\ edit[c].op = "count"
  /\ Go(c, [op |-> "merge",
            change |-> [column |-> "seasons", value |-> Cardinality(seasons)]])
  /\ UNCHANGED <<series, treeVars>>

\* delete: seasons and episodes cascade.
DeleteSeries ==
  /\ series # NoSeries /\ ~SeriesLocked
  /\ series' = NoSeries
  /\ seasons' = {} /\ episodes' = {} /\ withVideo' = {}
  /\ apart' = (apart /\ Busy = {})
  /\ UNCHANGED edit

-----------------------------------------------------------------------------
(* Seasons, episodes and videos.                                           *)

\* A second season of the same number is refused.
CreateSeason(c, s) ==
  /\ series # NoSeries /\ ~SeriesLocked
  /\ s \notin seasons
  /\ seasons' = seasons \cup {s}
  /\ Open(c, [op |-> "count"])
  /\ UNCHANGED <<series, episodes, withVideo>>

CreateEpisode(e) ==
  /\ e \notin episodes
  /\ \E s \in seasons : e \in s
  /\ episodes' = episodes \cup {e}
  /\ UNCHANGED <<series, seasons, withVideo, edit, apart>>

\* updateEpisode with a video key.
SetVideo(e) ==
  /\ e \in episodes
  /\ withVideo' = withVideo \cup {e}
  /\ UNCHANGED <<series, seasons, episodes, edit, apart>>

\* A removal: one video cleared, one episode deleted, or a season with all its
\* episodes.
Removals == {[seasons |-> {}, rows |-> {}, videos |-> {e}] : e \in episodes}
            \cup {[seasons |-> {}, rows |-> {e}, videos |-> {e}] : e \in episodes}
            \cup {[seasons |-> {s}, rows |-> s, videos |-> s] : s \in seasons}

\* assertStillPlayable: lock the title, then count what would remain.
BeginRemove(c, removal) ==
  /\ ~SeriesLocked
  /\ series.status = "published" => withVideo \ removal.videos # {}
  /\ Open(c, [op |-> "remove", removal |-> removal])
  /\ UNCHANGED <<series, treeVars>>

\* Mutant: deleteSeason does not count.
CommitRemoveUncounted(c) ==
  /\ edit[c].op = "remove"
  /\ seasons' = seasons \ edit[c].removal.seasons
  /\ episodes' = episodes \ edit[c].removal.rows
  /\ withVideo' = withVideo \ edit[c].removal.videos
  /\ Go(c, EditIdle)
  /\ UNCHANGED series

\* The removal and the end of its lock; after a season the count.
CommitRemove(c) ==
  /\ edit[c].op = "remove"
  /\ seasons' = seasons \ edit[c].removal.seasons
  /\ episodes' = episodes \ edit[c].removal.rows
  /\ withVideo' = withVideo \ edit[c].removal.videos
  /\ Go(c, IF edit[c].removal.seasons = {} THEN EditIdle ELSE [op |-> "count"])
  /\ UNCHANGED series

-----------------------------------------------------------------------------

\* Between a season's row and its count.
Counting(c) ==
  \/ edit[c].op = "count"
  \/ edit[c].op \in {"merge", "save"} /\ edit[c].change.column = "seasons"

\* A step that throws, or a process that dies.
EndEdit(c) ==
  /\ edit[c] # EditIdle
  /\ edit' = [edit EXCEPT ![c] = EditIdle]
  /\ apart' = (apart /\ ~Counting(c))
  /\ UNCHANGED <<series, treeVars>>

PublishingNext ==
  \/ \E e \in Episodes : CreateEpisode(e) \/ SetVideo(e)
  \/ \E c \in Edits :
       \/ MergeSeries(c) \/ SaveSeries(c) \/ CountSeasons(c) \/ CommitRemove(c) \/ EndEdit(c)
       \/ \E change \in Changes : BeginSave(c, change)
       \/ \E s \in Seasons : CreateSeason(c, s)
       \/ \E removal \in Removals : BeginRemove(c, removal)
  \/ DeleteSeries

PublishingSpec == PublishingInit /\ [][PublishingNext]_publishingVars

-----------------------------------------------------------------------------
(* Properties.                                                             *)

Rows == [meta : Texts, status : {"draft", "published"}, seasons : Nat]

PublishingTypeOK ==
  /\ series \in Rows \cup {NoSeries}
  /\ seasons \subseteq Seasons /\ withVideo \subseteq episodes /\ episodes \subseteq Episodes
  /\ \A c \in Edits :
       \/ edit[c].op \in {"idle", "count", "remove"}
       \/ /\ edit[c].op \in {"merge", "save"}
          /\ edit[c].change \in Changes \cup [column : {"seasons"}, value : Nat]
          /\ edit[c].op = "save" => edit[c].row \in Rows

\* Admins who remove different episodes of a published series at the same time
\* never leave ticket holders with nothing to watch: the last video goes only
\* when the series is a draft, or with the series (assertStillPlayable, delete).
LastVideoStays ==
  [][series.status = "published" /\ withVideo # {} =>
       withVideo' # {} \/ series' = NoSeries]_<<series, withVideo>>

\* "CatalogueTitle.seasons stays a derived season count", and "a published series
\* must keep at least one episode with a video", as long as requests came one
\* after the other and none broke off before its count was saved: whatever order
\* seasons, metadata, publications and removals came in (update, syncSeasonCount).
SeriesIsWhole ==
  apart /\ Busy = {} /\ series # NoSeries =>
    /\ series.seasons = Cardinality(seasons)
    /\ series.status = "published" => withVideo # {}

=============================================================================
