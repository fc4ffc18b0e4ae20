----------------------------- MODULE Streaming ------------------------------
(***************************************************************************)
(* Adaptive streams: offline encoders publish a build of a video behind a  *)
(* marker, and the API hands out signed playlists of the marked build,     *)
(* with a short cache of markers and a bounded cache of playlists.         *)
(***************************************************************************)
EXTENDS Integers, FiniteSets, FiniteSetsExt

CONSTANTS Builds,      \* build ids (randomUUID)
          Encoders,    \* encode-hls processes
          Streamers,     \* players, one request at a time each
          Size,        \* bytes of a playlist, by name
          Segments, FirstSegment, \* names of media segments
          Capacity,    \* bytes the playlist cache may hold
          ReadyTtl,    \* 30 seconds
          PlayTtl,     \* 4 hours
          PrepareTtl,  \* 2 minutes
          TicketEnds,  \* when a viewer's ticket may end
          StreamEnd, MaxFingerprint, MaxCrashes, \* bounds
          None

Playlists == DOMAIN Size
HlsFiles == Playlists \cup Segments

ASSUME StreamingConstants ==
  /\ {"master", "360p"} \subseteq Playlists /\ FirstSegment \in Segments
  /\ \A p \in Playlists : Size[p] \in Nat /\ Size[p] <= Capacity
  /\ {ReadyTtl, PlayTtl, PrepareTtl} \subseteq Nat \ {0} /\ TicketEnds \subseteq Int
  /\ Capacity \in Nat

VARIABLES source,   \* fingerprint of the stored video
          encodable, \* fingerprints the profile supports
          encoder,  \* what each encoder is doing
          stored,   \* files stored of each build
          marker,   \* ready.json
          ready,    \* readyCache of the API process
          playlist, \* playlistCache and playlistCacheBytes
          viewer, streamNow, crashes

encodeVars == <<source, encodable, encoder, stored, marker, crashes>>
deliverVars == <<ready, playlist, viewer>>
streamVars == <<encodeVars, deliverVars, streamNow>>

EncoderIdle == [step |-> "idle", unsupported |-> {}]
Watching == [step |-> "watching", link |-> None]

StreamingInit ==
  /\ source = 1 /\ encodable \in SUBSET (1..MaxFingerprint)
  /\ encoder = [e \in Encoders |-> EncoderIdle]
  /\ stored = [b \in Builds |-> {}]
  /\ marker = None
  /\ ready = None
  /\ playlist = [held |-> {}, bytes |-> 0]
  /\ viewer = [v \in Streamers |-> Watching]
  /\ streamNow = 0 /\ crashes = 0

-----------------------------------------------------------------------------
(* encode.                                                                 *)

In(e, step) == encoder[e].step = step
EGoto(e, fields) ==
  encoder' = [encoder EXCEPT ![e] =
    [x \in DOMAIN fields \cup {"unsupported"} |->
       IF x \in DOMAIN fields THEN fields[x] ELSE @.unsupported]]
Stop(e) == EGoto(e, [step |-> "idle"])

\* HEAD of the source; a fingerprint found unsupported is not tried again.
BeginEncode(e) ==
  /\ In(e, "idle") /\ source \notin encoder[e].unsupported
  /\ EGoto(e, [step |-> "marker", fingerprint |-> source])
  /\ UNCHANGED <<source, encodable, stored, marker, crashes>>

MarkerIs(f) == marker # None /\ marker.fingerprint = f

AlreadyEncoded(e) ==
  /\ In(e, "marker")
  /\ MarkerIs(encoder[e].fingerprint)
  /\ Stop(e)
  /\ UNCHANGED <<source, encodable, stored, marker, crashes>>

\* The download asks for the fingerprint that was seen; a build id is drawn.
Download(e) ==
  /\ In(e, "marker")
  /\ ~MarkerIs(encoder[e].fingerprint)
  /\ IF source # encoder[e].fingerprint THEN Stop(e)
     ELSE \E b \in Builds :
            /\ \A f \in Encoders : "build" \in DOMAIN encoder[f] => encoder[f].build # b
            /\ stored[b] = {}
            /\ EGoto(e, [step |-> "transcode", fingerprint |-> source, build |-> b])
  /\ UNCHANGED <<source, encodable, stored, marker, crashes>>

Transcode(e) ==
  /\ In(e, "transcode")
  /\ IF encoder[e].fingerprint \in encodable
     THEN EGoto(e, [encoder[e] EXCEPT !.step = "publish"])
     ELSE EGoto(e, [step |-> "idle",
                    unsupported |-> encoder[e].unsupported \cup {encoder[e].fingerprint}])
  /\ UNCHANGED <<source, encodable, stored, marker, crashes>>

\* "Publish all immutable objects first": one file after another, in any order.
PublishFile(e) ==
  /\ In(e, "publish")
  /\ \E f \in HlsFiles \ stored[encoder[e].build] :
       stored' = [stored EXCEPT ![encoder[e].build] = @ \cup {f}]
  /\ UNCHANGED <<source, encodable, encoder, marker, crashes>>

\* Mutant: the marker is put once the master playlist is stored.
RecheckEarly(e) ==
  /\ In(e, "publish") /\ "master" \in stored[encoder[e].build]
  /\ IF source = encoder[e].fingerprint THEN EGoto(e, [encoder[e] EXCEPT !.step = "mark"])
     ELSE Stop(e)
  /\ UNCHANGED <<source, encodable, stored, marker, crashes>>

\* "Refuse to publish if a mutable source was replaced while it was encoding."
Recheck(e) ==
  /\ In(e, "publish") /\ stored[encoder[e].build] = HlsFiles
  /\ IF source = encoder[e].fingerprint THEN EGoto(e, [encoder[e] EXCEPT !.step = "mark"])
     ELSE Stop(e)
  /\ UNCHANGED <<source, encodable, stored, marker, crashes>>

PutMarker(e) ==
  /\ In(e, "mark")
  /\ marker' = [fingerprint |-> encoder[e].fingerprint, build |-> encoder[e].build]
  /\ Stop(e)
  /\ UNCHANGED <<source, encodable, stored, crashes>>

\* The process dies, or a call fails, at any step; the memo dies with the process.
EncoderStops(e) ==
  /\ ~In(e, "idle") /\ crashes < MaxCrashes
  /\ crashes' = crashes + 1
  /\ \/ encoder' = [encoder EXCEPT ![e] = EncoderIdle]
     \/ Stop(e)
  /\ UNCHANGED <<source, encodable, stored, marker>>

\* A presigned PUT that is used a second time.
ReplaceSource ==
  /\ source < MaxFingerprint
  /\ source' = source + 1
  /\ UNCHANGED <<encodable, encoder, stored, marker, crashes>>

EncodeNext ==
  \/ ReplaceSource
  \/ \E e \in Encoders :
       \/ BeginEncode(e) \/ AlreadyEncoded(e) \/ Download(e) \/ Transcode(e)
       \/ PublishFile(e) \/ Recheck(e) \/ PutMarker(e) \/ EncoderStops(e)

-----------------------------------------------------------------------------
(* AdaptiveMediaService.playbackUrl.                                       *)

VGoto(v, fields) == viewer' = [viewer EXCEPT ![v] = fields]

\* The link a ready build gives; none when it would already have ended.
LinkFor(build, end, scope) ==
  LET ttl == IF scope = "prepare" THEN PrepareTtl ELSE PlayTtl
      expires == Min({end, streamNow + ttl})
  IN  IF build = None \/ expires <= streamNow THEN None
      ELSE [build |-> build, file |-> IF scope = "prepare" THEN "360p" ELSE "master",
            scope |-> scope, expires |-> expires, end |-> end]

FreshList(r) == r # None /\ r.until >= streamNow

\* A viewer without a link asks for playback; without a fresh marker it is read.
AskPlayback(v, end, scope) ==
  /\ viewer[v].step = "watching"
  /\ IF FreshList(ready) THEN VGoto(v, [step |-> "watching", link |-> LinkFor(ready.build, end, scope)])
     ELSE VGoto(v, [step |-> "asking", end |-> end, scope |-> scope])
  /\ UNCHANGED <<ready, playlist>>

\* The marker arrives, or storage does not answer and the original is played.
ReadMarker(v) ==
  /\ viewer[v].step = "asking"
  /\ \E build \in {None} \cup (IF marker = None THEN {} ELSE {marker.build}) :
       /\ ready' = [until |-> streamNow + ReadyTtl, build |-> build]
       /\ VGoto(v, [step |-> "watching", link |-> LinkFor(build, viewer[v].end, viewer[v].scope)])
  /\ UNCHANGED playlist

-----------------------------------------------------------------------------
(* The playlist route: verify, readText, rewrite of every child.           *)

Live(v) == viewer[v].step = "watching" /\ viewer[v].link # None /\ viewer[v].link.expires > streamNow

\* Links in a playlist end when it does.
Child(link, file) == [link EXCEPT !.file = file]

\* A preparation sees the first segment only.
ChildrenOf(link) ==
  IF link.scope = "prepare" THEN {Child(link, FirstSegment)}
  ELSE IF link.file = "master" THEN {Child(link, p) : p \in Playlists \ {"master"}}
  ELSE {Child(link, s) : s \in Segments}

Name(link) == <<link.build, link.file>>

FetchCached(v) ==
  /\ Live(v) /\ viewer[v].link.file \in Playlists /\ Name(viewer[v].link) \in playlist.held
  /\ \E child \in ChildrenOf(viewer[v].link) : VGoto(v, [step |-> "watching", link |-> child])
  /\ UNCHANGED <<ready, playlist>>

BeginFetch(v) ==
  /\ Live(v) /\ viewer[v].link.file \in Playlists /\ Name(viewer[v].link) \notin playlist.held
  /\ VGoto(v, [step |-> "fetching", link |-> viewer[v].link])
  /\ UNCHANGED <<ready, playlist>>

Bytes(held) == SumFunction([n \in held |-> Size[n[2]]])

\* Room is made by dropping the oldest playlists; one that came in meanwhile, and was
\* kept, is not counted again.
Admit(n) ==
  \E out \in SUBSET playlist.held :
    LET kept == playlist.held \ out
        bytes == playlist.bytes - Bytes(out)
    IN  /\ bytes + Size[n[2]] <= Capacity \/ kept = {}
        /\ \A x \in out : bytes + Size[x[2]] + Size[n[2]] > Capacity
        /\ playlist' = IF n \in kept THEN [held |-> kept, bytes |-> bytes]
                       ELSE [held |-> kept \cup {n}, bytes |-> bytes + Size[n[2]]]

\* The object is read whole, or the request fails and the player keeps its link.
Fetched(v) ==
  /\ viewer[v].step = "fetching"
  /\ LET link == viewer[v].link
     IN  \/ /\ link.file \in stored[link.build]
            /\ Admit(Name(link))
            /\ \E child \in ChildrenOf(link) : VGoto(v, [step |-> "watching", link |-> child])
         \/ VGoto(v, [step |-> "watching", link |-> link]) /\ UNCHANGED playlist
  /\ UNCHANGED ready

\* A segment is served by a redirect to a storage URL of at least one second.
Redirect(v) ==
  /\ Live(v) /\ viewer[v].link.file \in Segments
  /\ LET link == viewer[v].link
         life == Max({1, Min({PlayTtl, link.expires - streamNow})})
     IN  VGoto(v, [step |-> "streaming", link |-> [link EXCEPT !.expires = streamNow + life]])
  /\ UNCHANGED <<ready, playlist>>

Rest(v) ==
  /\ viewer[v].step = "streaming"
  /\ VGoto(v, Watching)
  /\ UNCHANGED <<ready, playlist>>

DeliverNext ==
  \E v \in Streamers :
    \/ \E end \in TicketEnds, scope \in {"play", "prepare"} : AskPlayback(v, end, scope)
    \/ ReadMarker(v) \/ FetchCached(v) \/ BeginFetch(v) \/ Fetched(v) \/ Redirect(v) \/ Rest(v)

StreamTick == streamNow < StreamEnd /\ streamNow' = streamNow + 1

StreamingNext ==
  \/ EncodeNext /\ UNCHANGED <<deliverVars, streamNow>>
  \/ DeliverNext /\ UNCHANGED <<encodeVars, streamNow>>
  \/ StreamTick /\ UNCHANGED <<encodeVars, deliverVars>>

StreamingSpec == StreamingInit /\ [][StreamingNext]_streamVars

-----------------------------------------------------------------------------
\* "Only ready.json switches readers to a complete build" (encode-hls.ts): whatever a
\* player is handed, every file of that build is stored, with encoders that crash, race
\* each other or work on a source that changes under them.
HandedOutIsWhole ==
  \A v \in Streamers :
    ("link" \in DOMAIN viewer[v] /\ viewer[v].link # None) => stored[viewer[v].link.build] = HlsFiles

\* No link outlives the ticket it was made for: not the master playlist, not its
\* children, not the storage URL behind a segment, which may run one second over
\* (playbackUrl, playlist, remoteSegmentUrl).
LinksEndWithTicket ==
  \A v \in Streamers :
    ("link" \in DOMAIN viewer[v] /\ viewer[v].link # None) =>
      viewer[v].link.expires <= viewer[v].link.end

\* The byte counter of the playlist cache is what it holds, however many requests miss
\* the same playlist at once, and stays within 8 MB (readText).
CacheIsAccounted ==
  /\ playlist.bytes = Bytes(playlist.held)
  /\ playlist.bytes <= Capacity

\* "Only ready.json switches readers to a complete build": whatever link a player holds,
\* its build is whole, it ends with the ticket, and the playlists kept for it are counted
\* once (encode, playbackUrl, playlist, readText).
LinksHold == HandedOutIsWhole /\ LinksEndWithTicket /\ CacheIsAccounted

=============================================================================
