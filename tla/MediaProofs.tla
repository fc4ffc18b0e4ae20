---------------------------- MODULE MediaProofs -----------------------------
(***************************************************************************)
(* Media, for any number of builds, files, encoders and players and any    *)
(* crashes: nobody is handed a link into an unfinished build.  For any     *)
(* number of uploads, keys and files: only whole files are attached, and   *)
(* no multipart upload is forgotten.  For any films and requests: late     *)
(* answers never reach the screen of another film.  For any runs of the    *)
(* studio's video processor: what it offers is whole.                      *)
(***************************************************************************)
EXTENDS Streaming, Uploads, TvScreens, Enhancement, SumLemmas, TLAPS

Whole(b) == b \in Builds /\ stored[b] = HlsFiles

LinkIntoWhole(l) == "build" \in DOMAIN l /\ Whole(l.build)

Encoding(e) == encoder[e].step \in {"transcode", "publish", "mark"}

\* A player that watches, fetches or streams has a link or None, a fetching one
\* a link; and every link leads into a whole build.
WellHeld(r) ==
  /\ r.step \in {"watching", "fetching", "streaming"} => "link" \in DOMAIN r
  /\ r.step = "fetching" => r.link # None
  /\ "link" \in DOMAIN r /\ r.link # None => LinkIntoWhole(r.link)

\* Files are only added, and only those of a build.
FilesInv == stored \in [Builds -> SUBSET HlsFiles]

\* An encoder that works has drawn a build; one that is about to put the
\* marker has stored all of it.
EncoderInv ==
  /\ encoder = [e \in Encoders |-> encoder[e]]
  /\ \A e \in Encoders : Encoding(e) => {"step", "build"} \subseteq DOMAIN encoder[e]
  /\ \A e \in Encoders : Encoding(e) => encoder[e].build \in Builds
  /\ \A e \in Encoders : encoder[e].step = "mark" => Whole(encoder[e].build)

\* What is handed on is whole: the marker, its cached copy, the players' links.
MarkedInv == marker # None => Whole(marker.build)
ReadyInv == ready # None /\ ready.build # None => Whole(ready.build)
ViewerInv ==
  /\ viewer = [v \in Streamers |-> viewer[v]]
  /\ \A v \in Streamers : WellHeld(viewer[v])

StreamInv == FilesInv /\ EncoderInv /\ MarkedInv /\ ReadyInv /\ ViewerInv

-----------------------------------------------------------------------------
(* Helpers.                                                                *)

\* EGoto changes one encoder, and gives it the fields named.
LEMMA EGotoFields ==
  ASSUME NEW e \in Encoders, NEW fields, EGoto(e, fields),
         encoder = [d \in Encoders |-> encoder[d]]
  PROVE  /\ encoder' = [d \in Encoders |-> encoder'[d]]
         /\ \A d \in Encoders \ {e} : encoder'[d] = encoder[d]
         /\ DOMAIN encoder'[e] = DOMAIN fields \cup {"unsupported"}
         /\ \A x \in DOMAIN fields : encoder'[e][x] = fields[x]
BY DEF EGoto

\* An encoder that is done, or fails, has no part in the invariant.
LEMMA StopKeeps ==
  ASSUME NEW e \in Encoders, EncoderInv, FilesInv, UNCHANGED stored,
         NEW fields, EGoto(e, fields), DOMAIN fields \subseteq {"step", "unsupported", "fingerprint"},
         "step" \in DOMAIN fields, fields["step"] \in {"idle", "marker"}
  PROVE  EncoderInv'
<1>1. /\ encoder' = [d \in Encoders |-> encoder'[d]]
      /\ \A d \in Encoders \ {e} : encoder'[d] = encoder[d]
      /\ encoder'[e].step \in {"idle", "marker"}
  BY EGotoFields DEF EncoderInv
<1> QED BY <1>1 DEF EncoderInv, Encoding, Whole

\* A link is given for a build that is ready, and for no other.
LEMMA LinkForIsOfBuild ==
  ASSUME NEW build, NEW end, NEW scope
  PROVE  LinkFor(build, end, scope) # None =>
           /\ build # None
           /\ "build" \in DOMAIN LinkFor(build, end, scope)
           /\ LinkFor(build, end, scope).build = build
BY DEF LinkFor

\* The links of a playlist lead into its build.
LEMMA ChildrenKeepBuild ==
  ASSUME NEW link, "build" \in DOMAIN link, NEW child \in ChildrenOf(link)
  PROVE  "build" \in DOMAIN child /\ child.build = link.build
BY DEF ChildrenOf, Child

-----------------------------------------------------------------------------
(* The invariant.                                                          *)

\* Nothing is stored, marked or handed out at first.
LEMMA StreamInvInit == StreamingInit => StreamInv
BY DEF StreamingInit, StreamInv, FilesInv, EncoderInv, MarkedInv, ReadyInv, ViewerInv,
       Encoding, WellHeld, LinkIntoWhole, Whole, EncoderIdle, Watching

\* Every step of an encoder publishes whole builds only.
LEMMA EncodeKeepsInv ==
  ASSUME StreamInv, EncodeNext, UNCHANGED <<deliverVars, streamNow>>
  PROVE  StreamInv'
<1> USE DEF StreamInv
<1> /\ UNCHANGED <<ready, viewer>> BY DEF deliverVars
<1>1. CASE ReplaceSource
  BY <1>1 DEF ReplaceSource, FilesInv, EncoderInv, MarkedInv, ReadyInv, ViewerInv, Encoding,
              WellHeld, LinkIntoWhole, Whole
<1>2. ASSUME NEW e \in Encoders,
             BeginEncode(e) \/ AlreadyEncoded(e) \/ Recheck(e) \/ Transcode(e) \/ Download(e)
      PROVE  StreamInv'
  <2>1. UNCHANGED <<stored, marker>>
    BY <1>2 DEF BeginEncode, AlreadyEncoded, Recheck, Transcode, Download
  <2>2. FilesInv' /\ MarkedInv' /\ ReadyInv' /\ ViewerInv'
    BY <2>1 DEF FilesInv, MarkedInv, ReadyInv, ViewerInv, WellHeld, LinkIntoWhole, Whole
  <2>3. CASE BeginEncode(e) \/ AlreadyEncoded(e)
    <3>1. \/ EGoto(e, [step |-> "marker", fingerprint |-> source])
          \/ EGoto(e, [step |-> "idle"])
      BY <2>3 DEF BeginEncode, AlreadyEncoded, Stop
    <3> QED BY <2>1, <2>2, <3>1, StopKeeps
  <2>4. CASE Download(e)
    <3>1. CASE Stop(e)
      BY <2>1, <2>2, <3>1, StopKeeps DEF Stop
    <3>2. ASSUME NEW b \in Builds,
                 EGoto(e, [step |-> "transcode", fingerprint |-> source, build |-> b])
          PROVE  EncoderInv'
      <4>1. /\ encoder' = [d \in Encoders |-> encoder'[d]]
            /\ \A d \in Encoders \ {e} : encoder'[d] = encoder[d]
            /\ {"step", "build"} \subseteq DOMAIN encoder'[e]
            /\ encoder'[e].step = "transcode" /\ encoder'[e].build = b
        BY <3>2, EGotoFields DEF EncoderInv
      <4> QED BY <2>1, <4>1 DEF EncoderInv, Encoding, Whole
    <3> QED BY <2>2, <2>4, <3>1, <3>2 DEF Download
  <2>5. CASE Transcode(e)
    <3>1. CASE EGoto(e, [encoder[e] EXCEPT !.step = "publish"]) /\ encoder[e].step = "transcode"
      <4>1. /\ encoder' = [d \in Encoders |-> encoder'[d]]
            /\ \A d \in Encoders \ {e} : encoder'[d] = encoder[d]
            /\ {"step", "build"} \subseteq DOMAIN encoder'[e]
            /\ encoder'[e].step = "publish" /\ encoder'[e].build = encoder[e].build
        BY <3>1, EGotoFields DEF EncoderInv, Encoding
      <4> QED BY <2>1, <2>2, <3>1, <4>1 DEF EncoderInv, Encoding, Whole
    <3>2. CASE EGoto(e, [step |-> "idle",
                         unsupported |-> encoder[e].unsupported \cup {encoder[e].fingerprint}])
      BY <2>1, <2>2, <3>2, StopKeeps
    <3> QED BY <2>5, <3>1, <3>2 DEF Transcode, In
  <2>6. CASE Recheck(e)
    <3>1. CASE EGoto(e, [encoder[e] EXCEPT !.step = "mark"]) /\ encoder[e].step = "publish"
      <4>1. /\ encoder' = [d \in Encoders |-> encoder'[d]]
            /\ \A d \in Encoders \ {e} : encoder'[d] = encoder[d]
            /\ {"step", "build"} \subseteq DOMAIN encoder'[e]
            /\ encoder'[e].step = "mark" /\ encoder'[e].build = encoder[e].build
        BY <3>1, EGotoFields DEF EncoderInv, Encoding
      <4>2. Whole(encoder[e].build)
        BY <2>6, <3>1 DEF Recheck, EncoderInv, Encoding, Whole
      <4> QED BY <2>1, <2>2, <3>1, <4>1, <4>2 DEF EncoderInv, Encoding, Whole
    <3>2. CASE Stop(e)
      BY <2>1, <2>2, <3>2, StopKeeps DEF Stop
    <3> QED BY <2>6, <3>1, <3>2 DEF Recheck, In
  <2> QED BY <1>2, <2>3, <2>4, <2>5, <2>6
<1>3. ASSUME NEW e \in Encoders, PublishFile(e)
      PROVE  StreamInv'
  BY <1>3 DEF PublishFile, In, FilesInv, EncoderInv, MarkedInv, ReadyInv, ViewerInv, Encoding,
              WellHeld, LinkIntoWhole, Whole
<1>4. ASSUME NEW e \in Encoders, PutMarker(e)
      PROVE  StreamInv'
  <2>1. EGoto(e, [step |-> "idle"]) /\ UNCHANGED stored
    BY <1>4 DEF PutMarker, Stop
  <2>2. EncoderInv'
    BY <2>1, StopKeeps
  <2>3. MarkedInv'
    BY <1>4 DEF PutMarker, In, EncoderInv, Encoding, MarkedInv, Whole
  <2> QED BY <2>1, <2>2, <2>3 DEF FilesInv, ReadyInv, ViewerInv, WellHeld, LinkIntoWhole, Whole
<1>5. ASSUME NEW e \in Encoders, EncoderStops(e)
      PROVE  StreamInv'
  <2>1. UNCHANGED <<stored, marker>>
    BY <1>5 DEF EncoderStops
  <2>2. ASSUME encoder' = [encoder EXCEPT ![e] = EncoderIdle]
        PROVE  EncoderInv'
    BY <2>1, <2>2 DEF EncoderIdle, EncoderInv, Encoding, Whole
  <2>3. ASSUME Stop(e)
        PROVE  EncoderInv'
    BY <2>1, <2>3, StopKeeps DEF Stop
  <2> QED BY <1>5, <2>1, <2>2, <2>3 DEF EncoderStops, FilesInv, MarkedInv, ReadyInv, ViewerInv,
                                       WellHeld, LinkIntoWhole, Whole
<1> QED BY <1>1, <1>2, <1>3, <1>4, <1>5 DEF EncodeNext

\* Whoever delivers hands on what it was handed.
LEMMA DeliverKeepsInv ==
  ASSUME StreamInv, DeliverNext, UNCHANGED <<encodeVars, streamNow>>
  PROVE  StreamInv'
<1> USE DEF StreamInv
<1>1. UNCHANGED <<encoder, stored, marker>>
  BY DEF encodeVars
<1>2. FilesInv' /\ EncoderInv' /\ MarkedInv'
  BY <1>1 DEF FilesInv, EncoderInv, MarkedInv, Encoding, Whole
<1>3. ASSUME NEW v \in Streamers, NEW r, VGoto(v, r), WellHeld(r)
      PROVE  ViewerInv'
  BY <1>1, <1>3 DEF VGoto, ViewerInv, WellHeld, LinkIntoWhole, Whole
<1>4. ASSUME NEW v \in Streamers, NEW end \in TicketEnds, NEW scope, AskPlayback(v, end, scope)
      PROVE  StreamInv'
  <2>1. ReadyInv'
    BY <1>1, <1>4 DEF AskPlayback, ReadyInv, Whole
  <2>2. CASE FreshList(ready)
    <3>1. VGoto(v, [step |-> "watching", link |-> LinkFor(ready.build, end, scope)])
      BY <1>4, <2>2 DEF AskPlayback
    <3> DEFINE r == [step |-> "watching", link |-> LinkFor(ready.build, end, scope)]
    <3>2. LinkFor(ready.build, end, scope) # None => LinkIntoWhole(LinkFor(ready.build, end, scope))
      BY <2>2, LinkForIsOfBuild DEF FreshList, ReadyInv, LinkIntoWhole
    <3>3. WellHeld(r)
      BY <3>2 DEF WellHeld
    <3> QED BY <1>2, <1>3, <2>1, <3>1, <3>3
  <2>3. CASE ~FreshList(ready)
    <3>1. VGoto(v, [step |-> "asking", end |-> end, scope |-> scope])
      BY <1>4, <2>3 DEF AskPlayback
    <3>2. WellHeld([step |-> "asking", end |-> end, scope |-> scope])
      BY DEF WellHeld
    <3> QED BY <1>2, <1>3, <2>1, <3>1, <3>2
  <2> QED BY <2>2, <2>3
<1>5. ASSUME NEW v \in Streamers, ReadMarker(v)
      PROVE  StreamInv'
  <2>1. PICK build \in {None} \cup (IF marker = None THEN {} ELSE {marker.build}) :
          /\ ready' = [until |-> streamNow + ReadyTtl, build |-> build]
          /\ VGoto(v, [step |-> "watching",
                       link |-> LinkFor(build, viewer[v].end, viewer[v].scope)])
    BY <1>5 DEF ReadMarker
  <2>2. build # None => Whole(build)
    BY DEF MarkedInv
  <2>3. ReadyInv'
    BY <1>1, <2>1, <2>2 DEF ReadyInv, Whole
  <2>4. LinkFor(build, viewer[v].end, viewer[v].scope) # None =>
          LinkIntoWhole(LinkFor(build, viewer[v].end, viewer[v].scope))
    BY <2>2, LinkForIsOfBuild DEF LinkIntoWhole
  <2> DEFINE r == [step |-> "watching", link |-> LinkFor(build, viewer[v].end, viewer[v].scope)]
  <2>5. WellHeld(r)
    BY <2>4 DEF WellHeld
  <2> QED BY <1>2, <1>3, <2>1, <2>3, <2>5
<1>6. ASSUME NEW v \in Streamers, FetchCached(v) \/ Fetched(v) \/ BeginFetch(v) \/ Redirect(v)
      PROVE  StreamInv'
  <2>1. UNCHANGED ready /\ viewer[v].step \in {"watching", "fetching"}
    BY <1>6 DEF FetchCached, Fetched, BeginFetch, Redirect, Live
  <2>2. viewer[v].link # None
    BY <1>6, <2>1 DEF FetchCached, Fetched, BeginFetch, Redirect, Live, ViewerInv, WellHeld
  <2>3. LinkIntoWhole(viewer[v].link)
    BY <2>1, <2>2 DEF ViewerInv, WellHeld
  <2>4. ASSUME NEW child \in ChildrenOf(viewer[v].link),
               VGoto(v, [step |-> "watching", link |-> child])
        PROVE  ViewerInv'
    <3>1. LinkIntoWhole(child)
      BY <2>3, ChildrenKeepBuild DEF LinkIntoWhole
    <3> DEFINE r == [step |-> "watching", link |-> child]
    <3>2. WellHeld(r)
      BY <3>1 DEF WellHeld
    <3> QED BY <1>3, <2>4, <3>2
  <2>5. CASE FetchCached(v)
    BY <2>1, <2>4, <2>5, <1>1, <1>2 DEF FetchCached, ReadyInv, Whole
  <2>6. CASE BeginFetch(v)
    <3> DEFINE r == [step |-> "fetching", link |-> viewer[v].link]
    <3>1. VGoto(v, r) /\ WellHeld(r)
      BY <2>2, <2>3, <2>6 DEF BeginFetch, WellHeld
    <3> QED BY <1>1, <1>2, <1>3, <2>1, <3>1 DEF ReadyInv, Whole
  <2>7. CASE Fetched(v)
    <3> DEFINE r == [step |-> "watching", link |-> viewer[v].link]
    <3>1. CASE VGoto(v, r)
      <4>1. WellHeld(r)
        BY <2>2, <2>3 DEF WellHeld
      <4> QED BY <1>1, <1>2, <1>3, <2>1, <3>1, <4>1 DEF ReadyInv, Whole
    <3>2. ~VGoto(v, r) => \E child \in ChildrenOf(viewer[v].link) :
                            VGoto(v, [step |-> "watching", link |-> child])
      BY <2>7 DEF Fetched
    <3> QED BY <1>1, <1>2, <2>1, <2>4, <3>1, <3>2 DEF ReadyInv, Whole
  <2>8. CASE Redirect(v)
    <3>1. PICK life : VGoto(v, [step |-> "streaming",
                                link |-> [viewer[v].link EXCEPT !.expires = streamNow + life]])
      BY <2>8 DEF Redirect
    <3> DEFINE r == [step |-> "streaming",
                     link |-> [viewer[v].link EXCEPT !.expires = streamNow + life]]
    <3>2. LinkIntoWhole(r.link)
      BY <2>3 DEF LinkIntoWhole
    <3>3. WellHeld(r)
      BY <3>2 DEF WellHeld
    <3> QED BY <1>1, <1>2, <1>3, <2>1, <3>1, <3>3 DEF ReadyInv, Whole
  <2> QED BY <1>6, <2>5, <2>6, <2>7, <2>8
<1>7. ASSUME NEW v \in Streamers, Rest(v)
      PROVE  StreamInv'
  <2>1. VGoto(v, Watching) /\ UNCHANGED ready
    BY <1>7 DEF Rest
  <2>2. ViewerInv'
    BY <1>3, <2>1 DEF Watching, WellHeld
  <2> QED BY <1>1, <1>2, <2>1, <2>2 DEF ReadyInv, Whole
<1> QED BY <1>4, <1>5, <1>6, <1>7 DEF DeliverNext

\* Every step of the specification keeps the invariant.
LEMMA StreamInvStep == StreamInv /\ [StreamingNext]_streamVars => StreamInv'
<1>1. ASSUME StreamInv, StreamTick, UNCHANGED <<encodeVars, deliverVars>>
      PROVE  StreamInv'
  BY <1>1 DEF StreamInv, FilesInv, EncoderInv, MarkedInv, ReadyInv, ViewerInv, Encoding,
              WellHeld, LinkIntoWhole, Whole, encodeVars, deliverVars
<1>2. ASSUME StreamInv, UNCHANGED streamVars
      PROVE  StreamInv'
  BY <1>2 DEF StreamInv, FilesInv, EncoderInv, MarkedInv, ReadyInv, ViewerInv, Encoding,
              WellHeld, LinkIntoWhole, Whole, streamVars, encodeVars, deliverVars
<1> QED BY <1>1, <1>2, EncodeKeepsInv, DeliverKeepsInv DEF StreamingNext

\* Whatever a player holds - whichever encoders race, crash or find their source
\* replaced, and however stale the marker the API kept - its build is complete.
THEOREM OnlyWholeBuildsAreHandedOut == StreamingSpec => []HandedOutIsWhole
<1>1. StreamingSpec => []StreamInv
  BY StreamInvInit, StreamInvStep, PTL DEF StreamingSpec
<1>2. StreamInv => HandedOutIsWhole
  BY DEF StreamInv, ViewerInv, HandedOutIsWhole, WellHeld, LinkIntoWhole, Whole
<1> QED BY <1>1, <1>2, PTL

\* The marker itself never names an unfinished build.
THEOREM MarkerIsWhole == StreamingSpec => [](marker # None => stored[marker.build] = HlsFiles)
<1>1. StreamingSpec => []StreamInv
  BY StreamInvInit, StreamInvStep, PTL DEF StreamingSpec
<1>2. StreamInv => (marker # None => stored[marker.build] = HlsFiles)
  BY DEF StreamInv, MarkedInv, Whole
<1> QED BY <1>1, <1>2, PTL

-----------------------------------------------------------------------------
(* Links and their tickets, the cache of playlists and its counter.        *)

\* A link says which file it is for, and ends with the ticket at the latest.
Timed(l) ==
  /\ {"file", "scope", "expires", "end"} \subseteq DOMAIN l
  /\ l.expires \in Int /\ l.end \in Int /\ l.expires <= l.end

WellTimed(r) ==
  /\ "link" \in DOMAIN r /\ r.link # None => Timed(r.link)
  /\ r.step = "asking" => r.end \in Int
  /\ r.step = "fetching" => r.link.file \in Playlists

TimesInv == streamNow \in Int /\ \A v \in Streamers : WellTimed(viewer[v])

CacheInv ==
  /\ IsFiniteSet(playlist.held) /\ \A n \in playlist.held : n[2] \in Playlists
  /\ CacheIsAccounted

LinksInv == StreamInv /\ TimesInv /\ CacheInv

\* The earlier of two instants is not after either.
LEMMA EarlierOfTwo ==
  ASSUME NEW a \in Int, NEW b \in Int
  PROVE  Min({a, b}) \in Int /\ Min({a, b}) <= a /\ Min({a, b}) <= b
<1>1. \E x \in {a, b} : \A y \in {a, b} : x =< y
  <2>1. CASE a <= b
    BY <2>1
  <2>2. CASE ~(a <= b)
    BY <2>2
  <2> QED BY <2>1, <2>2
<1>2. Min({a, b}) \in {a, b} /\ \A y \in {a, b} : Min({a, b}) =< y
  BY <1>1 DEF Min
<1> QED BY <1>2

\* The later of two is one of them.
LEMMA LaterOfTwo ==
  ASSUME NEW a \in Int, NEW b \in Int
  PROVE  Max({a, b}) = IF a >= b THEN a ELSE b
<1>1. \E x \in {a, b} : \A y \in {a, b} : x >= y
  <2>1. CASE a >= b
    BY <2>1
  <2>2. CASE ~(a >= b)
    BY <2>2
  <2> QED BY <2>1, <2>2
<1>2. Max({a, b}) \in {a, b} /\ \A y \in {a, b} : Max({a, b}) >= y
  BY <1>1 DEF Max
<1> QED BY <1>2

\* A link is made to end with its ticket (playbackUrl).
LEMMA LinkForIsTimed ==
  ASSUME streamNow \in Int, NEW build, NEW end \in Int, NEW scope
  PROVE  LinkFor(build, end, scope) # None => Timed(LinkFor(build, end, scope))
<1> DEFINE ttl == IF scope = "prepare" THEN PrepareTtl ELSE PlayTtl
           expires == Min({end, streamNow + ttl})
<1>1. ttl \in Int
  BY StreamingConstants
<1>2. expires \in Int /\ expires <= end
  <2>1. PICK later : later = streamNow + ttl
    OBVIOUS
  <2>2. later \in Int
    BY <1>1, <2>1
  <2> QED BY <2>1, <2>2, EarlierOfTwo
<1>3. LinkFor(build, end, scope) # None =>
        LinkFor(build, end, scope) =
          [build |-> build, file |-> IF scope = "prepare" THEN "360p" ELSE "master",
           scope |-> scope, expires |-> expires, end |-> end]
  BY DEF LinkFor
<1> HIDE DEF expires
<1> QED BY <1>2, <1>3 DEF Timed

\* The links of a playlist end when it does (rewrite).
LEMMA ChildrenAreTimed ==
  ASSUME NEW link, Timed(link), NEW child \in ChildrenOf(link)
  PROVE  Timed(child)
<1>1. PICK file : child = [link EXCEPT !.file = file]
  BY DEF ChildrenOf, Child
<1>2. DOMAIN child = DOMAIN link /\ child.expires = link.expires /\ child.end = link.end
  BY <1>1
<1> QED BY <1>2 DEF Timed

\* A storage URL lasts a second at least, and as long as a live link at most
\* (remoteSegmentUrl).
LEMMA RedirectIsTimed ==
  ASSUME streamNow \in Int, NEW link, Timed(link), link.expires > streamNow, NEW life,
         life = Max({1, Min({PlayTtl, link.expires - streamNow})})
  PROVE  Timed([link EXCEPT !.expires = streamNow + life])
<1>1. link.expires - streamNow \in Int /\ PlayTtl \in Int /\ PlayTtl >= 1 /\ link.expires - streamNow >= 1
  BY StreamingConstants DEF Timed
<1>2. PICK m : m = Min({PlayTtl, link.expires - streamNow})
  OBVIOUS
<1>3. m \in Int /\ m <= link.expires - streamNow
  BY <1>1, <1>2, EarlierOfTwo
<1>4. life = IF 1 >= m THEN 1 ELSE m
  BY <1>2, <1>3, LaterOfTwo
<1>5. life \in Int /\ life <= link.expires - streamNow
  BY <1>1, <1>3, <1>4
<1>6. streamNow + life \in Int /\ streamNow + life <= link.end
  BY <1>1, <1>5 DEF Timed
<1>7. PICK l : l = [link EXCEPT !.expires = streamNow + life]
  OBVIOUS
<1>8. DOMAIN l = DOMAIN link /\ l.expires = streamNow + life /\ l.end = link.end
  BY <1>7 DEF Timed
<1>9. Timed(l)
  BY <1>6, <1>8 DEF Timed
<1> QED BY <1>7, <1>9

\* The bytes of a set of playlists.
LEMMA BytesOf ==
  ASSUME NEW held, IsFiniteSet(held), \A n \in held : n[2] \in Playlists
  PROVE  /\ [n \in held |-> Size[n[2]]] \in [held -> Nat]
         /\ [n \in held |-> Size[n[2]]] \in [held -> Int]
         /\ Bytes(held) \in Nat
<1>1. [n \in held |-> Size[n[2]]] \in [held -> Nat]
  BY StreamingConstants
<1>2. [n \in held |-> Size[n[2]]] \in [held -> Int]
  BY <1>1
<1>3. Bytes(held) \in Nat
  BY <1>1, SumNat DEF Bytes
<1> QED BY <1>1, <1>2, <1>3

\* What is dropped is no longer counted.
LEMMA BytesDrop ==
  ASSUME NEW held, IsFiniteSet(held), \A n \in held : n[2] \in Playlists, NEW out \in SUBSET held
  PROVE  Bytes(held) = Bytes(out) + Bytes(held \ out)
<1> DEFINE R == held \ out
           f == [n \in held |-> Size[n[2]]]
           g == [n \in out |-> Size[n[2]]]
           h == [n \in R |-> Size[n[2]]]
<1>1. IsFiniteSet(out) /\ IsFiniteSet(R)
  BY FS_Subset
<1>2. f \in [held -> Int]
  BY BytesOf
<1>3. g \in [out -> Int]
  BY <1>1, BytesOf
<1>4. h \in [held \ out -> Int]
  BY <1>1, BytesOf
<1>5. \A x \in out : g[x] = f[x]
  OBVIOUS
<1>6. \A x \in held \ out : h[x] = f[x]
  OBVIOUS
<1>7. Bytes(held) = SumFunction(f) /\ Bytes(out) = SumFunction(g) /\ Bytes(held \ out) = SumFunction(h)
  BY DEF Bytes
<1> HIDE DEF f, g, h, R
<1>8. IsFiniteSet(held) /\ out \in SUBSET held
  OBVIOUS
<1>9. SumFunction(f) = SumFunction(g) + SumFunction(h)
  BY ONLY <1>2, <1>3, <1>4, <1>5, <1>6, <1>8, SumSplit
<1> QED BY <1>7, <1>9

\* What is added is counted.
LEMMA BytesAdd ==
  ASSUME NEW held, IsFiniteSet(held), \A n \in held : n[2] \in Playlists,
         NEW n, n[2] \in Playlists, n \notin held
  PROVE  Bytes(held \cup {n}) = Bytes(held) + Size[n[2]]
<1> DEFINE f == [x \in held |-> Size[x[2]]]
           g == [x \in held \cup {n} |-> Size[x[2]]]
<1>1. IsFiniteSet(held \cup {n}) /\ \A x \in held \cup {n} : x[2] \in Playlists
  BY FS_AddElement
<1>2. f \in [held -> Int]
  BY BytesOf
<1>3. g \in [held \cup {n} -> Int]
  BY <1>1, BytesOf
<1>4. \A y \in held : g[y] = f[y]
  OBVIOUS
<1>5. g[n] = Size[n[2]] /\ IsFiniteSet(held) /\ n \notin held
  OBVIOUS
<1>6. Bytes(held) = SumFunction(f) /\ Bytes(held \cup {n}) = SumFunction(g)
  BY DEF Bytes
<1> HIDE DEF f, g
<1>7. SumFunction(g) = SumFunction(f) + g[n]
  BY ONLY <1>2, <1>3, <1>4, <1>5, SumAdd
<1> QED BY <1>5, <1>6, <1>7

\* A playlist that is let in is counted once, and room was made for it (readText).
LEMMA AdmitKeepsCache ==
  ASSUME CacheInv, NEW n, n[2] \in Playlists, Admit(n)
  PROVE  CacheInv'
<1>1. PICK held, bytes : held = playlist.held /\ bytes = playlist.bytes
  OBVIOUS
<1>2. IsFiniteSet(held) /\ (\A x \in held : x[2] \in Playlists) /\ bytes = Bytes(held) /\ bytes <= Capacity
  BY <1>1 DEF CacheInv, CacheIsAccounted
<1>3. PICK out \in SUBSET held :
        /\ bytes - Bytes(out) + Size[n[2]] <= Capacity \/ held \ out = {}
        /\ playlist' = IF n \in held \ out THEN [held |-> held \ out, bytes |-> bytes - Bytes(out)]
                       ELSE [held |-> (held \ out) \cup {n}, bytes |-> bytes - Bytes(out) + Size[n[2]]]
  BY <1>1 DEF Admit
<1>4. PICK kept : kept = held \ out
  OBVIOUS
<1>5. IsFiniteSet(kept) /\ IsFiniteSet(out) /\ (\A x \in kept : x[2] \in Playlists)
      /\ (\A x \in out : x[2] \in Playlists)
  BY <1>2, <1>4, FS_Subset
<1>6. Bytes(held) \in Nat /\ Bytes(out) \in Nat /\ Bytes(kept) \in Nat
  BY <1>2, <1>5, BytesOf
<1>7. Bytes(held) = Bytes(out) + Bytes(kept)
  BY <1>2, <1>4, BytesDrop
<1>8. bytes - Bytes(out) = Bytes(kept)
  BY <1>2, <1>6, <1>7
<1>9. Size[n[2]] \in Nat /\ Size[n[2]] <= Capacity
  BY StreamingConstants
<1>10. CASE n \in kept
  <2>1. playlist'.held = kept /\ playlist'.bytes = Bytes(kept)
    BY <1>3, <1>4, <1>8, <1>10
  <2>2. Bytes(kept) <= Bytes(held)
    BY <1>6, <1>7
  <2>3. CacheIsAccounted'
    <3>1. Bytes(kept) <= Capacity
      BY <1>2, <1>6, <2>2, StreamingConstants
    <3> QED BY <2>1, <3>1 DEF CacheIsAccounted, Bytes
  <2> QED BY <1>5, <2>1, <2>3 DEF CacheInv
<1>11. CASE n \notin kept
  <2>1. PICK next : next = kept \cup {n}
    OBVIOUS
  <2>2. playlist'.held = next /\ playlist'.bytes = Bytes(kept) + Size[n[2]]
    BY <1>3, <1>4, <1>8, <1>11, <2>1
  <2>3. IsFiniteSet(next) /\ \A x \in next : x[2] \in Playlists
    BY <1>5, <2>1, FS_AddElement
  <2>4. Bytes(next) = Bytes(kept) + Size[n[2]]
    BY <1>5, <1>11, <2>1, BytesAdd
  <2>5. Bytes(kept) + Size[n[2]] <= Capacity
    <3>1. CASE kept = {}
      <4>1. Bytes(kept) = 0
        BY <3>1, SumNone DEF Bytes
      <4> QED BY <1>9, <4>1
    <3>2. CASE kept # {}
      BY <1>3, <1>4, <1>8, <3>2
    <3> QED BY <3>1, <3>2
  <2>6. CacheIsAccounted'
    BY <2>2, <2>4, <2>5 DEF CacheIsAccounted, Bytes
  <2> QED BY <2>2, <2>3, <2>6 DEF CacheInv
<1> QED BY <1>10, <1>11

\* A step of one viewer leaves the others' links alone.
LEMMA OthersKeepTimes ==
  ASSUME StreamInv, TimesInv, streamNow' = streamNow, NEW v \in Streamers, NEW r, VGoto(v, r), WellTimed(r)
  PROVE  TimesInv'
<1>1. viewer' = [viewer EXCEPT ![v] = r] /\ viewer = [w \in Streamers |-> viewer[w]]
  BY DEF VGoto, StreamInv, ViewerInv
<1>2. ASSUME NEW w \in Streamers
      PROVE  WellTimed(viewer'[w])
  <2>1. CASE w = v
    BY <1>1, <2>1
  <2>2. CASE w # v
    BY <1>1, <2>2 DEF TimesInv
  <2> QED BY <2>1, <2>2
<1> QED BY <1>2 DEF TimesInv, WellTimed, Timed

\* What a viewer holds when it fetches or is redirected.
LEMMA HeldLink ==
  ASSUME StreamInv, TimesInv, NEW v \in Streamers, Live(v) \/ viewer[v].step = "fetching"
  PROVE  Timed(viewer[v].link) /\ "link" \in DOMAIN viewer[v]
<1>1. WellHeld(viewer[v]) /\ WellTimed(viewer[v])
  BY DEF StreamInv, ViewerInv, TimesInv
<1>2. viewer[v].step \in {"watching", "fetching"} /\ viewer[v].link # None
  BY <1>1 DEF Live, WellHeld
<1> QED BY <1>1, <1>2 DEF WellHeld, WellTimed

\* Whoever delivers a link keeps it within its ticket, and the counter true.
LEMMA DeliverKeepsTimes ==
  ASSUME StreamInv, TimesInv, CacheInv, DeliverNext, UNCHANGED streamNow
  PROVE  TimesInv' /\ CacheInv'
<1>0. streamNow \in Int /\ \A v \in Streamers : WellTimed(viewer[v]) /\ WellHeld(viewer[v])
  BY DEF TimesInv, StreamInv, ViewerInv
<1>1. UNCHANGED playlist => CacheInv'
  BY DEF CacheInv, CacheIsAccounted, Bytes
<1>2. ASSUME NEW v \in Streamers, NEW link, VGoto(v, [step |-> "watching", link |-> link]),
             link # None => Timed(link)
      PROVE  TimesInv'
  <2>1. PICK r : r = [step |-> "watching", link |-> link]
    OBVIOUS
  <2>2. VGoto(v, r) /\ WellTimed(r)
    BY <1>2, <2>1 DEF WellTimed
  <2> QED BY <2>2, OthersKeepTimes
<1>3. ASSUME NEW v \in Streamers, NEW end \in TicketEnds, NEW scope, AskPlayback(v, end, scope)
      PROVE  TimesInv' /\ CacheInv'
  <2>0. UNCHANGED playlist /\ end \in Int
    BY <1>3, StreamingConstants DEF AskPlayback
  <2>1. CASE FreshList(ready)
    <3>1. PICK link : link = LinkFor(ready.build, end, scope)
      OBVIOUS
    <3>2. VGoto(v, [step |-> "watching", link |-> link])
      BY <1>3, <2>1, <3>1 DEF AskPlayback
    <3>3. link # None => Timed(link)
      BY <1>0, <2>0, <3>1, LinkForIsTimed
    <3> QED BY <1>1, <1>2, <2>0, <3>2, <3>3
  <2>2. CASE ~FreshList(ready)
    <3>1. PICK r : r = [step |-> "asking", end |-> end, scope |-> scope]
      OBVIOUS
    <3>2. VGoto(v, r)
      BY <1>3, <2>2, <3>1 DEF AskPlayback
    <3>3. WellTimed(r)
      BY <2>0, <3>1 DEF WellTimed
    <3> QED BY <1>1, <2>0, <3>2, <3>3, OthersKeepTimes
  <2> QED BY <2>1, <2>2
<1>4. ASSUME NEW v \in Streamers, ReadMarker(v)
      PROVE  TimesInv' /\ CacheInv'
  <2>1. UNCHANGED playlist /\ viewer[v].step = "asking"
    BY <1>4 DEF ReadMarker
  <2>2. PICK build : VGoto(v, [step |-> "watching",
                               link |-> LinkFor(build, viewer[v].end, viewer[v].scope)])
    BY <1>4 DEF ReadMarker
  <2>3. viewer[v].end \in Int
    BY <1>0, <2>1 DEF WellTimed
  <2>4. PICK link : link = LinkFor(build, viewer[v].end, viewer[v].scope)
    OBVIOUS
  <2>5. link # None => Timed(link)
    BY <1>0, <2>3, <2>4, LinkForIsTimed
  <2> QED BY <1>1, <1>2, <2>1, <2>2, <2>4, <2>5
<1>5. ASSUME NEW v \in Streamers, FetchCached(v)
      PROVE  TimesInv' /\ CacheInv'
  <2>1. PICK child \in ChildrenOf(viewer[v].link) : VGoto(v, [step |-> "watching", link |-> child])
    BY <1>5 DEF FetchCached
  <2>2. Timed(viewer[v].link)
    BY <1>5, HeldLink DEF FetchCached
  <2>3. Timed(child)
    BY <2>2, ChildrenAreTimed
  <2> QED BY <1>1, <1>2, <1>5, <2>1, <2>3 DEF FetchCached
<1>6. ASSUME NEW v \in Streamers, BeginFetch(v)
      PROVE  TimesInv' /\ CacheInv'
  <2>1. PICK r : r = [step |-> "fetching", link |-> viewer[v].link]
    OBVIOUS
  <2>2. Timed(viewer[v].link) /\ viewer[v].link.file \in Playlists
    BY <1>6, HeldLink DEF BeginFetch
  <2>3. VGoto(v, r) /\ WellTimed(r)
    BY <1>6, <2>1, <2>2 DEF BeginFetch, WellTimed
  <2> QED BY <1>1, <1>6, <2>3, OthersKeepTimes DEF BeginFetch
<1>7. ASSUME NEW v \in Streamers, Fetched(v)
      PROVE  TimesInv' /\ CacheInv'
  <2>1. viewer[v].step = "fetching"
    BY <1>7 DEF Fetched
  <2>2. PICK link : link = viewer[v].link
    OBVIOUS
  <2>3. Timed(link) /\ link.file \in Playlists
    BY <1>0, <2>1, <2>2, HeldLink DEF WellTimed
  <2>4. CASE VGoto(v, [step |-> "watching", link |-> link]) /\ UNCHANGED playlist
    BY <1>1, <1>2, <2>3, <2>4
  <2>5. CASE Admit(Name(link)) /\ \E child \in ChildrenOf(link) : VGoto(v, [step |-> "watching", link |-> child])
    <3>1. PICK child \in ChildrenOf(link) : VGoto(v, [step |-> "watching", link |-> child])
      BY <2>5
    <3>2. Timed(child)
      BY <2>3, ChildrenAreTimed
    <3>3. PICK n : n = Name(link)
      OBVIOUS
    <3>4. Admit(n) /\ n[2] \in Playlists
      BY <2>3, <2>5, <3>3 DEF Name
    <3>5. CacheInv'
      BY <3>4, AdmitKeepsCache
    <3> QED BY <1>2, <3>1, <3>2, <3>5
  <2> QED BY <1>7, <2>2, <2>4, <2>5 DEF Fetched
<1>8. ASSUME NEW v \in Streamers, Redirect(v)
      PROVE  TimesInv' /\ CacheInv'
  <2>1. PICK link, life : /\ link = viewer[v].link
                          /\ life = Max({1, Min({PlayTtl, link.expires - streamNow})})
    OBVIOUS
  <2>2. PICK r : r = [step |-> "streaming", link |-> [link EXCEPT !.expires = streamNow + life]]
    OBVIOUS
  <2>3. VGoto(v, r) /\ UNCHANGED playlist
    BY <1>8, <2>1, <2>2 DEF Redirect
  <2>4. Timed(link) /\ link.expires > streamNow
    BY <1>8, <2>1, HeldLink DEF Redirect, Live
  <2>5. Timed([link EXCEPT !.expires = streamNow + life])
    BY <1>0, <2>1, <2>4, RedirectIsTimed
  <2>6. WellTimed(r)
    BY <2>2, <2>5 DEF WellTimed
  <2> QED BY <1>1, <2>3, <2>6, OthersKeepTimes
<1>9. ASSUME NEW v \in Streamers, Rest(v)
      PROVE  TimesInv' /\ CacheInv'
  <2>1. PICK r : r = Watching
    OBVIOUS
  <2>2. VGoto(v, r) /\ WellTimed(r) /\ UNCHANGED playlist
    BY <1>9, <2>1 DEF Rest, Watching, WellTimed
  <2> QED BY <1>1, <2>2, OthersKeepTimes
<1> QED BY <1>3, <1>4, <1>5, <1>6, <1>7, <1>8, <1>9 DEF DeliverNext

\* Nothing is linked or kept at first.
LEMMA LinksInvInit == StreamingInit => LinksInv
<1> SUFFICES ASSUME StreamingInit PROVE LinksInv
  OBVIOUS
<1>1. StreamInv
  BY StreamInvInit
<1>2. TimesInv
  BY DEF StreamingInit, TimesInv, WellTimed, Watching
<1>3. playlist.held = {} /\ playlist.bytes = 0
  BY DEF StreamingInit
<1>4. Bytes({}) = 0
  BY SumNone DEF Bytes
<1>5. CacheInv
  BY <1>3, <1>4, FS_EmptySet, StreamingConstants DEF CacheInv, CacheIsAccounted
<1> QED BY <1>1, <1>2, <1>5 DEF LinksInv

\* Every step keeps the links, and the count.
LEMMA LinksInvStep == LinksInv /\ [StreamingNext]_streamVars => LinksInv'
<1> SUFFICES ASSUME LinksInv, [StreamingNext]_streamVars PROVE LinksInv'
  OBVIOUS
<1>1. StreamInv'
  BY StreamInvStep DEF LinksInv
<1>2. ASSUME UNCHANGED deliverVars, streamNow' \in Int
      PROVE  TimesInv' /\ CacheInv'
  BY <1>2 DEF LinksInv, deliverVars, TimesInv, WellTimed, Timed, CacheInv, CacheIsAccounted, Bytes
<1>3. streamNow \in Int
  BY DEF LinksInv, TimesInv
<1>4. CASE EncodeNext /\ UNCHANGED <<deliverVars, streamNow>>
  BY <1>1, <1>2, <1>3, <1>4 DEF LinksInv
<1>5. CASE DeliverNext /\ UNCHANGED <<encodeVars, streamNow>>
  BY <1>1, <1>5, DeliverKeepsTimes DEF LinksInv
<1>6. CASE StreamTick /\ UNCHANGED <<encodeVars, deliverVars>>
  BY <1>1, <1>2, <1>3, <1>6 DEF LinksInv, StreamTick
<1>7. CASE UNCHANGED streamVars
  BY <1>1, <1>2, <1>3, <1>7 DEF LinksInv, streamVars
<1> QED BY <1>4, <1>5, <1>6, <1>7 DEF StreamingNext

\* However encoders race and crash, and whatever is asked for at the same time: a link a
\* player holds leads into a finished build and ends with its ticket, and the cache of
\* playlists holds what its counter says and no more than it may (encode-hls.ts,
\* adaptive-media.service.ts).
THEOREM LinksAlwaysHold == StreamingSpec => []LinksHold
<1>1. StreamingSpec => []LinksInv
  BY LinksInvInit, LinksInvStep, PTL DEF StreamingSpec
<1>2. StreamInv => HandedOutIsWhole
  BY DEF StreamInv, ViewerInv, HandedOutIsWhole, WellHeld, LinkIntoWhole, Whole
<1>3. LinksInv => LinksHold
  BY <1>2 DEF LinksInv, LinksHold, TimesInv, WellTimed, Timed, LinksEndWithTicket, CacheInv
<1> QED BY <1>1, <1>3, PTL

-----------------------------------------------------------------------------
(* Uploads: where each key, each session and each row stands while entries *)
(* are sent, fail, are cancelled and tried again.                          *)

Fields == {"status", "shown", "running", "step", "key", "multipart", "verified", "part", "failed", "file"}
Steps == {"presign", "parts", "complete", "put", "stat", "attach", "attaching", "clean", "ended"}

HasKey(u) == Listed(u) /\ upload[u].key # NoValue

\* Nobody needs to close what is closed, about to be aborted, or lost.
Settled(k) == session[k] = Closed \/ k \in aborting \cup leaked

\* An entry has its fields, runs until it has ended, and has a key once it was planned;
\* it remembers a multipart upload only while it sends and completes it.
EntryOK(e) ==
  /\ DOMAIN e = Fields /\ e.status # "absent"
  /\ e.file.kind \in DOMAIN Types
  /\ e.key \in ObjectKeys \cup {NoValue}
  /\ e.running \in BOOLEAN /\ e.verified \in BOOLEAN
  /\ e.step \in Steps /\ (e.step = "ended" <=> ~e.running)
  /\ e.step \notin {"presign", "ended"} => e.key # NoValue
  /\ e.multipart # NoValue => /\ e.step \in {"parts", "complete"}
                              /\ e.multipart = e.key /\ e.status # "cancelled"

\* An entry whose bytes were verified is only attached from then on, and its object
\* stays as it was.
VerifiedOK(e) ==
  /\ e.verified => /\ e.key # NoValue /\ object[e.key] = e.file.size
                   /\ e.step \in {"attach", "attaching", "ended"}
  /\ e.step \in {"attach", "attaching"} => e.verified

\* Whatever an entry opened in object storage it is still to close, unless that is
\* settled.
SessionOK(e) ==
  e.key # NoValue => Settled(e.key) \/ e.step = "clean" \/ e.multipart = e.key

EntriesInv ==
  /\ upload = [u \in Uploads |-> upload[u]] /\ DOMAIN session = ObjectKeys /\ DOMAIN object = ObjectKeys
  /\ \A u \in Uploads : Listed(u) => EntryOK(upload[u]) /\ VerifiedOK(upload[u]) /\ SessionOK(upload[u])
  /\ \A u, v \in Uploads : HasKey(u) /\ HasKey(v) /\ upload[u].key = upload[v].key => u = v
  /\ \A k \in ObjectKeys : Settled(k) \/ \E u \in Uploads : HasKey(u) /\ upload[u].key = k

\* What stands in a row was verified.
RowOK(r) ==
  /\ DOMAIN r = DOMAIN Types
  /\ \A kind \in DOMAIN Types :
       r[kind] # NoValue => \E u \in Uploads : HasKey(u) /\ upload[u].verified /\ upload[u].key = r[kind]

RowsKept ==
  /\ RowOK(row)
  /\ attach = [u \in Uploads |-> attach[u]]
  /\ \A u \in Uploads : Listed(u) /\ upload[u].step = "attaching" => RowOK(attach[u])

UploadsInv == EntriesInv /\ RowsKept

\* Only the entry u changes.
OnlyEntry(next, u) == next = [upload EXCEPT ![u] = next[u]]

\* A step of one entry that touches the object and the session of its own key alone, and
\* takes no other entry's key, keeps what is known of all entries.
LEMMA EntryStepKeepsEntries ==
  ASSUME EntriesInv, NEW u \in Uploads, NEW next, upload' = next, OnlyEntry(next, u),
         DOMAIN session' = ObjectKeys, DOMAIN object' = ObjectKeys,
         EntryOK(next[u]), VerifiedOK(next[u])', SessionOK(next[u])',
         \A k \in ObjectKeys : k # next[u].key =>
           object'[k] = object[k] /\ (Settled(k) => Settled(k)'),
         \A v \in Uploads : HasKey(v) /\ next[u].key # NoValue /\ upload[v].key = next[u].key => v = u,
         HasKey(u) /\ upload[u].key # next[u].key => Settled(upload[u].key)
  PROVE  EntriesInv'
<1> USE DEF EntriesInv
<1>1. upload' = [v \in Uploads |-> upload'[v]] /\ upload'[u] = next[u]
      /\ \A v \in Uploads \ {u} : upload'[v] = upload[v]
  BY DEF OnlyEntry
<1>2. Listed(u)'
  BY <1>1 DEF Listed, EntryOK
<1>3. \A v \in Uploads \ {u} : /\ Listed(v)' <=> Listed(v)
                               /\ HasKey(v)' <=> HasKey(v)
                               /\ HasKey(v) => upload[v].key # next[u].key
  BY <1>1 DEF Listed, HasKey
<1>4. ASSUME NEW v \in Uploads, Listed(v)'
      PROVE  EntryOK(upload'[v]) /\ VerifiedOK(upload[v])' /\ SessionOK(upload[v])'
  <2>1. CASE v = u
    BY <2>1, <1>1 DEF VerifiedOK, SessionOK, Settled
  <2>2. CASE v # u
    <3>1. upload'[v] = upload[v] /\ EntryOK(upload[v]) /\ VerifiedOK(upload[v]) /\ SessionOK(upload[v])
      BY <2>2, <1>1, <1>3, <1>4
    <3>2. CASE upload[v].key = NoValue
      BY <3>1, <3>2 DEF VerifiedOK, SessionOK
    <3>3. CASE upload[v].key # NoValue
      <4>1. upload[v].key \in ObjectKeys /\ upload[v].key # next[u].key
        BY <3>1, <3>3, <2>2, <1>3, <1>4 DEF EntryOK, HasKey
      <4>2. PICK k \in ObjectKeys : k = upload[v].key
        BY <4>1
      <4>3. k # next[u].key
        BY <4>1, <4>2
      <4>4. object'[k] = object[k] /\ (Settled(k) => Settled(k)')
        BY <4>3
      <4>5. VerifiedOK(upload[v])'
        BY <3>1, <4>2, <4>4 DEF VerifiedOK
      <4>6. SessionOK(upload[v])'
        BY <3>1, <4>2, <4>4 DEF SessionOK, Settled
      <4> QED BY <3>1, <4>5, <4>6
    <3> QED BY <3>2, <3>3
  <2> QED BY <2>1, <2>2
<1>5. ASSUME NEW v \in Uploads, NEW w \in Uploads, HasKey(v)', HasKey(w)', upload'[v].key = upload'[w].key
      PROVE  v = w
  BY <1>5, <1>1, <1>3 DEF HasKey
<1>6. ASSUME NEW k \in ObjectKeys
      PROVE  Settled(k)' \/ \E v \in Uploads : HasKey(v)' /\ upload'[v].key = k
  <2>1. CASE k = next[u].key /\ k # NoValue
    BY <2>1, <1>1, <1>2 DEF HasKey
  <2>2. CASE k = next[u].key /\ k = NoValue
    BY <2>2, UploadConstants
  <2>3. CASE k # next[u].key
    <3>1. CASE Settled(k)
      BY <3>1, <2>3
    <3>2. CASE ~Settled(k)
      <4>1. PICK v \in Uploads : HasKey(v) /\ upload[v].key = k
        BY <3>2
      <4>2. v # u
        BY <4>1, <3>2, <2>3
      <4> QED BY <4>1, <4>2, <1>1, <1>3
    <3> QED BY <3>1, <3>2
  <2> QED BY <2>1, <2>2, <2>3
<1> QED BY <1>1, <1>4, <1>5, <1>6

\* A row whose keys were verified stays such a row while no verified entry lets go of its
\* key.
LEMMA VerifiedRowsStay ==
  ASSUME EntriesInv, NEW u \in Uploads, NEW next, upload' = next, OnlyEntry(next, u), EntryOK(next[u]),
         HasKey(u) /\ upload[u].verified => next[u].verified /\ next[u].key = upload[u].key,
         NEW x, RowOK(x)
  PROVE  RowOK(x)'
<1>1. upload'[u] = next[u] /\ \A v \in Uploads \ {u} : upload'[v] = upload[v]
  BY DEF EntriesInv, OnlyEntry
<1>2. ASSUME NEW kind \in DOMAIN Types, x[kind] # NoValue
      PROVE  \E v \in Uploads : HasKey(v)' /\ upload'[v].verified /\ upload'[v].key = x[kind]
  <2>1. PICK v \in Uploads : HasKey(v) /\ upload[v].verified /\ upload[v].key = x[kind]
    BY <1>2 DEF RowOK
  <2>2. CASE v = u
    BY <2>1, <2>2, <1>1 DEF HasKey, Listed, EntryOK
  <2>3. CASE v # u
    BY <2>1, <2>3, <1>1 DEF HasKey, Listed
  <2> QED BY <2>2, <2>3
<1> QED BY <1>2 DEF RowOK

\* A step of one entry that neither reads nor writes the title keeps its rows.
LEMMA EntryStepKeepsRows ==
  ASSUME UploadsInv, NEW u \in Uploads, NEW next, upload' = next, OnlyEntry(next, u), EntryOK(next[u]),
         HasKey(u) /\ upload[u].verified => next[u].verified /\ next[u].key = upload[u].key,
         next[u].step = "attaching" => Listed(u) /\ upload[u].step = "attaching",
         row' = row, attach' = attach
  PROVE  RowsKept'
<1> USE DEF UploadsInv, RowsKept
<1>1. \A x : RowOK(x) => RowOK(x)'
  BY VerifiedRowsStay
<1>2. RowOK(row)'
  <2>1. PICK x : x = row
    OBVIOUS
  <2> QED BY <2>1, <1>1 DEF RowOK
<1>3. ASSUME NEW v \in Uploads, Listed(v)', upload'[v].step = "attaching"
      PROVE  RowOK(attach[v])'
  <2>1. Listed(v) /\ upload[v].step = "attaching"
    BY <1>3 DEF Listed, EntriesInv, OnlyEntry
  <2>2. PICK x : x = attach[v]
    OBVIOUS
  <2>3. RowOK(x)
    BY <2>1, <2>2
  <2> QED BY <2>2, <2>3, <1>1 DEF RowOK
<1> QED BY <1>2, <1>3

-----------------------------------------------------------------------------
\* What start, cancel and retry write into an entry.

\* What Set leaves: the fields given are written, the others are as they were.
Written(next, u, fields) ==
  /\ OnlyEntry(next, u) /\ DOMAIN next[u] = Fields
  /\ \A x \in DOMAIN fields : next[u][x] = fields[x]
  /\ \A x \in Fields \ DOMAIN fields : next[u][x] = upload[u][x]

\* Set writes the fields it is given and nothing else.
LEMMA SetIs ==
  ASSUME EntriesInv, NEW u \in Uploads, Listed(u), NEW fields, DOMAIN fields \subseteq Fields
  PROVE  Written(Set(u, fields), u, fields)
<1> DEFINE r == [x \in DOMAIN upload[u] |-> IF x \in DOMAIN fields THEN fields[x] ELSE upload[u][x]]
<1> DEFINE next == Set(u, fields)
<1>1. OnlyEntry(next, u) /\ next[u] = r
  BY DEF Set, EntriesInv, OnlyEntry
<1>2. DOMAIN upload[u] = Fields
  BY DEF EntriesInv, EntryOK
<1> HIDE DEF next
<1>3. Written(next, u, fields)
  BY <1>1, <1>2 DEF Written
<1> QED BY <1>3 DEF next

\* What Ended leaves: the entry no longer runs; only its status may change with it.
ClosedEntry(next, u, fields) ==
  /\ OnlyEntry(next, u) /\ DOMAIN next[u] = Fields
  /\ next[u].running = FALSE /\ next[u].step = "ended"
  /\ "status" \in DOMAIN fields => next[u].status = fields["status"]
  /\ "status" \notin DOMAIN fields => next[u].status = upload[u].status
  /\ \A x \in Fields \ {"running", "step", "status"} : next[u][x] = upload[u][x]

\* Ended ends an entry and changes nothing but its status.
LEMMA EndedIs ==
  ASSUME EntriesInv, NEW u \in Uploads, Listed(u), NEW fields, DOMAIN fields \subseteq {"status"}
  PROVE  ClosedEntry(Ended(u, fields), u, fields)
<1>1. PICK all : all = [x \in {"running", "step"} \cup DOMAIN fields |->
                     CASE x = "running" -> FALSE [] x = "step" -> "ended" [] OTHER -> fields[x]]
  OBVIOUS
<1>2. DOMAIN all = {"running", "step"} \cup DOMAIN fields /\ DOMAIN all \subseteq Fields
  BY <1>1 DEF Fields
<1>3. all["running"] = FALSE /\ all["step"] = "ended"
      /\ ("status" \in DOMAIN fields => all["status"] = fields["status"])
  BY <1>1
<1>4. PICK next : next = Ended(u, fields)
  OBVIOUS
<1>5. next = Set(u, all)
  BY <1>1, <1>4 DEF Ended
<1>6. Written(next, u, all)
  BY <1>2, <1>5, SetIs
<1>7. next[u].running = FALSE /\ next[u].step = "ended"
  BY <1>2, <1>3, <1>6 DEF Written
<1>8. /\ "status" \in DOMAIN fields => next[u].status = fields["status"]
      /\ "status" \notin DOMAIN fields => next[u].status = upload[u].status
  BY <1>2, <1>3, <1>6 DEF Written, Fields
<1>9. \A x \in Fields \ {"running", "step", "status"} : next[u][x] = upload[u][x]
  BY <1>2, <1>6 DEF Written
<1>10. ClosedEntry(next, u, fields)
  BY <1>6, <1>7, <1>8, <1>9 DEF Written, ClosedEntry
<1> QED BY <1>4, <1>10

\* The catch of start ends the entry, or goes on to abort the multipart upload it still
\* remembers.
Caught(next, u) ==
  /\ OnlyEntry(next, u) /\ DOMAIN next[u] = Fields
  /\ next[u].status \in {"error", upload[u].status} /\ next[u].multipart = NoValue
  /\ \A x \in Fields \ {"running", "step", "status", "multipart"} : next[u][x] = upload[u][x]
  /\ \/ next[u].running = FALSE /\ next[u].step = "ended" /\ upload[u].multipart = NoValue
     \/ /\ next[u].running = upload[u].running /\ next[u].step = "clean"
        /\ upload[u].multipart # NoValue

\* That is what the catch of start does.
LEMMA CatchIs ==
  ASSUME EntriesInv, NEW u \in Uploads, Listed(u)
  PROVE  Caught(Catch(u), u)
<1>1. EntryOK(upload[u])
  BY DEF EntriesInv
<1>2. PICK next : next = Catch(u)
  OBVIOUS
<1>3. CASE Drop(u)
  <2>1. PICK none : none = <<>>
    OBVIOUS
  <2>2. DOMAIN none = {} /\ next = Ended(u, none)
    BY <2>1, <1>2, <1>3 DEF Catch
  <2>3. ClosedEntry(next, u, none)
    BY <2>2, EndedIs
  <2>4. upload[u].multipart = NoValue
    BY <1>1, <1>3 DEF Drop, EntryOK
  <2>5. next[u].multipart = NoValue
    BY <2>3, <2>4 DEF Fields, ClosedEntry
  <2>6. Caught(next, u)
    BY <2>2, <2>3, <2>4, <2>5 DEF ClosedEntry, Caught
  <2> QED BY <2>6, <1>2
<1>4. CASE ~Drop(u) /\ upload[u].multipart # NoValue
  <2>1. PICK f : f = [step |-> "clean", multipart |-> NoValue]
    OBVIOUS
  <2>2. DOMAIN f = {"step", "multipart"} /\ f["step"] = "clean" /\ f["multipart"] = NoValue
        /\ next = Set(u, f)
    BY <2>1, <1>2, <1>4 DEF Catch
  <2>3. DOMAIN f \subseteq Fields
    BY <2>2 DEF Fields
  <2>4. Written(next, u, f)
    BY <2>2, <2>3, SetIs
  <2>5. Caught(next, u)
    BY <2>2, <2>4, <1>4 DEF Fields, Written, Caught
  <2> QED BY <2>5, <1>2
<1>5. CASE ~Drop(u) /\ upload[u].multipart = NoValue
  <2>1. PICK f : f = [status |-> "error"]
    OBVIOUS
  <2>2. DOMAIN f = {"status"} /\ f["status"] = "error" /\ next = Ended(u, f)
    BY <2>1, <1>2, <1>5 DEF Catch
  <2>3. ClosedEntry(next, u, f)
    BY <2>2, EndedIs
  <2>4. Caught(next, u)
    BY <2>2, <2>3, <1>5 DEF Fields, ClosedEntry, Caught
  <2> QED BY <2>4, <1>2
<1> QED BY <1>3, <1>4, <1>5

-----------------------------------------------------------------------------
\* Steps of an entry that keeps its key.

\* A step of an entry that keeps its key and leaves the other keys' storage alone keeps
\* the invariant.
LEMMA OwnKeyStep ==
  ASSUME UploadsInv, NEW u \in Uploads, Listed(u), NEW next, upload' = next, OnlyEntry(next, u),
         DOMAIN session' = ObjectKeys, DOMAIN object' = ObjectKeys, row' = row, attach' = attach,
         EntryOK(next[u]), VerifiedOK(next[u])', SessionOK(next[u])',
         next[u].key = upload[u].key, upload[u].verified => next[u].verified,
         next[u].step = "attaching" => upload[u].step = "attaching",
         \A k \in ObjectKeys : k # upload[u].key =>
           object'[k] = object[k] /\ (Settled(k) => Settled(k)')
  PROVE  UploadsInv'
<1>1. EntriesInv
  BY DEF UploadsInv
<1>2. \A v \in Uploads : HasKey(v) /\ next[u].key # NoValue /\ upload[v].key = next[u].key => v = u
  BY <1>1 DEF EntriesInv, HasKey
<1>3. \A k \in ObjectKeys : k # next[u].key =>
        object'[k] = object[k] /\ (Settled(k) => Settled(k)')
  OBVIOUS
<1>4. HasKey(u) /\ upload[u].key # next[u].key => Settled(upload[u].key)
  OBVIOUS
<1>5. EntriesInv'
  BY <1>1, <1>2, <1>3, <1>4, EntryStepKeepsEntries
<1>6. RowsKept'
  BY EntryStepKeepsRows
<1> QED BY <1>5, <1>6 DEF UploadsInv

\* So does one that touches nothing but the entry.
LEMMA QuietEntryStep ==
  ASSUME UploadsInv, NEW u \in Uploads, Listed(u), NEW next, upload' = next, OnlyEntry(next, u),
         UNCHANGED <<session, object, aborting, leaked, row, attach>>,
         EntryOK(next[u]), VerifiedOK(next[u]), SessionOK(next[u]),
         next[u].key = upload[u].key, upload[u].verified => next[u].verified,
         next[u].step = "attaching" => upload[u].step = "attaching"
  PROVE  UploadsInv'
<1>1. DOMAIN session' = ObjectKeys /\ DOMAIN object' = ObjectKeys
  BY DEF UploadsInv, EntriesInv
<1>2. \A k \in ObjectKeys : k # upload[u].key =>
        object'[k] = object[k] /\ (Settled(k) => Settled(k)')
  BY DEF Settled
<1>3. VerifiedOK(next[u])' /\ SessionOK(next[u])'
  BY DEF VerifiedOK, SessionOK, Settled
<1>4. row' = row /\ attach' = attach
  OBVIOUS
<1> QED BY <1>1, <1>2, <1>3, <1>4, OwnKeyStep

\* What the invariant says of an entry of the tray.
LEMMA EntryIs ==
  ASSUME UploadsInv, NEW u \in Uploads, Listed(u)
  PROVE  EntriesInv /\ EntryOK(upload[u]) /\ VerifiedOK(upload[u]) /\ SessionOK(upload[u])
  BY DEF UploadsInv, EntriesInv

\* An entry taken off the tray stays what it was (dismiss).
LEMMA DismissKeepsInv ==
  ASSUME UploadsInv, NEW u \in Uploads, dismiss(u)
  PROVE  UploadsInv'
<1>1. Listed(u) /\ UNCHANGED <<session, object, aborting, leaked, row, attach>>
  BY DEF dismiss, InTray
<1>2. EntriesInv /\ EntryOK(upload[u]) /\ VerifiedOK(upload[u]) /\ SessionOK(upload[u])
  BY <1>1, EntryIs
<1>3. PICK f : f = [shown |-> FALSE]
  OBVIOUS
<1>4. PICK next : next = upload'
  OBVIOUS
<1>5. DOMAIN f = {"shown"} /\ DOMAIN f \subseteq Fields /\ next = Set(u, f)
  BY <1>3, <1>4 DEF Fields, dismiss
<1>6. Written(next, u, f)
  BY <1>1, <1>2, <1>5, SetIs
<1>7. next[u].status = upload[u].status /\ next[u].running = upload[u].running
      /\ next[u].step = upload[u].step /\ next[u].key = upload[u].key
      /\ next[u].multipart = upload[u].multipart /\ next[u].verified = upload[u].verified
      /\ next[u].file = upload[u].file
  BY <1>5, <1>6 DEF Written, Fields
<1>8. OnlyEntry(next, u) /\ EntryOK(next[u]) /\ VerifiedOK(next[u]) /\ SessionOK(next[u])
  BY <1>2, <1>6, <1>7 DEF Written, EntryOK, VerifiedOK, SessionOK
<1> QED BY <1>1, <1>4, <1>7, <1>8, QuietEntryStep

\* A retried entry goes on from what was verified or plans again, and then what it opened
\* before is settled (retry).
LEMMA RetryKeepsInv ==
  ASSUME UploadsInv, NEW u \in Uploads, retry(u)
  PROVE  UploadsInv'
<1>1. Listed(u) /\ ~upload[u].running /\ UNCHANGED <<session, object, aborting, leaked, row, attach>>
  BY DEF retry, InTray
<1>2. EntriesInv /\ EntryOK(upload[u]) /\ VerifiedOK(upload[u]) /\ SessionOK(upload[u])
  BY <1>1, EntryIs
<1>3. PICK f : f = [status |-> "uploading", running |-> TRUE, multipart |-> NoValue,
                    failed |-> FALSE, part |-> <<>>,
                    step |-> IF upload[u].verified THEN "attach" ELSE "presign"]
  OBVIOUS
<1>4. PICK next : next = upload'
  OBVIOUS
<1>5. /\ DOMAIN f = {"status", "running", "multipart", "failed", "part", "step"}
      /\ DOMAIN f \subseteq Fields /\ next = Set(u, f)
  BY <1>3, <1>4 DEF Fields, retry
<1>6. f["status"] = "uploading" /\ f["running"] = TRUE /\ f["multipart"] = NoValue
      /\ f["step"] = IF upload[u].verified THEN "attach" ELSE "presign"
  BY <1>3
<1>7. Written(next, u, f)
  BY <1>1, <1>2, <1>5, SetIs
<1>8. /\ next[u].status = "uploading" /\ next[u].running = TRUE /\ next[u].multipart = NoValue
      /\ next[u].step = IF upload[u].verified THEN "attach" ELSE "presign"
  BY <1>5, <1>6, <1>7 DEF Written
<1>9. next[u].key = upload[u].key /\ next[u].verified = upload[u].verified /\ next[u].file = upload[u].file
  BY <1>5, <1>7 DEF Written, Fields
<1>10. EntryOK(next[u])
  <2>1. upload[u].verified => next[u].key # NoValue
    BY <1>2, <1>9 DEF VerifiedOK
  <2>2. next[u].step \in {"attach", "presign"} /\ (next[u].step = "attach" => upload[u].verified)
    BY <1>8
  <2>3. DOMAIN next[u] = Fields
    BY <1>7 DEF Written
  <2> QED BY <1>2, <1>8, <1>9, <2>1, <2>2, <2>3 DEF EntryOK, Steps
<1>11. VerifiedOK(next[u])
  BY <1>2, <1>8, <1>9 DEF VerifiedOK
<1>12. SessionOK(next[u])
  BY <1>1, <1>2, <1>9 DEF SessionOK, EntryOK
<1>13. OnlyEntry(next, u) /\ (upload[u].verified => next[u].verified)
       /\ (next[u].step = "attaching" => upload[u].step = "attaching")
  BY <1>7, <1>8, <1>9 DEF Written
<1> QED BY <1>1, <1>4, <1>9, <1>10, <1>11, <1>12, <1>13, QuietEntryStep

\* The catch of start, where storage and rows are left alone.
LEMMA CatchKeepsInv ==
  ASSUME UploadsInv, NEW u \in Uploads, Listed(u), upload[u].running, upload' = Catch(u),
         UNCHANGED <<session, object, aborting, leaked, row, attach>>,
         upload[u].step \notin {"attach", "attaching", "clean"}
  PROVE  UploadsInv'
<1>1. EntriesInv /\ EntryOK(upload[u]) /\ VerifiedOK(upload[u]) /\ SessionOK(upload[u])
  BY EntryIs
<1>2. PICK next : next = upload'
  OBVIOUS
<1>3. Caught(next, u)
  BY <1>1, <1>2, CatchIs
<1>4. next[u].key = upload[u].key /\ next[u].verified = upload[u].verified /\ next[u].file = upload[u].file
  BY <1>3 DEF Caught, Fields
<1>5. EntryOK(next[u])
  <2>1. DOMAIN next[u] = Fields /\ next[u].status # "absent" /\ next[u].multipart = NoValue
    BY <1>1, <1>3 DEF Caught, EntryOK
  <2>2. next[u].step \in {"ended", "clean"} /\ next[u].running \in BOOLEAN
        /\ (next[u].step = "ended" <=> ~next[u].running)
    BY <1>1, <1>3 DEF Caught, EntryOK
  <2>3. next[u].step = "clean" => next[u].key # NoValue
    BY <1>1, <1>3, <1>4 DEF Caught, EntryOK
  <2> QED BY <1>1, <1>4, <2>1, <2>2, <2>3 DEF EntryOK, Steps
<1>6. VerifiedOK(next[u])
  BY <1>1, <1>3, <1>4 DEF Caught, EntryOK, VerifiedOK
<1>7. SessionOK(next[u])
  BY <1>1, <1>3, <1>4 DEF Caught, SessionOK, EntryOK
<1>8. OnlyEntry(next, u) /\ next[u].step # "attaching"
  BY <1>3 DEF Caught
<1> QED BY <1>2, <1>4, <1>5, <1>6, <1>7, <1>8, QuietEntryStep

\* Of the entry only the state of its parts changes.
PartMoved(next, u) ==
  /\ OnlyEntry(next, u) /\ DOMAIN next[u] = Fields
  /\ \A x \in Fields \ {"part", "failed"} : next[u][x] = upload[u][x]

\* An entry whose parts move stays what it was.
LEMMA PartMovedIs ==
  ASSUME UploadsInv, NEW u \in Uploads, Listed(u), NEW next, PartMoved(next, u)
  PROVE  /\ OnlyEntry(next, u) /\ EntryOK(next[u]) /\ VerifiedOK(next[u]) /\ SessionOK(next[u])
         /\ next[u].status = upload[u].status /\ next[u].running = upload[u].running
         /\ next[u].step = upload[u].step /\ next[u].key = upload[u].key
         /\ next[u].multipart = upload[u].multipart /\ next[u].verified = upload[u].verified
         /\ next[u].file = upload[u].file
<1>1. EntriesInv /\ EntryOK(upload[u]) /\ VerifiedOK(upload[u]) /\ SessionOK(upload[u])
  BY EntryIs
<1>2. next[u].status = upload[u].status /\ next[u].running = upload[u].running
      /\ next[u].step = upload[u].step /\ next[u].key = upload[u].key
      /\ next[u].multipart = upload[u].multipart /\ next[u].verified = upload[u].verified
      /\ next[u].file = upload[u].file
  BY DEF PartMoved, Fields
<1> QED BY <1>1, <1>2 DEF PartMoved, EntryOK, VerifiedOK, SessionOK

\* Parts that move without reaching storage keep the invariant.
LEMMA QuietPartKeepsInv ==
  ASSUME UploadsInv, NEW u \in Uploads, Listed(u), NEW next, upload' = next, PartMoved(next, u),
         UNCHANGED <<session, object, aborting, leaked, row, attach>>
  PROVE  UploadsInv'
<1>1. /\ OnlyEntry(next, u) /\ EntryOK(next[u]) /\ VerifiedOK(next[u]) /\ SessionOK(next[u])
      /\ next[u].step = upload[u].step /\ next[u].key = upload[u].key
      /\ next[u].verified = upload[u].verified
  BY PartMovedIs
<1> QED BY <1>1, QuietEntryStep

\* A write to one part is such a move.
LEMMA PartIsMoved ==
  ASSUME UploadsInv, NEW u \in Uploads, Listed(u), NEW n, NEW next, NEW value, NEW failed,
         next = [upload EXCEPT ![u].failed = failed, ![u].part[n] = value]
         \/ next = [upload EXCEPT ![u].part[n] = value]
  PROVE  PartMoved(next, u)
<1>1. DOMAIN upload[u] = Fields /\ upload = [v \in Uploads |-> upload[v]]
  BY DEF UploadsInv, EntriesInv, EntryOK
<1>2. DOMAIN next[u] = Fields
  BY <1>1
<1>3. \A x \in Fields \ {"part", "failed"} : next[u][x] = upload[u][x]
  BY <1>1
<1>4. OnlyEntry(next, u)
  BY <1>1 DEF OnlyEntry
<1> QED BY <1>2, <1>3, <1>4 DEF PartMoved

\* A worker takes a part (multipartPut).
LEMMA SendPartKeepsInv ==
  ASSUME UploadsInv, NEW u \in Uploads, SendPart(u)
  PROVE  UploadsInv'
<1>1. PICK n, next : next = upload'
        /\ next = [upload EXCEPT ![u].part[n] = [state |-> "sending", attempts |-> 1]]
  BY DEF SendPart
<1>2. Listed(u) /\ UNCHANGED <<session, object, aborting, leaked, row, attach>>
  BY DEF SendPart, At
<1>3. PartMoved(next, u)
  BY <1>1, <1>2, PartIsMoved
<1> QED BY <1>1, <1>2, <1>3, QuietPartKeepsInv

\* A part that fails waits, or fails the upload (multipartPut).
LEMMA PartFailsKeepsInv ==
  ASSUME UploadsInv, NEW u \in Uploads, NEW n, PartFails(u, n)
  PROVE  UploadsInv'
<1>1. PICK next : next = upload'
  OBVIOUS
<1>2. Listed(u) /\ UNCHANGED <<session, object, aborting, leaked, row, attach>>
  BY DEF PartFails, At
<1>3. DOMAIN upload[u] = Fields /\ upload = [v \in Uploads |-> upload[v]]
  BY <1>2 DEF UploadsInv, EntriesInv, EntryOK
<1>4. \/ next = [upload EXCEPT ![u].failed = TRUE, ![u].part[n].state = "dropped"]
      \/ next = [upload EXCEPT ![u].part[n].state = "pausing"]
  BY <1>1 DEF PartFails
<1>5. DOMAIN next[u] = Fields
  BY <1>3, <1>4
<1>6. \A x \in Fields \ {"part", "failed"} : next[u][x] = upload[u][x]
  BY <1>3, <1>4
<1>7. OnlyEntry(next, u)
  BY <1>3, <1>4 DEF OnlyEntry
<1> QED BY <1>1, <1>2, <1>5, <1>6, <1>7, QuietPartKeepsInv DEF PartMoved

\* A part is sent again (multipartPut).
LEMMA PartAgainKeepsInv ==
  ASSUME UploadsInv, NEW u \in Uploads, NEW n, PartAgain(u, n)
  PROVE  UploadsInv'
<1>1. PICK next : next = upload'
  OBVIOUS
<1>2. Listed(u) /\ UNCHANGED <<session, object, aborting, leaked, row, attach>>
  BY DEF PartAgain, At
<1>3. DOMAIN upload[u] = Fields /\ upload = [v \in Uploads |-> upload[v]]
  BY <1>2 DEF UploadsInv, EntriesInv, EntryOK
<1>4. PICK value : next = [upload EXCEPT ![u].part[n] = value]
  BY <1>1 DEF PartAgain
<1>5. PartMoved(next, u)
  BY <1>2, <1>4, PartIsMoved
<1> QED BY <1>1, <1>2, <1>5, QuietPartKeepsInv

\* A file that may not be uploaded ends its entry (presignUpload).
LEMMA PresignRefusedKeepsInv ==
  ASSUME UploadsInv, NEW u \in Uploads, PresignRefused(u)
  PROVE  UploadsInv'
<1>1. /\ Listed(u) /\ upload[u].running /\ upload' = Catch(u) /\ upload[u].step = "presign"
      /\ UNCHANGED <<session, object, aborting, leaked, row, attach>>
  BY DEF PresignRefused, At
<1> QED BY <1>1, CatchKeepsInv

\* The workers are done: the entry asks for its object, or is caught.
LEMMA PartsEndKeepsInv ==
  ASSUME UploadsInv, NEW u \in Uploads, PartsEnd(u)
  PROVE  UploadsInv'
<1>1. /\ Listed(u) /\ upload[u].running /\ upload[u].step = "parts"
      /\ UNCHANGED <<session, object, aborting, leaked, row, attach>>
  BY DEF PartsEnd, At
<1>2. CASE Stopped(u)
  <2>1. upload' = Catch(u)
    BY <1>2 DEF PartsEnd
  <2> QED BY <1>1, <2>1, CatchKeepsInv
<1>3. CASE ~Stopped(u)
  <2>1. EntriesInv /\ EntryOK(upload[u]) /\ VerifiedOK(upload[u]) /\ SessionOK(upload[u])
    BY <1>1, EntryIs
  <2>2. PICK f : f = [step |-> "complete"]
    OBVIOUS
  <2>3. PICK next : next = upload'
    OBVIOUS
  <2>4. DOMAIN f = {"step"} /\ f["step"] = "complete" /\ DOMAIN f \subseteq Fields /\ next = Set(u, f)
    BY <1>3, <2>2, <2>3 DEF Fields, PartsEnd
  <2>5. Written(next, u, f)
    BY <1>1, <2>1, <2>4, SetIs
  <2>6. next[u].step = "complete"
    BY <2>4, <2>5 DEF Written
  <2>7. next[u].status = upload[u].status /\ next[u].running = upload[u].running
        /\ next[u].key = upload[u].key /\ next[u].multipart = upload[u].multipart
        /\ next[u].verified = upload[u].verified /\ next[u].file = upload[u].file
    BY <2>4, <2>5 DEF Written, Fields
  <2>8. EntryOK(next[u])
    BY <1>1, <2>1, <2>5, <2>6, <2>7 DEF Written, EntryOK, Steps
  <2>9. VerifiedOK(next[u]) /\ SessionOK(next[u])
    BY <1>1, <2>1, <2>6, <2>7 DEF VerifiedOK, SessionOK
  <2>10. OnlyEntry(next, u)
    BY <2>5 DEF Written
  <2> QED BY <1>1, <2>3, <2>6, <2>7, <2>8, <2>9, <2>10, QuietEntryStep
<1> QED BY <1>2, <1>3

\* An entry that remembers no multipart upload may end.
LEMMA DroppedIs ==
  ASSUME UploadsInv, NEW u \in Uploads, Listed(u), upload[u].multipart = NoValue,
         NEW next, next = Ended(u, <<>>) \/ next = Ended(u, [status |-> "error"])
                   \/ next = Ended(u, [status |-> "done"])
  PROVE  /\ OnlyEntry(next, u) /\ EntryOK(next[u]) /\ next[u].step = "ended"
         /\ next[u].key = upload[u].key /\ next[u].multipart = NoValue
         /\ next[u].verified = upload[u].verified /\ next[u].file = upload[u].file
<1>1. EntriesInv /\ EntryOK(upload[u])
  BY EntryIs
<1>2. PICK f : f \in {<<>>, [status |-> "error"], [status |-> "done"]} /\ next = Ended(u, f)
  OBVIOUS
<1>3. DOMAIN f \subseteq {"status"} /\ ("status" \in DOMAIN f => f["status"] \in {"error", "done"})
  BY <1>2
<1>4. ClosedEntry(next, u, f)
  BY <1>1, <1>2, <1>3, EndedIs
<1>5. next[u].status # "absent" /\ next[u].running = FALSE /\ next[u].step = "ended"
      /\ DOMAIN next[u] = Fields
  BY <1>1, <1>3, <1>4 DEF ClosedEntry, EntryOK
<1>6. next[u].key = upload[u].key /\ next[u].multipart = NoValue
      /\ next[u].verified = upload[u].verified /\ next[u].file = upload[u].file
  BY <1>4 DEF ClosedEntry, Fields
<1> QED BY <1>1, <1>4, <1>5, <1>6 DEF EntryOK, ClosedEntry, Steps

\* A cancelled entry remembers no multipart upload: cancel took it to abort it.
LEMMA DroppedHasNoMultipart ==
  ASSUME UploadsInv, NEW u \in Uploads, Listed(u), Drop(u)
  PROVE  upload[u].multipart = NoValue
  BY EntryIs DEF EntryOK, Drop

\* Only an object of the right size is verified (uploadStat).
LEMMA StatKeepsInv ==
  ASSUME UploadsInv, NEW u \in Uploads, Stat(u)
  PROVE  UploadsInv'
<1>1. /\ Listed(u) /\ upload[u].running /\ upload[u].step = "stat"
      /\ UNCHANGED <<session, object, aborting, leaked, row, attach>>
  BY DEF Stat, At
<1>2. EntriesInv /\ EntryOK(upload[u]) /\ VerifiedOK(upload[u]) /\ SessionOK(upload[u])
  BY <1>1, EntryIs
<1>3. upload[u].multipart = NoValue
  BY <1>1, <1>2 DEF EntryOK
<1>4. Settled(upload[u].key) /\ upload[u].key # NoValue
  BY <1>1, <1>2, <1>3 DEF EntryOK, SessionOK
<1>5. PICK next : next = upload'
  OBVIOUS
<1>6. CASE Drop(u)
  <2>1. next = Ended(u, <<>>)
    BY <1>5, <1>6 DEF Stat
  <2>2. /\ OnlyEntry(next, u) /\ EntryOK(next[u]) /\ next[u].step = "ended"
        /\ next[u].key = upload[u].key
        /\ next[u].verified = upload[u].verified /\ next[u].file = upload[u].file
    BY <1>1, <1>3, <2>1, DroppedIs
  <2>3. VerifiedOK(next[u]) /\ SessionOK(next[u])
    BY <1>1, <1>2, <1>4, <2>2 DEF VerifiedOK, SessionOK
  <2> QED BY <1>1, <1>5, <2>2, <2>3, QuietEntryStep
<1>7. CASE ~Drop(u) /\ object[upload[u].key] = upload[u].file.size
  <2>1. PICK f : f = [step |-> "attach", verified |-> TRUE]
    OBVIOUS
  <2>2. DOMAIN f = {"step", "verified"} /\ f["step"] = "attach" /\ f["verified"] = TRUE
        /\ DOMAIN f \subseteq Fields /\ next = Set(u, f)
    BY <1>5, <1>7, <2>1 DEF Stat, Fields
  <2>3. Written(next, u, f)
    BY <1>1, <1>2, <2>2, SetIs
  <2>4. next[u].step = "attach" /\ next[u].verified = TRUE
    BY <2>2, <2>3 DEF Written
  <2>5. next[u].status = upload[u].status /\ next[u].running = upload[u].running
        /\ next[u].key = upload[u].key /\ next[u].multipart = upload[u].multipart
        /\ next[u].file = upload[u].file
    BY <2>2, <2>3 DEF Written, Fields
  <2>6. EntryOK(next[u])
    BY <1>1, <1>2, <1>3, <1>4, <2>3, <2>4, <2>5 DEF Written, EntryOK, Steps
  <2>7. VerifiedOK(next[u]) /\ SessionOK(next[u])
    BY <1>1, <1>2, <1>4, <1>7, <2>4, <2>5 DEF VerifiedOK, SessionOK
  <2>8. OnlyEntry(next, u)
    BY <2>3 DEF Written
  <2> QED BY <1>1, <1>5, <2>4, <2>5, <2>6, <2>7, <2>8, QuietEntryStep
<1>8. CASE ~Drop(u) /\ object[upload[u].key] # upload[u].file.size
  <2>1. upload' = Catch(u)
    BY <1>8 DEF Stat
  <2> QED BY <1>1, <2>1, CatchKeepsInv
<1> QED BY <1>6, <1>7, <1>8

\* A cancelled entry's multipart upload is on its way to be aborted (cancel).
LEMMA CancelKeepsInv ==
  ASSUME UploadsInv, NEW u \in Uploads, cancel(u)
  PROVE  UploadsInv'
<1>1. Listed(u) /\ UNCHANGED <<session, object, leaked, row, attach>>
  BY DEF cancel, InTray
<1>2. EntriesInv /\ EntryOK(upload[u]) /\ VerifiedOK(upload[u]) /\ SessionOK(upload[u])
  BY <1>1, EntryIs
<1>3. PICK f, next : f = [status |-> "cancelled", multipart |-> NoValue] /\ next = upload'
  OBVIOUS
<1>4. DOMAIN f = {"status", "multipart"} /\ f["status"] = "cancelled" /\ f["multipart"] = NoValue
      /\ DOMAIN f \subseteq Fields /\ next = Set(u, f)
  BY <1>3 DEF cancel, Fields
<1>5. Written(next, u, f)
  BY <1>1, <1>2, <1>4, SetIs
<1>6. next[u].status = "cancelled" /\ next[u].multipart = NoValue
  BY <1>4, <1>5 DEF Written
<1>7. next[u].step = upload[u].step /\ next[u].running = upload[u].running
      /\ next[u].key = upload[u].key /\ next[u].verified = upload[u].verified
      /\ next[u].file = upload[u].file
  BY <1>4, <1>5 DEF Written, Fields
<1>8. EntryOK(next[u])
  BY <1>2, <1>5, <1>6, <1>7 DEF Written, EntryOK
<1>9. VerifiedOK(next[u])'
  BY <1>1, <1>2, <1>7 DEF VerifiedOK
<1>10. aborting \subseteq aborting' /\ (upload[u].multipart # NoValue => upload[u].multipart \in aborting')
  BY DEF cancel
<1>11. SessionOK(next[u])'
  BY <1>1, <1>2, <1>6, <1>7, <1>10 DEF SessionOK, Settled, EntryOK
<1>12. DOMAIN session' = ObjectKeys /\ DOMAIN object' = ObjectKeys
  BY <1>1, <1>2 DEF EntriesInv
<1>13. \A k \in ObjectKeys : k # upload[u].key =>
         object'[k] = object[k] /\ (Settled(k) => Settled(k)')
  BY <1>1, <1>10 DEF Settled
<1>14. OnlyEntry(next, u) /\ row' = row /\ attach' = attach
  BY <1>1, <1>5 DEF Written
<1> QED BY <1>1, <1>3, <1>7, <1>8, <1>9, <1>11, <1>12, <1>13, <1>14, OwnKeyStep

-----------------------------------------------------------------------------
\* Steps that write the object or the session of the entry's own key.

\* Bytes of a part reach an open session, which stays open (uploadPart).
LEMMA PartStoredKeepsInv ==
  ASSUME UploadsInv, NEW u \in Uploads, NEW n,
         PartStored(u, n) \/ PartDropped(u, n)
  PROVE  UploadsInv'
<1>1. Listed(u) /\ upload[u].running /\ upload[u].step = "parts" /\ UNCHANGED <<object, aborting, leaked, row, attach>>
  BY DEF PartStored, PartDropped, At
<1>2. EntriesInv /\ EntryOK(upload[u]) /\ VerifiedOK(upload[u]) /\ SessionOK(upload[u])
  BY <1>1, EntryIs
<1>3. DOMAIN upload[u] = Fields /\ upload = [v \in Uploads |-> upload[v]] /\ upload[u].key \in ObjectKeys
      /\ DOMAIN session = ObjectKeys
  BY <1>1, <1>2 DEF EntriesInv, EntryOK
<1>4. PICK next : next = upload'
  OBVIOUS
<1>5. \/ next = [upload EXCEPT ![u].part[n].state = "sent"]
      \/ next = [upload EXCEPT ![u].part[n].state = "dropped"]
  BY <1>4 DEF PartStored, PartDropped
<1>6. PartMoved(next, u)
  <2>1. DOMAIN next[u] = Fields
    BY <1>3, <1>5
  <2>2. \A x \in Fields \ {"part", "failed"} : next[u][x] = upload[u][x]
    BY <1>3, <1>5
  <2>3. OnlyEntry(next, u)
    BY <1>3, <1>5 DEF OnlyEntry
  <2> QED BY <2>1, <2>2, <2>3 DEF PartMoved
<1>7. PICK k \in ObjectKeys : k = upload[u].key
  BY <1>3
<1>8. \/ session' = session
      \/ session[k] # Closed /\ session' = [session EXCEPT ![k] = @ \cup {n}]
  BY <1>7 DEF PartStored, PartDropped
<1>9. DOMAIN session' = ObjectKeys /\ DOMAIN object' = ObjectKeys
      /\ \A j \in ObjectKeys : session[j] = Closed => session'[j] = Closed
  BY <1>1, <1>2, <1>3, <1>8 DEF EntriesInv
<1>10. \A j \in ObjectKeys : Settled(j) => Settled(j)'
  BY <1>1, <1>9 DEF Settled
<1>11. /\ OnlyEntry(next, u) /\ EntryOK(next[u]) /\ VerifiedOK(next[u]) /\ SessionOK(next[u])
       /\ next[u].step = upload[u].step /\ next[u].key = upload[u].key
       /\ next[u].verified = upload[u].verified
  BY <1>1, <1>6, PartMovedIs
<1>12. VerifiedOK(next[u])'
  BY <1>1, <1>11 DEF VerifiedOK
<1>13. SessionOK(next[u])'
  BY <1>1, <1>3, <1>9, <1>11 DEF SessionOK, Settled
<1>14. \A j \in ObjectKeys : j # upload[u].key => object'[j] = object[j] /\ (Settled(j) => Settled(j)')
  BY <1>1, <1>10
<1>15. row' = row /\ attach' = attach
  BY <1>1
<1> QED BY <1>1, <1>4, <1>9, <1>11, <1>12, <1>13, <1>14, <1>15, OwnKeyStep

\* An entry whose bytes are not verified, while its own object or session changes.
LEMMA StorageStep ==
  ASSUME UploadsInv, NEW u \in Uploads, Listed(u), ~upload[u].verified,
         NEW next, upload' = next, OnlyEntry(next, u), EntryOK(next[u]),
         next[u].key = upload[u].key, next[u].verified = upload[u].verified,
         next[u].step \notin {"attach", "attaching"},
         DOMAIN session' = ObjectKeys, DOMAIN object' = ObjectKeys,
         \A k \in ObjectKeys : k # upload[u].key => session'[k] = session[k] /\ object'[k] = object[k],
         UNCHANGED <<aborting, row, attach>>, leaked \subseteq leaked',
         SessionOK(next[u])'
  PROVE  UploadsInv'
<1>1. VerifiedOK(next[u])'
  BY DEF VerifiedOK
<1>2. \A k \in ObjectKeys : k # upload[u].key =>
        object'[k] = object[k] /\ (Settled(k) => Settled(k)')
  BY DEF Settled
<1>3. row' = row /\ attach' = attach
  OBVIOUS
<1> QED BY <1>1, <1>2, <1>3, OwnKeyStep

\* An entry that is caught is still an entry in order.
LEMMA CaughtOK ==
  ASSUME UploadsInv, NEW u \in Uploads, Listed(u), upload[u].running, NEW next, Caught(next, u)
  PROVE  /\ OnlyEntry(next, u) /\ EntryOK(next[u]) /\ next[u].step \in {"clean", "ended"}
         /\ next[u].key = upload[u].key /\ next[u].verified = upload[u].verified
         /\ next[u].file = upload[u].file /\ next[u].multipart = NoValue
         /\ next[u].step = "ended" => upload[u].multipart = NoValue
<1>1. EntriesInv /\ EntryOK(upload[u])
  BY EntryIs
<1>2. next[u].key = upload[u].key /\ next[u].verified = upload[u].verified /\ next[u].file = upload[u].file
  BY DEF Caught, Fields
<1>3. DOMAIN next[u] = Fields /\ next[u].status # "absent" /\ next[u].multipart = NoValue
  BY <1>1 DEF Caught, EntryOK
<1>4. next[u].step \in {"ended", "clean"} /\ next[u].running \in BOOLEAN
      /\ (next[u].step = "ended" <=> ~next[u].running)
  BY <1>1 DEF Caught, EntryOK
<1>5. next[u].step = "clean" => next[u].key # NoValue
  BY <1>1, <1>2 DEF Caught, EntryOK
<1>6. EntryOK(next[u])
  BY <1>1, <1>2, <1>3, <1>4, <1>5 DEF EntryOK, Steps
<1> QED BY <1>2, <1>3, <1>4, <1>6 DEF Caught

\* An entry that was sent whole goes on to its verification.
LEMMA StepIs ==
  ASSUME UploadsInv, NEW u \in Uploads, Listed(u), upload[u].key # NoValue, upload[u].running,
         NEW next, next = Set(u, [step |-> "stat"]), upload[u].multipart = NoValue
  PROVE  /\ OnlyEntry(next, u) /\ EntryOK(next[u]) /\ next[u].step = "stat"
         /\ next[u].key = upload[u].key /\ next[u].verified = upload[u].verified
<1>1. EntriesInv /\ EntryOK(upload[u])
  BY EntryIs
<1>2. PICK f : f = [step |-> "stat"]
  OBVIOUS
<1>3. DOMAIN f = {"step"} /\ f["step"] = "stat" /\ DOMAIN f \subseteq Fields /\ next = Set(u, f)
  BY <1>2 DEF Fields
<1>4. Written(next, u, f)
  BY <1>1, <1>3, SetIs
<1>5. next[u].step = "stat"
  BY <1>3, <1>4 DEF Written
<1>6. next[u].status = upload[u].status /\ next[u].running = upload[u].running
      /\ next[u].key = upload[u].key /\ next[u].multipart = upload[u].multipart
      /\ next[u].verified = upload[u].verified /\ next[u].file = upload[u].file
  BY <1>3, <1>4 DEF Written, Fields
<1> QED BY <1>1, <1>4, <1>5, <1>6 DEF Written, EntryOK, Steps

\* A single PUT writes the entry's own object, which nobody has verified.
LEMMA PutKeepsInv ==
  ASSUME UploadsInv, NEW u \in Uploads, PutDone(u) \/ PutFails(u)
  PROVE  UploadsInv'
<1>1. /\ Listed(u) /\ upload[u].running /\ upload[u].step = "put"
      /\ UNCHANGED <<session, aborting, leaked, row, attach>>
  BY DEF PutDone, PutFails, At
<1>2. EntriesInv /\ EntryOK(upload[u]) /\ VerifiedOK(upload[u]) /\ SessionOK(upload[u])
  BY <1>1, EntryIs
<1>3. upload[u].multipart = NoValue /\ upload[u].key \in ObjectKeys /\ upload[u].key # NoValue
      /\ Settled(upload[u].key) /\ ~upload[u].verified
  BY <1>1, <1>2 DEF EntryOK, SessionOK, VerifiedOK
<1>4. object' = object \/ object' = [object EXCEPT ![upload[u].key] = upload[u].file.size]
  BY DEF PutDone, PutFails
<1>5. DOMAIN session' = ObjectKeys /\ DOMAIN object' = ObjectKeys
      /\ \A k \in ObjectKeys : k # upload[u].key => session'[k] = session[k] /\ object'[k] = object[k]
  BY <1>1, <1>2, <1>3, <1>4 DEF EntriesInv
<1>6. PICK next : next = upload'
  OBVIOUS
<1>7. /\ OnlyEntry(next, u) /\ EntryOK(next[u]) /\ next[u].step \notin {"attach", "attaching"}
      /\ next[u].key = upload[u].key /\ next[u].verified = upload[u].verified
  <2>1. CASE PutDone(u)
    <3>1. next = Set(u, [step |-> "stat"])
      BY <2>1, <1>6 DEF PutDone
    <3> QED BY <1>1, <1>3, <3>1, StepIs
  <2>2. CASE PutFails(u)
    <3>1. Caught(next, u)
      BY <2>2, <1>1, <1>2, <1>6, CatchIs DEF PutFails
    <3> QED BY <1>1, <3>1, CaughtOK
  <2> QED BY <2>1, <2>2
<1>8. SessionOK(next[u])'
  BY <1>1, <1>3, <1>7 DEF SessionOK, Settled
<1> QED BY <1>1, <1>3, <1>5, <1>6, <1>7, <1>8, StorageStep

\* The object is assembled and the session closed, or the entry is caught
\* (completeMultipartUpload); a late answer to a cancelled entry changes nothing.
LEMMA CompleteKeepsInv ==
  ASSUME UploadsInv, NEW u \in Uploads, NEW ok \in BOOLEAN, Complete(u, ok)
  PROVE  UploadsInv'
<1>1. /\ Listed(u) /\ upload[u].running /\ upload[u].step = "complete"
      /\ UNCHANGED <<aborting, leaked, row, attach>>
  BY DEF Complete, At
<1>2. EntriesInv /\ EntryOK(upload[u]) /\ VerifiedOK(upload[u]) /\ SessionOK(upload[u])
  BY <1>1, EntryIs
<1>3. upload[u].key \in ObjectKeys /\ upload[u].key # NoValue /\ ~upload[u].verified
  BY <1>1, <1>2 DEF EntryOK, VerifiedOK
<1>4. PICK k, next : k \in ObjectKeys /\ k = upload[u].key /\ next = upload'
  BY <1>3
<1>5. \/ session' = session /\ object' = object
      \/ session' = [session EXCEPT ![k] = Closed]
         /\ object' = [object EXCEPT ![k] = Cardinality(PartsIn(u, {"sent"}))]
  BY <1>4 DEF Complete
<1>6. DOMAIN session' = ObjectKeys /\ DOMAIN object' = ObjectKeys
      /\ \A j \in ObjectKeys : j # upload[u].key => session'[j] = session[j] /\ object'[j] = object[j]
  BY <1>2, <1>4, <1>5 DEF EntriesInv
<1>7. session'[k] = Closed \/ session' = session
  BY <1>2, <1>4, <1>5 DEF EntriesInv
<1>8. /\ OnlyEntry(next, u) /\ EntryOK(next[u]) /\ next[u].step \notin {"attach", "attaching"}
      /\ next[u].key = upload[u].key /\ next[u].verified = upload[u].verified
      /\ session'[k] = Closed \/ next[u].step = "clean" \/ Settled(k)
  <2>1. CASE upload' = Catch(u)
    <3>1. Caught(next, u)
      BY <2>1, <1>1, <1>2, <1>4, CatchIs
    <3>2. /\ OnlyEntry(next, u) /\ EntryOK(next[u]) /\ next[u].step \in {"clean", "ended"}
          /\ next[u].key = upload[u].key /\ next[u].verified = upload[u].verified
          /\ next[u].step = "ended" => upload[u].multipart = NoValue
      BY <1>1, <3>1, CaughtOK
    <3> QED BY <1>1, <1>2, <1>3, <1>4, <3>2 DEF SessionOK
  <2>2. CASE upload' # Catch(u)
    <3>1. /\ upload' = IF Drop(u) THEN Ended(u, <<>>)
                       ELSE Set(u, [step |-> "stat", multipart |-> NoValue])
          /\ session' = [session EXCEPT ![k] = Closed]
      BY <2>2, <1>4 DEF Complete
    <3>2. session'[k] = Closed
      BY <3>1, <1>2, <1>4 DEF EntriesInv
    <3>3. CASE Drop(u)
      <4>1. next = Ended(u, <<>>) /\ upload[u].multipart = NoValue
        BY <3>1, <3>3, <1>1, <1>4, DroppedHasNoMultipart
      <4> QED BY <1>1, <4>1, <3>2, DroppedIs
    <3>4. CASE ~Drop(u)
      <4>1. PICK f : f = [step |-> "stat", multipart |-> NoValue]
        OBVIOUS
      <4>2. DOMAIN f = {"step", "multipart"} /\ f["step"] = "stat" /\ f["multipart"] = NoValue
            /\ DOMAIN f \subseteq Fields /\ next = Set(u, f)
        BY <3>1, <3>4, <1>4, <4>1 DEF Fields
      <4>3. Written(next, u, f)
        BY <1>1, <1>2, <4>2, SetIs
      <4>4. next[u].step = "stat" /\ next[u].multipart = NoValue
        BY <4>2, <4>3 DEF Written
      <4>5. next[u].status = upload[u].status /\ next[u].running = upload[u].running
            /\ next[u].key = upload[u].key /\ next[u].verified = upload[u].verified
            /\ next[u].file = upload[u].file
        BY <4>2, <4>3 DEF Written, Fields
      <4>6. EntryOK(next[u])
        BY <1>1, <1>2, <1>3, <4>3, <4>4, <4>5 DEF Written, EntryOK, Steps
      <4> QED BY <3>2, <4>3, <4>4, <4>5, <4>6 DEF Written
    <3> QED BY <3>3, <3>4
  <2> QED BY <2>1, <2>2
<1>9. SessionOK(next[u])'
  BY <1>1, <1>4, <1>7, <1>8 DEF SessionOK, Settled
<1> QED BY <1>1, <1>3, <1>4, <1>6, <1>8, <1>9, StorageStep

\* The abort that start awaits closes the session, or its loss is known.
LEMMA CleanedKeepsInv ==
  ASSUME UploadsInv, NEW u \in Uploads, NEW ok \in BOOLEAN, Cleaned(u, ok)
  PROVE  UploadsInv'
<1>1. /\ Listed(u) /\ upload[u].running /\ upload[u].step = "clean"
      /\ UNCHANGED <<object, aborting, row, attach>>
  BY DEF Cleaned, At
<1>2. EntriesInv /\ EntryOK(upload[u]) /\ VerifiedOK(upload[u]) /\ SessionOK(upload[u])
  BY <1>1, EntryIs
<1>3. upload[u].multipart = NoValue /\ upload[u].key \in ObjectKeys /\ upload[u].key # NoValue
      /\ ~upload[u].verified
  BY <1>1, <1>2 DEF EntryOK, VerifiedOK
<1>4. PICK k, next : k \in ObjectKeys /\ k = upload[u].key /\ next = upload'
  BY <1>3
<1>5. session' = session \/ session' = [session EXCEPT ![k] = Closed]
  BY <1>4 DEF Cleaned
<1>6. leaked \subseteq leaked' /\ (session'[k] = Closed \/ k \in leaked')
  BY <1>2, <1>4 DEF Cleaned, EntriesInv
<1>7. DOMAIN session' = ObjectKeys /\ DOMAIN object' = ObjectKeys
      /\ \A j \in ObjectKeys : j # upload[u].key => session'[j] = session[j] /\ object'[j] = object[j]
  BY <1>1, <1>2, <1>4, <1>5 DEF EntriesInv
<1>8. next = Ended(u, <<>>) \/ next = Ended(u, [status |-> "error"])
  BY <1>4 DEF Cleaned
<1>9. /\ OnlyEntry(next, u) /\ EntryOK(next[u]) /\ next[u].step = "ended"
      /\ next[u].key = upload[u].key /\ next[u].verified = upload[u].verified
  BY <1>1, <1>3, <1>8, DroppedIs
<1>10. SessionOK(next[u])'
  BY <1>4, <1>6, <1>9 DEF SessionOK, Settled
<1> QED BY <1>1, <1>3, <1>4, <1>6, <1>7, <1>9, <1>10, StorageStep

-----------------------------------------------------------------------------
\* The title's row.

\* The row that is read for the attachment is in order (onAttached).
LEMMA ReadForAttachKeepsInv ==
  ASSUME UploadsInv, NEW u \in Uploads, ReadForAttach(u)
  PROVE  UploadsInv'
<1>1. /\ Listed(u) /\ upload[u].running /\ upload[u].step = "attach"
      /\ UNCHANGED <<session, object, aborting, leaked, row>> /\ attach' = [attach EXCEPT ![u] = row]
  BY DEF ReadForAttach, At
<1>2. EntriesInv /\ EntryOK(upload[u]) /\ VerifiedOK(upload[u]) /\ SessionOK(upload[u])
  BY <1>1, EntryIs
<1>3. PICK f, next : f = [step |-> "attaching"] /\ next = upload'
  OBVIOUS
<1>4. DOMAIN f = {"step"} /\ f["step"] = "attaching" /\ DOMAIN f \subseteq Fields /\ next = Set(u, f)
  BY <1>3 DEF Fields, ReadForAttach
<1>5. Written(next, u, f)
  BY <1>1, <1>2, <1>4, SetIs
<1>6. next[u].step = "attaching" /\ DOMAIN next[u] = Fields /\ OnlyEntry(next, u)
  BY <1>4, <1>5 DEF Written
<1>7. next[u].status = upload[u].status /\ next[u].running = upload[u].running
      /\ next[u].key = upload[u].key /\ next[u].multipart = upload[u].multipart
      /\ next[u].verified = upload[u].verified /\ next[u].file = upload[u].file
  BY <1>4, <1>5 DEF Written, Fields
<1>8. EntryOK(next[u])
  BY <1>1, <1>2, <1>6, <1>7 DEF EntryOK, Steps
<1>9. VerifiedOK(next[u])' /\ SessionOK(next[u])'
  BY <1>1, <1>2, <1>6, <1>7 DEF VerifiedOK, SessionOK, Settled
<1>10. EntriesInv'
  <2>1. \A v \in Uploads : HasKey(v) /\ next[u].key # NoValue /\ upload[v].key = next[u].key => v = u
    BY <1>1, <1>2, <1>7 DEF EntriesInv, HasKey
  <2>2. \A k \in ObjectKeys : k # next[u].key => object'[k] = object[k] /\ (Settled(k) => Settled(k)')
    BY <1>1 DEF Settled
  <2>3. DOMAIN session' = ObjectKeys /\ DOMAIN object' = ObjectKeys
    BY <1>1, <1>2 DEF EntriesInv
  <2>4. HasKey(u) /\ upload[u].key # next[u].key => Settled(upload[u].key)
    BY <1>7
  <2> QED BY <1>2, <1>3, <1>6, <1>8, <1>9, <2>1, <2>2, <2>3, <2>4, EntryStepKeepsEntries
<1>11. \A x : RowOK(x) => RowOK(x)'
  BY <1>2, <1>3, <1>6, <1>7, <1>8, VerifiedRowsStay
<1>12. RowsKept'
  <2>1. PICK x : x = row
    OBVIOUS
  <2>2. RowOK(x) /\ RowOK(x)'
    BY <1>11, <2>1 DEF UploadsInv, RowsKept
  <2>3. RowOK(row)'
    BY <1>1, <2>1, <2>2 DEF RowOK
  <2>4. attach = [v \in Uploads |-> attach[v]]
    BY DEF UploadsInv, RowsKept
  <2>5. attach' = [v \in Uploads |-> attach'[v]] /\ attach'[u] = x
        /\ \A v \in Uploads \ {u} : attach'[v] = attach[v]
    BY <1>1, <2>1, <2>4
  <2>6. ASSUME NEW v \in Uploads, Listed(v)', upload'[v].step = "attaching"
        PROVE  RowOK(attach[v])'
    <3>1. CASE v = u
      BY <3>1, <2>2, <2>5 DEF RowOK
    <3>2. CASE v # u
      <4>1. Listed(v) /\ upload[v].step = "attaching"
        BY <2>6, <3>2, <1>2, <1>3, <1>6 DEF Listed, EntriesInv, OnlyEntry
      <4>2. PICK y : y = attach[v]
        OBVIOUS
      <4>3. RowOK(y)'
        BY <1>11, <4>1, <4>2 DEF UploadsInv, RowsKept
      <4> QED BY <4>2, <4>3, <2>5, <3>2 DEF RowOK
    <3> QED BY <3>1, <3>2
  <2> QED BY <2>3, <2>5, <2>6 DEF RowsKept
<1> QED BY <1>10, <1>12 DEF UploadsInv

\* The key that is attached was verified, and the columns written with it were in order
\* when they were read (onAttached).
LEMMA AttachKeepsInv ==
  ASSUME UploadsInv, NEW u \in Uploads, NEW ok \in BOOLEAN, Attach(u, ok)
  PROVE  UploadsInv'
<1>1. /\ Listed(u) /\ upload[u].running /\ upload[u].step = "attaching"
      /\ UNCHANGED <<session, object, aborting, leaked>> /\ attach' = [attach EXCEPT ![u] = NoValue]
  BY DEF Attach, At
<1>2. EntriesInv /\ EntryOK(upload[u]) /\ VerifiedOK(upload[u]) /\ SessionOK(upload[u])
  BY <1>1, EntryIs
<1>3. upload[u].multipart = NoValue /\ upload[u].verified /\ upload[u].key # NoValue
      /\ upload[u].file.kind \in DOMAIN Types
  BY <1>1, <1>2 DEF EntryOK, VerifiedOK
<1>4. PICK next : next = upload'
  OBVIOUS
<1>5. /\ OnlyEntry(next, u) /\ EntryOK(next[u]) /\ next[u].step = "ended"
      /\ next[u].key = upload[u].key /\ next[u].verified = upload[u].verified
      /\ next[u].file = upload[u].file
  <2>1. CASE upload' = Catch(u)
    <3>1. Caught(next, u)
      BY <2>1, <1>1, <1>2, <1>4, CatchIs
    <3>2. next[u].step = "ended"
      BY <1>3, <3>1 DEF Caught
    <3> QED BY <1>1, <3>1, <3>2, CaughtOK
  <2>2. CASE upload' # Catch(u)
    <3>1. next = Ended(u, <<>>) \/ next = Ended(u, [status |-> "done"])
      BY <2>2, <1>4 DEF Attach
    <3> QED BY <1>1, <1>3, <3>1, DroppedIs
  <2> QED BY <2>1, <2>2
<1>6. VerifiedOK(next[u])' /\ SessionOK(next[u])'
  BY <1>1, <1>2, <1>3, <1>5 DEF VerifiedOK, SessionOK, Settled
<1>7. EntriesInv'
  <2>1. \A v \in Uploads : HasKey(v) /\ next[u].key # NoValue /\ upload[v].key = next[u].key => v = u
    BY <1>1, <1>2, <1>5 DEF EntriesInv, HasKey
  <2>2. \A k \in ObjectKeys : k # next[u].key => object'[k] = object[k] /\ (Settled(k) => Settled(k)')
    BY <1>1 DEF Settled
  <2>3. DOMAIN session' = ObjectKeys /\ DOMAIN object' = ObjectKeys
    BY <1>1, <1>2 DEF EntriesInv
  <2>4. HasKey(u) /\ upload[u].key # next[u].key => Settled(upload[u].key)
    BY <1>5
  <2> QED BY <1>2, <1>4, <1>5, <1>6, <2>1, <2>2, <2>3, <2>4, EntryStepKeepsEntries
<1>8. \A x : RowOK(x) => RowOK(x)'
  BY <1>2, <1>4, <1>5, VerifiedRowsStay
<1>9. RowsKept'
  <2>1. RowOK(row) /\ RowOK(attach[u]) /\ attach = [v \in Uploads |-> attach[v]]
    BY <1>1 DEF UploadsInv, RowsKept
  <2>2. PICK old, read, new : old = row /\ read = attach[u] /\ new = row'
    OBVIOUS
  <2>3. RowOK(old)' /\ RowOK(read)'
    BY <1>8, <2>1, <2>2
  <2>4. new = old \/ new = [read EXCEPT ![upload[u].file.kind] = upload[u].key]
    BY <2>2 DEF Attach
  <2>5. HasKey(u)' /\ upload'[u].verified /\ upload'[u].key = upload[u].key
    BY <1>3, <1>4, <1>5 DEF HasKey, Listed, EntryOK
  <2>6. RowOK(new)'
    <3>1. CASE new = old
      BY <3>1, <2>3 DEF RowOK
    <3>2. CASE new = [read EXCEPT ![upload[u].file.kind] = upload[u].key]
      <4>1. DOMAIN read = DOMAIN Types /\ DOMAIN new = DOMAIN Types
            /\ new[upload[u].file.kind] = upload[u].key
            /\ \A kind \in DOMAIN Types : kind # upload[u].file.kind => new[kind] = read[kind]
        BY <1>3, <2>3, <3>2 DEF RowOK
      <4> QED BY <4>1, <2>3, <2>5 DEF RowOK
    <3> QED BY <2>4, <3>1, <3>2
  <2>7. RowOK(row)'
    BY <2>2, <2>6 DEF RowOK
  <2>8. attach' = [v \in Uploads |-> attach'[v]]
        /\ \A v \in Uploads \ {u} : attach'[v] = attach[v]
    BY <1>1, <2>1
  <2>9. ASSUME NEW v \in Uploads, Listed(v)', upload'[v].step = "attaching"
        PROVE  RowOK(attach[v])'
    <3>1. v # u
      BY <2>9, <1>4, <1>5
    <3>2. Listed(v) /\ upload[v].step = "attaching"
      BY <2>9, <3>1, <1>2, <1>4, <1>5 DEF Listed, EntriesInv, OnlyEntry
    <3>3. PICK y : y = attach[v]
      OBVIOUS
    <3>4. RowOK(y)'
      BY <1>8, <3>2, <3>3 DEF UploadsInv, RowsKept
    <3> QED BY <3>3, <3>4, <2>8, <3>1 DEF RowOK
  <2> QED BY <2>7, <2>8, <2>9 DEF RowsKept
<1> QED BY <1>7, <1>9 DEF UploadsInv

-----------------------------------------------------------------------------
\* Planning: an entry gets a key that nobody has.

\* A drawn key is nobody else's, and the one it replaces is settled.
LEMMA PlannedStep ==
  ASSUME UploadsInv, NEW u \in Uploads, Listed(u), upload[u].step = "presign",
         NEW k \in ObjectKeys, Unused(k),
         NEW next, upload' = next, OnlyEntry(next, u), EntryOK(next[u]), next[u].key = k,
         ~next[u].verified, next[u].step \notin {"attach", "attaching"},
         session' = session \/ session' = [session EXCEPT ![k] = {}],
         UNCHANGED <<object, aborting, leaked, row, attach>>,
         SessionOK(next[u])'
  PROVE  UploadsInv'
<1>1. EntriesInv /\ EntryOK(upload[u]) /\ VerifiedOK(upload[u]) /\ SessionOK(upload[u])
  BY EntryIs
<1>2. ~upload[u].verified /\ (upload[u].key # NoValue => Settled(upload[u].key))
  BY <1>1 DEF EntryOK, VerifiedOK, SessionOK
<1>3. DOMAIN session' = ObjectKeys /\ DOMAIN object' = ObjectKeys
      /\ \A j \in ObjectKeys : j # k => session'[j] = session[j]
  BY <1>1 DEF EntriesInv
<1>4. \A j \in ObjectKeys : j # next[u].key => object'[j] = object[j] /\ (Settled(j) => Settled(j)')
  BY <1>3 DEF Settled
<1>5. VerifiedOK(next[u])'
  BY DEF VerifiedOK
<1>6. \A v \in Uploads : HasKey(v) /\ next[u].key # NoValue /\ upload[v].key = next[u].key => v = u
  BY DEF HasKey, Unused
<1>7. HasKey(u) /\ upload[u].key # next[u].key => Settled(upload[u].key)
  BY <1>2 DEF HasKey
<1>8. EntriesInv'
  BY <1>1, <1>3, <1>4, <1>5, <1>6, <1>7, EntryStepKeepsEntries
<1>9. row' = row /\ attach' = attach
  OBVIOUS
<1>10. RowsKept'
  BY <1>2, <1>9, EntryStepKeepsRows
<1> QED BY <1>8, <1>10 DEF UploadsInv

\* A new entry has no key yet (enqueue).
LEMMA EnqueueKeepsInv ==
  ASSUME UploadsInv, NEW u \in Uploads, enqueue(u)
  PROVE  UploadsInv'
<1>1. EntriesInv
  BY DEF UploadsInv
<1>2. ~Listed(u) /\ UNCHANGED <<session, object, aborting, leaked, row, attach>>
  BY DEF enqueue
<1>3. PICK f, next : /\ f \in Files /\ next = upload'
                     /\ next = [upload EXCEPT ![u] =
                          [x \in DOMAIN Fresh \cup {"file"} |-> IF x = "file" THEN f ELSE Fresh[x]]]
  BY DEF enqueue
<1>4. next[u] = [x \in DOMAIN Fresh \cup {"file"} |-> IF x = "file" THEN f ELSE Fresh[x]]
      /\ OnlyEntry(next, u)
  BY <1>1, <1>3 DEF EntriesInv, OnlyEntry
<1>5. DOMAIN Fresh \cup {"file"} = Fields
  BY DEF Fresh, Fields
<1>6. DOMAIN next[u] = Fields /\ next[u].file = f
      /\ \A x \in Fields \ {"file"} : next[u][x] = Fresh[x]
  BY <1>4, <1>5
<1>7. next[u].status = "uploading" /\ next[u].running = TRUE /\ next[u].step = "presign"
      /\ next[u].key = NoValue /\ next[u].multipart = NoValue /\ next[u].verified = FALSE
  BY <1>6 DEF Fields, Fresh
<1>8. EntryOK(next[u])
  BY <1>3, <1>6, <1>7, UploadConstants DEF EntryOK, Steps
<1>9. VerifiedOK(next[u])' /\ SessionOK(next[u])'
  BY <1>7 DEF VerifiedOK, SessionOK
<1>10. DOMAIN session' = ObjectKeys /\ DOMAIN object' = ObjectKeys
  BY <1>1, <1>2 DEF EntriesInv
<1>11. \A j \in ObjectKeys : j # next[u].key => object'[j] = object[j] /\ (Settled(j) => Settled(j)')
  BY <1>2 DEF Settled
<1>12. \A v \in Uploads : HasKey(v) /\ next[u].key # NoValue /\ upload[v].key = next[u].key => v = u
  BY <1>7
<1>13. ~HasKey(u)
  BY <1>2 DEF HasKey
<1>14. EntriesInv'
  BY <1>1, <1>3, <1>4, <1>8, <1>9, <1>10, <1>11, <1>12, <1>13, EntryStepKeepsEntries
<1>15. row' = row /\ attach' = attach /\ next[u].step # "attaching"
  BY <1>2, <1>7
<1>16. RowsKept'
  BY <1>3, <1>4, <1>8, <1>13, <1>15, EntryStepKeepsRows
<1> QED BY <1>14, <1>16 DEF UploadsInv

\* A planned multipart upload is remembered by its entry, or cleaned up at once when the
\* entry was cancelled meanwhile (presignUpload).
LEMMA PresignPartsKeepsInv ==
  ASSUME UploadsInv, NEW u \in Uploads, PresignParts(u)
  PROVE  UploadsInv'
<1>1. /\ Listed(u) /\ upload[u].running /\ upload[u].step = "presign"
      /\ UNCHANGED <<object, aborting, leaked, row, attach>>
  BY DEF PresignParts, At
<1>2. EntriesInv /\ EntryOK(upload[u]) /\ VerifiedOK(upload[u]) /\ SessionOK(upload[u])
  BY <1>1, EntryIs
<1>3. ~upload[u].verified /\ upload[u].multipart = NoValue
  BY <1>1, <1>2 DEF VerifiedOK, EntryOK
<1>4. PICK k \in ObjectKeys :
        /\ Unused(k) /\ session' = [session EXCEPT ![k] = {}]
        /\ upload' = IF Drop(u) THEN Set(u, [step |-> "clean", key |-> k])
                     ELSE Set(u, [step |-> "parts", key |-> k, multipart |-> k,
                                  part |-> [n \in 1..upload[u].file.size |->
                                              [state |-> "todo", attempts |-> 0]]])
  BY DEF PresignParts
<1>5. k # NoValue
  BY UploadConstants
<1>6. PICK next : next = upload'
  OBVIOUS
<1>7. CASE Drop(u)
  <2>1. PICK f : f = [step |-> "clean", key |-> k]
    OBVIOUS
  <2>2. DOMAIN f = {"step", "key"} /\ f["step"] = "clean" /\ f["key"] = k
        /\ DOMAIN f \subseteq Fields /\ next = Set(u, f)
    BY <1>4, <1>6, <1>7, <2>1 DEF Fields
  <2>3. Written(next, u, f)
    BY <1>1, <1>2, <2>2, SetIs
  <2>4. next[u].step = "clean" /\ next[u].key = k /\ DOMAIN next[u] = Fields /\ OnlyEntry(next, u)
    BY <2>2, <2>3 DEF Written
  <2>5. next[u].status = upload[u].status /\ next[u].running = upload[u].running
        /\ next[u].multipart = upload[u].multipart
        /\ next[u].verified = upload[u].verified /\ next[u].file = upload[u].file
    BY <2>2, <2>3 DEF Written, Fields
  <2>6. EntryOK(next[u])
    BY <1>1, <1>2, <1>3, <1>5, <2>4, <2>5 DEF EntryOK, Steps
  <2>7. SessionOK(next[u])'
    BY <2>4 DEF SessionOK
  <2> QED BY <1>1, <1>3, <1>4, <1>6, <2>4, <2>5, <2>6, <2>7, PlannedStep
<1>8. CASE ~Drop(u)
  <2>1. PICK f, p : p = [n \in 1..upload[u].file.size |-> [state |-> "todo", attempts |-> 0]]
                    /\ f = [step |-> "parts", key |-> k, multipart |-> k, part |-> p]
    OBVIOUS
  <2>2. DOMAIN f = {"step", "key", "multipart", "part"} /\ f["step"] = "parts" /\ f["key"] = k
        /\ f["multipart"] = k /\ DOMAIN f \subseteq Fields
    BY <2>1 DEF Fields
  <2>3. next = Set(u, f)
    BY <1>4, <1>6, <1>8, <2>1
  <2>4. Written(next, u, f)
    BY <1>1, <1>2, <2>2, <2>3, SetIs
  <2>5. next[u].step = "parts" /\ next[u].key = k /\ next[u].multipart = k
        /\ DOMAIN next[u] = Fields /\ OnlyEntry(next, u)
    BY <2>2, <2>4 DEF Written
  <2>6. next[u].status = upload[u].status /\ next[u].running = upload[u].running
        /\ next[u].verified = upload[u].verified /\ next[u].file = upload[u].file
    BY <2>2, <2>4 DEF Written, Fields
  <2>7. EntryOK(next[u])
    BY <1>1, <1>2, <1>3, <1>5, <1>8, <2>5, <2>6 DEF EntryOK, Steps, Drop
  <2>8. SessionOK(next[u])'
    BY <2>5 DEF SessionOK
  <2> QED BY <1>1, <1>3, <1>4, <1>6, <2>5, <2>6, <2>7, <2>8, PlannedStep
<1> QED BY <1>7, <1>8

\* A planned single upload opens nothing (presignUpload).
LEMMA PresignWholeKeepsInv ==
  ASSUME UploadsInv, NEW u \in Uploads, PresignWhole(u)
  PROVE  UploadsInv'
<1>1. /\ Listed(u) /\ upload[u].running /\ upload[u].step = "presign"
      /\ UNCHANGED <<session, object, aborting, leaked, row, attach>>
  BY DEF PresignWhole, At
<1>2. EntriesInv /\ EntryOK(upload[u]) /\ VerifiedOK(upload[u]) /\ SessionOK(upload[u])
  BY <1>1, EntryIs
<1>3. ~upload[u].verified /\ upload[u].multipart = NoValue
  BY <1>1, <1>2 DEF VerifiedOK, EntryOK
<1>4. PICK k \in ObjectKeys :
        /\ Unused(k)
        /\ upload' = IF Drop(u) THEN Ended(u, <<>>) ELSE Set(u, [step |-> "put", key |-> k])
  BY DEF PresignWhole
<1>5. k # NoValue /\ Settled(k)
  BY <1>4, UploadConstants DEF Unused, Settled
<1>6. PICK next : next = upload'
  OBVIOUS
<1>7. CASE Drop(u)
  <2>1. next = Ended(u, <<>>)
    BY <1>4, <1>6, <1>7
  <2>2. /\ OnlyEntry(next, u) /\ EntryOK(next[u]) /\ next[u].step = "ended"
        /\ next[u].key = upload[u].key /\ next[u].multipart = NoValue
        /\ next[u].verified = upload[u].verified /\ next[u].file = upload[u].file
    BY <1>1, <1>3, <2>1, DroppedIs
  <2>3. VerifiedOK(next[u]) /\ SessionOK(next[u])
    BY <1>1, <1>2, <1>3, <2>2 DEF VerifiedOK, SessionOK
  <2> QED BY <1>1, <1>6, <2>2, <2>3, QuietEntryStep
<1>8. CASE ~Drop(u)
  <2>1. PICK f : f = [step |-> "put", key |-> k]
    OBVIOUS
  <2>2. DOMAIN f = {"step", "key"} /\ f["step"] = "put" /\ f["key"] = k
        /\ DOMAIN f \subseteq Fields /\ next = Set(u, f)
    BY <1>4, <1>6, <1>8, <2>1 DEF Fields
  <2>3. Written(next, u, f)
    BY <1>1, <1>2, <2>2, SetIs
  <2>4. next[u].step = "put" /\ next[u].key = k /\ DOMAIN next[u] = Fields /\ OnlyEntry(next, u)
    BY <2>2, <2>3 DEF Written
  <2>5. next[u].status = upload[u].status /\ next[u].running = upload[u].running
        /\ next[u].multipart = upload[u].multipart
        /\ next[u].verified = upload[u].verified /\ next[u].file = upload[u].file
    BY <2>2, <2>3 DEF Written, Fields
  <2>6. EntryOK(next[u])
    BY <1>1, <1>2, <1>3, <1>5, <2>4, <2>5 DEF EntryOK, Steps
  <2>7. SessionOK(next[u])' /\ session' = session
    BY <1>1, <1>5, <2>4 DEF SessionOK, Settled
  <2>8. UNCHANGED <<object, aborting, leaked, row, attach>>
    BY <1>1
  <2> QED BY <1>1, <1>3, <1>4, <1>6, <2>4, <2>5, <2>6, <2>7, <2>8, PlannedStep
<1> QED BY <1>7, <1>8

\* An answer that never arrives leaves a session nobody knows of: it is lost.
LEMMA PresignLostKeepsInv ==
  ASSUME UploadsInv, NEW u \in Uploads, PresignLost(u)
  PROVE  UploadsInv'
<1>1. /\ Listed(u) /\ upload[u].running /\ upload[u].step = "presign" /\ upload' = Catch(u)
      /\ UNCHANGED <<object, aborting, row, attach>>
  BY DEF PresignLost, At
<1>2. EntriesInv /\ EntryOK(upload[u]) /\ VerifiedOK(upload[u]) /\ SessionOK(upload[u])
  BY <1>1, EntryIs
<1>3. \/ session' = session /\ leaked' = leaked
      \/ \E k \in ObjectKeys : session' = [session EXCEPT ![k] = {}] /\ leaked' = leaked \cup {k}
  BY DEF PresignLost
<1>4. DOMAIN session' = ObjectKeys /\ DOMAIN object' = ObjectKeys
  BY <1>1, <1>2, <1>3 DEF EntriesInv
<1>5. \A k \in ObjectKeys : Settled(k) => Settled(k)'
  BY <1>1, <1>2, <1>3 DEF EntriesInv, Settled
<1>6. PICK next : next = upload'
  OBVIOUS
<1>7. Caught(next, u)
  BY <1>1, <1>2, <1>6, CatchIs
<1>8. /\ OnlyEntry(next, u) /\ EntryOK(next[u]) /\ next[u].step \in {"clean", "ended"}
      /\ next[u].key = upload[u].key /\ next[u].verified = upload[u].verified
  BY <1>1, <1>7, CaughtOK
<1>9. VerifiedOK(next[u])'
  BY <1>1, <1>2, <1>8 DEF VerifiedOK
<1>10. SessionOK(next[u])'
  <2>1. ASSUME next[u].key # NoValue
        PROVE  Settled(next[u].key)'
    <3>1. PICK k \in ObjectKeys : k = upload[u].key
      BY <1>2, <1>8, <2>1 DEF EntryOK
    <3>2. Settled(k)
      BY <1>1, <1>2, <1>8, <2>1, <3>1 DEF EntryOK, SessionOK
    <3> QED BY <1>5, <1>8, <3>1, <3>2 DEF Settled
  <2> QED BY <2>1 DEF SessionOK
<1>11. \A k \in ObjectKeys : k # upload[u].key => object'[k] = object[k] /\ (Settled(k) => Settled(k)')
  BY <1>1, <1>5
<1>12. row' = row /\ attach' = attach
  BY <1>1
<1> QED BY <1>1, <1>4, <1>6, <1>8, <1>9, <1>10, <1>11, <1>12, OwnKeyStep

\* An abort closes its session, or its loss is known (abortMultipartUpload).
LEMMA AbortedKeepsInv ==
  ASSUME UploadsInv, NEW k \in ObjectKeys, NEW ok \in BOOLEAN, Aborted(k, ok)
  PROVE  UploadsInv'
<1>1. UNCHANGED <<upload, object, row, attach>>
  BY DEF Aborted
<1>2. EntriesInv /\ RowsKept
  BY DEF UploadsInv
<1>3. session' = session \/ session' = [session EXCEPT ![k] = Closed]
  BY DEF Aborted
<1>4. DOMAIN session' = ObjectKeys /\ (session'[k] = Closed \/ k \in leaked')
      /\ leaked \subseteq leaked' /\ aborting' = aborting \ {k}
      /\ \A j \in ObjectKeys : j # k => session'[j] = session[j]
  BY <1>2, <1>3 DEF Aborted, EntriesInv
<1>5. \A j \in ObjectKeys : Settled(j) => Settled(j)'
  BY <1>4 DEF Settled
<1>6. ASSUME NEW u \in Uploads, Listed(u)
      PROVE  EntryOK(upload[u]) /\ VerifiedOK(upload[u])' /\ SessionOK(upload[u])'
  <2>1. EntryOK(upload[u]) /\ VerifiedOK(upload[u]) /\ SessionOK(upload[u])
    BY <1>2, <1>6 DEF EntriesInv
  <2>2. VerifiedOK(upload[u])'
    BY <1>1, <2>1 DEF VerifiedOK
  <2>3. SessionOK(upload[u])'
    <3>1. CASE upload[u].key = NoValue
      BY <3>1, <1>1 DEF SessionOK
    <3>2. CASE upload[u].key # NoValue
      <4>1. PICK j \in ObjectKeys : j = upload[u].key
        BY <2>1, <3>2 DEF EntryOK
      <4> QED BY <1>1, <1>5, <2>1, <4>1 DEF SessionOK, Settled
    <3> QED BY <3>1, <3>2
  <2> QED BY <2>1, <2>2, <2>3
<1>7. \A j \in ObjectKeys : Settled(j)' \/ \E u \in Uploads : HasKey(u)' /\ upload'[u].key = j
  BY <1>1, <1>2, <1>5 DEF EntriesInv, HasKey, Listed
<1>8. EntriesInv'
  <2>1. \A u \in Uploads : Listed(u)' <=> Listed(u)
    BY <1>1 DEF Listed
  <2>2. \A u \in Uploads : HasKey(u)' <=> HasKey(u)
    BY <1>1 DEF HasKey, Listed
  <2>3. \A u \in Uploads : Listed(u)' => EntryOK(upload[u])' /\ VerifiedOK(upload[u])' /\ SessionOK(upload[u])'
    BY <1>1, <1>6, <2>1 DEF EntryOK
  <2> QED BY <1>1, <1>2, <1>4, <1>7, <2>2, <2>3 DEF EntriesInv
<1>9. RowsKept'
  BY <1>1, <1>2 DEF RowsKept, RowOK, HasKey, Listed
<1> QED BY <1>8, <1>9 DEF UploadsInv

\* Nothing was opened and nothing is in a row.
LEMMA UploadsInitHolds == UploadsInit => UploadsInv
<1> SUFFICES ASSUME UploadsInit PROVE UploadsInv
  OBVIOUS
<1>1. \A u \in Uploads : ~Listed(u)
  BY DEF UploadsInit, Listed, Absent
<1>2. \A k \in ObjectKeys : Settled(k)
  BY DEF UploadsInit, Settled
<1>3. EntriesInv
  BY <1>1, <1>2 DEF UploadsInit, EntriesInv, HasKey
<1>4. RowsKept
  BY <1>1 DEF UploadsInit, RowsKept, RowOK
<1> QED BY <1>3, <1>4 DEF UploadsInv

\* The invariant is kept by every step.
LEMMA UploadsStepKeepsInv == UploadsInv /\ [UploadsNext]_uploadVars => UploadsInv'
<1> SUFFICES ASSUME UploadsInv, [UploadsNext]_uploadVars PROVE UploadsInv'
  OBVIOUS
<1>1. CASE UNCHANGED uploadVars
  BY <1>1 DEF uploadVars, UploadsInv, EntriesInv, RowsKept, RowOK, HasKey, Listed, EntryOK,
              VerifiedOK, SessionOK, Settled
<1>2. ASSUME NEW u \in Uploads, enqueue(u) \/ cancel(u) \/ retry(u) \/ dismiss(u)
      PROVE  UploadsInv'
  BY <1>2, EnqueueKeepsInv, CancelKeepsInv, RetryKeepsInv, DismissKeepsInv
<1>3. ASSUME NEW u \in Uploads,
             PresignRefused(u) \/ PresignLost(u) \/ PresignParts(u) \/ PresignWhole(u)
      PROVE  UploadsInv'
  BY <1>3, PresignRefusedKeepsInv, PresignLostKeepsInv, PresignPartsKeepsInv, PresignWholeKeepsInv
<1>4. ASSUME NEW u \in Uploads, SendPart(u) \/ PartsEnd(u)
      PROVE  UploadsInv'
  BY <1>4, SendPartKeepsInv, PartsEndKeepsInv
<1>5. ASSUME NEW u \in Uploads, NEW n,
             PartStored(u, n) \/ PartFails(u, n) \/ PartAgain(u, n) \/ PartDropped(u, n)
      PROVE  UploadsInv'
  BY <1>5, PartStoredKeepsInv, PartFailsKeepsInv, PartAgainKeepsInv
<1>6. ASSUME NEW u \in Uploads, PutDone(u) \/ PutFails(u) \/ Stat(u) \/ ReadForAttach(u)
      PROVE  UploadsInv'
  BY <1>6, PutKeepsInv, StatKeepsInv, ReadForAttachKeepsInv
<1>7. ASSUME NEW u \in Uploads, NEW ok \in BOOLEAN, Cleaned(u, ok) \/ Complete(u, ok) \/ Attach(u, ok)
      PROVE  UploadsInv'
  BY <1>7, CleanedKeepsInv, CompleteKeepsInv, AttachKeepsInv
<1>8. ASSUME NEW k \in ObjectKeys, NEW ok \in BOOLEAN, Aborted(k, ok)
      PROVE  UploadsInv'
  BY <1>8, AbortedKeepsInv
<1> QED BY <1>1, <1>2, <1>3, <1>4, <1>5, <1>6, <1>7, <1>8 DEF UploadsNext

\* It says more than the property.
LEMMA UploadsInvIsEnough == UploadsInv => UploadsAreWhole
<1> SUFFICES ASSUME UploadsInv PROVE UploadsAreWhole
  OBVIOUS
<1> USE DEF UploadsInv
<1>1. ASSUME NEW u \in Uploads, Listed(u), upload[u].key # NoValue,
             row[upload[u].file.kind] = upload[u].key
      PROVE  object[upload[u].key] = upload[u].file.size
  <2>1. EntryOK(upload[u])
    BY <1>1, EntryIs
  <2>2. PICK v \in Uploads : HasKey(v) /\ upload[v].verified /\ upload[v].key = upload[u].key
    BY <1>1, <2>1 DEF RowsKept, RowOK, EntryOK
  <2>3. v = u
    BY <1>1, <2>2 DEF EntriesInv, HasKey
  <2>4. VerifiedOK(upload[u])
    BY <1>1, EntryIs
  <2> QED BY <2>2, <2>3, <2>4 DEF VerifiedOK
<1>2. ASSUME NEW k \in ObjectKeys, session[k] # Closed, k \notin aborting \cup leaked
      PROVE  \E u \in Uploads : Listed(u) /\ upload[u].running /\ upload[u].key = k
  <2>1. ~Settled(k)
    BY <1>2 DEF Settled
  <2>2. PICK u \in Uploads : HasKey(u) /\ upload[u].key = k
    BY <2>1 DEF EntriesInv
  <2>3. Listed(u) /\ upload[u].key # NoValue
    BY <2>2 DEF HasKey
  <2>4. EntryOK(upload[u]) /\ SessionOK(upload[u])
    BY <2>3, EntryIs
  <2>5. upload[u].step \in {"clean", "parts", "complete"}
    BY <2>1, <2>2, <2>3, <2>4 DEF SessionOK, EntryOK
  <2>6. upload[u].running
    BY <2>4, <2>5 DEF EntryOK
  <2> QED BY <2>2, <2>3, <2>6
<1> QED BY <1>1, <1>2 DEF UploadsAreWhole, AttachedIsWhole, SessionsAreClosed

\* However many uploads run, fail, are cancelled and tried again, whatever a title refers
\* to is a whole file, and what was opened in object storage is closed, about to be
\* closed or known to be lost (uploads.ts, media.service.ts).
THEOREM UploadsStayWhole == UploadsSpec => []UploadsAreWhole
<1>1. UploadsSpec => []UploadsInv
  BY UploadsInitHolds, UploadsStepKeepsInv, PTL DEF UploadsSpec
<1> QED BY <1>1, UploadsInvIsEnough, PTL

-----------------------------------------------------------------------------
(* The television's screens and its player.                                *)

Plays == [on : Films, epoch : Int, introActive : BOOLEAN, playing : BOOLEAN]

\* What startPlayback carries over its awaits: the film, and the epoch it began in.
WatchSteps == {"resume", "start", "intro"}
Watches == [step : WatchSteps, epoch : Int, film : Films, trailer : BOOLEAN]
SavingIn == [step : {"saving"}, epoch : Int]

ScreenTypes ==
  /\ epoch \in 0..MaxEpoch
  /\ route \in Screens /\ history \in Seq(Screens)
  /\ drawing \in [1..MaxEpoch -> Screens \cup {"none"}]
  /\ tvPlayer \in Plays \cup {NoPlayer}
  /\ opening \in Watches \cup SavingIn \cup {NotOpening}
  /\ detail \in Films \cup {"none"}

\* The newest drawing is of the screen the viewer is on.
DrawsRoute == epoch > 0 => drawing[epoch] \in {"none", route}

\* What was begun in this epoch is about this screen, and nothing was begun later.
OpensRoute ==
  opening # NotOpening =>
    /\ opening.epoch <= epoch
    /\ opening.step \in WatchSteps /\ opening.epoch = epoch => opening.film = route

\* While something is saved there is no player, and nothing else is under way.
SavesAlone == acting = "saving" <=> opening.step = "saving"
SavesUnseen == acting = "saving" => tvPlayer = NoPlayer

ScreensInv ==
  ScreenTypes /\ DrawsRoute /\ OpensRoute /\ SavesAlone /\ SavesUnseen /\ ScreenIsWanted

LEMMA ScreensInvInit == ScreensStart => ScreensInv
BY ScreenConstants
   DEF ScreensStart, ScreensInv, ScreenTypes, DrawsRoute, OpensRoute, SavesAlone, SavesUnseen,
       ScreenIsWanted, ShownIsWanted, PlayerIsWanted, Screens, NotOpening, NoPlayer

\* Wherever the viewer goes, the screen is asked for anew: what was begun before is of an
\* earlier epoch (render).
LEMMA RenderKeepsScreens ==
  ASSUME ScreensInv, NEW r \in Screens, Render(r), route' = r, history' \in Seq(Screens),
         tvPlayer' = NoPlayer,
         \/ acting' = acting /\ opening' = opening
         \/ acting' = "none" /\ opening' = NotOpening
  PROVE  ScreensInv'
<1>1. /\ epoch' = epoch + 1 /\ epoch' \in 0..MaxEpoch
      /\ drawing' = [drawing EXCEPT ![epoch + 1] = r]
      /\ detail' = "none" /\ shown' = "loading"
  BY ScreenConstants DEF Render, ScreensInv, ScreenTypes
<1>2. ScreenTypes'
  BY <1>1 DEF ScreensInv, ScreenTypes
<1>3. DrawsRoute'
  BY <1>1, ScreenConstants DEF ScreensInv, ScreenTypes, DrawsRoute
<1>4. OpensRoute'
  <2>1. CASE opening' = opening
    BY <1>1, <2>1 DEF ScreensInv, ScreenTypes, OpensRoute, Watches, SavingIn
  <2>2. CASE opening' = NotOpening
    BY <2>2 DEF OpensRoute
  <2> QED BY <2>1, <2>2
<1>5. SavesAlone' /\ SavesUnseen'
  BY DEF ScreensInv, SavesAlone, SavesUnseen, NotOpening
<1>6. ScreenIsWanted'
  BY <1>1, ScreenConstants DEF ScreenIsWanted, ShownIsWanted, PlayerIsWanted, Screens
<1> QED BY <1>2, <1>3, <1>4, <1>5, <1>6 DEF ScreensInv

\* An answer to a request for a screen draws it only in its own epoch.
LEMMA DrawKeepsScreens ==
  ASSUME ScreensInv, NEW e \in 1..MaxEpoch, Draw(e) \/ DrawError(e)
  PROVE  ScreensInv'
<1>1. /\ UNCHANGED <<epoch, route, acting, opening, tvPlayer>>
      /\ drawing' = [drawing EXCEPT ![e] = "none"]
  BY DEF Draw, DrawError
<1>0. history' = history
  BY DEF Draw, DrawError
<1>2. /\ shown' \in {shown, "error"} \/ (e = epoch /\ shown' = drawing[e])
      /\ detail' = detail \/ (e = epoch /\ detail' = drawing[e] /\ drawing[e] \in Films)
      /\ drawing[e] # "none"
  BY DEF Draw, DrawError, Current
<1>3. e = epoch => drawing[e] = route
  BY <1>2 DEF ScreensInv, DrawsRoute
<1>4. ScreenTypes'
  BY <1>0, <1>1, <1>2 DEF ScreensInv, ScreenTypes
<1>5. DrawsRoute'
  BY <1>1 DEF ScreensInv, DrawsRoute, ScreenTypes
<1>6. OpensRoute' /\ SavesAlone' /\ SavesUnseen'
  BY <1>1 DEF ScreensInv, OpensRoute, SavesAlone, SavesUnseen
<1>7. ScreenIsWanted'
  BY <1>1, <1>2, <1>3, ScreenConstants
     DEF ScreensInv, ScreenIsWanted, ShownIsWanted, PlayerIsWanted, Screens
<1> QED BY <1>4, <1>5, <1>6, <1>7 DEF ScreensInv

\* Steps that leave the screen alone: of the action under way, the intro and the player.
Onscreen == UNCHANGED <<epoch, route, history, shown, drawing, detail>>

LEMMA OnscreenKeepsScreens ==
  ASSUME ScreensInv, Onscreen,
         tvPlayer' \in Plays \cup {NoPlayer},
         opening' \in Watches \cup SavingIn \cup {NotOpening},
         OpensRoute', SavesAlone', SavesUnseen', PlayerIsWanted'
  PROVE  ScreensInv'
BY DEF ScreensInv, Onscreen, ScreenTypes, DrawsRoute, ScreenIsWanted, ShownIsWanted

LEMMA ActingKeepsScreens ==
  ASSUME ScreensInv, BeginAction \/ \E trailer \in BOOLEAN : Watch(trailer)
  PROVE  ScreensInv'
<1>1. CASE BeginAction
  <2>1. Onscreen /\ tvPlayer' = tvPlayer /\ tvPlayer = NoPlayer
    BY <1>1 DEF BeginAction, Onscreen, ScreenInReach
  <2>2. opening' = [step |-> "saving", epoch |-> epoch] /\ acting' = "saving"
    BY <1>1 DEF BeginAction
  <2>3. opening' \in SavingIn
    BY <2>2 DEF ScreensInv, ScreenTypes, SavingIn
  <2>4. OpensRoute' /\ SavesAlone' /\ SavesUnseen' /\ PlayerIsWanted'
    BY <2>1, <2>2 DEF ScreensInv, ScreenTypes, OpensRoute, SavesAlone, SavesUnseen,
                      PlayerIsWanted, Onscreen, WatchSteps
  <2> QED BY <2>1, <2>3, <2>4, OnscreenKeepsScreens DEF ScreensInv, ScreenTypes
<1>2. ASSUME NEW trailer \in BOOLEAN, Watch(trailer)
      PROVE  ScreensInv'
  <2>1. Onscreen /\ tvPlayer' = tvPlayer /\ tvPlayer = NoPlayer /\ acting' = "watching"
    BY <1>2 DEF Watch, Onscreen, ScreenInReach
  <2>2. PICK s \in {"start", "resume"} :
          opening' = [step |-> s, epoch |-> epoch, film |-> detail, trailer |-> trailer]
    BY <1>2 DEF Watch
  <2>3. detail \in Films /\ detail = route
    BY <1>2 DEF Watch, ScreensInv, ScreenTypes, ScreenIsWanted, ShownIsWanted
  <2>4. opening' \in Watches
    BY <2>2, <2>3 DEF ScreensInv, ScreenTypes, Watches, WatchSteps
  <2>5. OpensRoute' /\ SavesAlone' /\ SavesUnseen' /\ PlayerIsWanted'
    BY <2>1, <2>2, <2>3 DEF ScreensInv, ScreenTypes, OpensRoute, SavesAlone, SavesUnseen,
                      PlayerIsWanted, Onscreen, WatchSteps
  <2> QED BY <2>1, <2>4, <2>5, OnscreenKeepsScreens DEF ScreensInv, ScreenTypes
<1> QED BY <1>1, <1>2

\* The action or the film is given up: whatever player there is stays.
LEMMA GivenUpKeepsScreens ==
  ASSUME ScreensInv, Onscreen, tvPlayer' = tvPlayer, acting' = "none", opening' = NotOpening
  PROVE  ScreensInv'
<1>1. OpensRoute' /\ SavesAlone' /\ SavesUnseen' /\ PlayerIsWanted'
  BY DEF ScreensInv, OpensRoute, SavesAlone, SavesUnseen, NotOpening, ScreenIsWanted,
         PlayerIsWanted, Onscreen
<1> QED BY <1>1, OnscreenKeepsScreens DEF ScreensInv, ScreenTypes

\* startPlayback goes on after the resume point and the session are known.
LEMMA OpeningKeepsScreens ==
  ASSUME ScreensInv, Resumed \/ Started \/ StartFails
  PROVE  ScreensInv'
<1>0. Onscreen
  BY DEF Resumed, Started, StartFails, Onscreen
<1>1. CASE GiveUp \/ StartFails
  BY <1>0, <1>1, GivenUpKeepsScreens DEF GiveUp, StartFails
<1>2. CASE Resumed /\ ~GiveUp
  <2>1. /\ opening.step = "resume" /\ acting' = acting /\ tvPlayer' = tvPlayer
        /\ opening' = [opening EXCEPT !.step = "start"]
    BY <1>2 DEF Resumed
  <2>2. opening \in Watches
    BY <2>1 DEF ScreensInv, ScreenTypes, SavingIn, NotOpening
  <2>3. opening' \in Watches /\ opening'.step = "start" /\ opening'.epoch = opening.epoch
        /\ opening'.film = opening.film
    BY <2>1, <2>2 DEF Watches, WatchSteps
  <2>4. opening # NotOpening /\ acting # "saving"
    BY <2>1 DEF ScreensInv, SavesAlone, NotOpening
  <2>5. OpensRoute' /\ SavesAlone' /\ SavesUnseen' /\ PlayerIsWanted'
    BY <1>0, <2>1, <2>3, <2>4 DEF ScreensInv, OpensRoute, SavesAlone, SavesUnseen, Onscreen,
       ScreenIsWanted, PlayerIsWanted, WatchSteps
  <2> QED BY <1>0, <2>1, <2>3, <2>5, OnscreenKeepsScreens DEF ScreensInv, ScreenTypes
<1>3. CASE Started /\ ~GiveUp
  <2>1. /\ opening.step = "start" /\ acting' = acting /\ ~Abandoned
        /\ tvPlayer' = [on |-> opening.film, epoch |-> opening.epoch,
                        introActive |-> ~opening.trailer, playing |-> FALSE]
        /\ opening' = [opening EXCEPT !.step = "intro"]
    BY <1>3 DEF Started
  <2>2. opening \in Watches
    BY <2>1 DEF ScreensInv, ScreenTypes, SavingIn, NotOpening
  <2>3. opening' \in Watches /\ opening'.step = "intro" /\ opening'.epoch = opening.epoch
        /\ opening'.film = opening.film
    BY <2>1, <2>2 DEF Watches, WatchSteps
  <2>4. opening # NotOpening /\ acting # "saving"
    BY <2>1 DEF ScreensInv, SavesAlone, NotOpening
  <2>5. opening.epoch = epoch /\ opening.film = route
    BY <2>1, <2>4 DEF Abandoned, ScreensInv, OpensRoute, WatchSteps
  <2>6. tvPlayer' \in Plays
    BY <2>1, <2>2 DEF Watches, Plays
  <2>7. PlayerIsWanted'
    BY <1>0, <2>1, <2>5 DEF PlayerIsWanted, Onscreen
  <2>8. OpensRoute' /\ SavesAlone' /\ SavesUnseen'
    BY <1>0, <2>1, <2>3, <2>4 DEF ScreensInv, OpensRoute, SavesAlone, SavesUnseen, Onscreen,
       WatchSteps
  <2> QED BY <1>0, <2>3, <2>6, <2>7, <2>8, OnscreenKeepsScreens
<1> QED BY <1>1, <1>2, <1>3

\* The intro ends or is left, the film plays or pauses: the player stays where it is.
LEMMA PlayingKeepsScreens ==
  ASSUME ScreensInv, LeaveIntro \/ IntroEnds \/ IntroOver \/ Toggle
  PROVE  ScreensInv'
<1>0. Onscreen
  BY DEF LeaveIntro, IntroEnds, IntroOver, Toggle, Onscreen
<1>1. CASE LeaveIntro \/ IntroEnds
  <2>1. tvPlayer' \in {tvPlayer, NoPlayer} /\ opening' = opening /\ acting' = acting
    BY <1>1 DEF LeaveIntro, IntroEnds
  <2>2. OpensRoute' /\ SavesAlone' /\ SavesUnseen' /\ PlayerIsWanted'
    BY <1>0, <2>1 DEF ScreensInv, OpensRoute, SavesAlone, SavesUnseen, ScreenIsWanted,
                      PlayerIsWanted, Onscreen
  <2> QED BY <1>0, <2>1, <2>2, OnscreenKeepsScreens DEF ScreensInv, ScreenTypes
<1>2. CASE IntroOver \/ Toggle
  <2>1. tvPlayer' = tvPlayer \/
          /\ tvPlayer \in Plays /\ tvPlayer' \in Plays
          /\ tvPlayer'.epoch = tvPlayer.epoch /\ tvPlayer'.on = tvPlayer.on
    <3>1. tvPlayer # NoPlayer => tvPlayer \in Plays
      BY DEF ScreensInv, ScreenTypes
    <3>2. CASE IntroOver
      BY <3>1, <3>2 DEF IntroOver, Plays
    <3>3. CASE Toggle
      <4>1. tvPlayer \in Plays
        BY <3>1, <3>3 DEF Toggle
      <4>2. tvPlayer' = [tvPlayer EXCEPT !.playing = ~tvPlayer.playing]
        BY <3>3 DEF Toggle
      <4> QED BY <4>1, <4>2 DEF Plays
    <3> QED BY <1>2, <3>2, <3>3
  <2>2. tvPlayer' # NoPlayer => tvPlayer # NoPlayer
    BY <2>1 DEF Plays, NoPlayer
  <2>3. PlayerIsWanted'
    BY <1>0, <2>1, <2>2 DEF ScreensInv, ScreenIsWanted, PlayerIsWanted, Onscreen
  <2>4. CASE IntroOver
    <3>1. acting' = "none" /\ opening' = NotOpening
      BY <2>4 DEF IntroOver
    <3>2. OpensRoute' /\ SavesAlone' /\ SavesUnseen'
      BY <3>1 DEF OpensRoute, SavesAlone, SavesUnseen, NotOpening
    <3> QED BY <1>0, <2>1, <2>3, <3>1, <3>2, OnscreenKeepsScreens DEF ScreensInv, ScreenTypes
  <2>5. CASE Toggle
    <3>1. acting' = acting /\ opening' = opening /\ tvPlayer # NoPlayer
      BY <2>5 DEF Toggle
    <3>2. OpensRoute' /\ SavesAlone' /\ SavesUnseen'
      BY <1>0, <3>1 DEF ScreensInv, OpensRoute, SavesAlone, SavesUnseen, Onscreen
    <3> QED BY <1>0, <2>1, <2>3, <3>1, <3>2, OnscreenKeepsScreens DEF ScreensInv, ScreenTypes
  <2> QED BY <1>2, <2>4, <2>5
<1> QED BY <1>1, <1>2

\* Going somewhere, coming back, asking again: each draws a screen anew.
LEMMA MovingKeepsScreens ==
  ASSUME ScreensInv, (\E r \in Screens : Navigate(r)) \/ Retry \/ Back \/ LeavePlayer
  PROVE  ScreensInv'
<1>0. route \in Screens /\ history \in Seq(Screens)
  BY DEF ScreensInv, ScreenTypes
<1>1. ASSUME NEW r \in Screens, Navigate(r)
      PROVE  ScreensInv'
  <2>1. /\ Render(r) /\ route' = r /\ tvPlayer' = NoPlayer
        /\ acting' = acting /\ opening' = opening
        /\ history' = Append(history, route)
    BY <1>1 DEF Navigate, ScreenInReach
  <2>2. history' \in Seq(Screens)
    BY <1>0, <2>1
  <2> QED BY <2>1, <2>2, RenderKeepsScreens
<1>2. CASE Retry \/ LeavePlayer
  <2>1. /\ Render(route) /\ route' = route /\ tvPlayer' = NoPlayer /\ history' = history
        /\ acting' = acting /\ opening' = opening
    BY <1>2 DEF Retry, LeavePlayer, ScreenInReach
  <2> QED BY <1>0, <2>1, RenderKeepsScreens
<1>3. CASE Back
  <2>1. /\ Render(route') /\ route' = history[Len(history)] /\ tvPlayer' = NoPlayer
        /\ acting' = acting /\ opening' = opening
        /\ history' = SubSeq(history, 1, Len(history) - 1) /\ history # <<>>
    BY <1>3 DEF Back, ScreenInReach
  <2>2. route' \in Screens /\ history' \in Seq(Screens)
    BY <1>0, <2>1
  <2>3. PICK r \in Screens : r = route'
    BY <2>2
  <2> QED BY <2>1, <2>2, <2>3, RenderKeepsScreens
<1> QED BY <1>1, <1>2, <1>3

\* A save that is answered draws the screen again, if it is the one it began on.
LEMMA EndActionKeepsScreens ==
  ASSUME ScreensInv, EndAction
  PROVE  ScreensInv'
<1>1. /\ acting' = "none" /\ opening' = NotOpening
      /\ route' = route /\ history' = history /\ tvPlayer' = tvPlayer
      /\ tvPlayer = NoPlayer
      /\ route \in Screens /\ history \in Seq(Screens)
  BY DEF EndAction, ScreensInv, ScreenTypes, SavesUnseen
<1>2. CASE Render(route)
  BY <1>1, <1>2, RenderKeepsScreens
<1>3. CASE UNCHANGED <<epoch, detail, shown, drawing>>
  BY <1>1, <1>3, GivenUpKeepsScreens DEF Onscreen
<1> QED BY <1>2, <1>3 DEF EndAction

LEMMA ScreensInvStep == ScreensInv /\ [ScreensNext]_screenVars => ScreensInv'
<1> SUFFICES ASSUME ScreensInv, [ScreensNext]_screenVars
             PROVE  ScreensInv'
  OBVIOUS
<1>1. CASE UNCHANGED screenVars
  BY <1>1 DEF ScreensInv, ScreenTypes, DrawsRoute, OpensRoute, SavesAlone, SavesUnseen,
              ScreenIsWanted, ShownIsWanted, PlayerIsWanted, screenVars
<1>2. CASE ScreensNext
  BY <1>2, DrawKeepsScreens, MovingKeepsScreens, EndActionKeepsScreens, ActingKeepsScreens,
     OpeningKeepsScreens, PlayingKeepsScreens DEF ScreensNext
<1> QED BY <1>1, <1>2

\* However late and in whatever order the answers come, no screen and no player that was
\* asked for earlier appears when the viewer has gone on (app.js render, startPlayback).
THEOREM ScreensAreWanted == ScreensSpec => []ScreenIsWanted
<1>1. ScreensSpec => []ScreensInv
  BY ScreensInvInit, ScreensInvStep, PTL DEF ScreensSpec
<1>2. ScreensInv => ScreenIsWanted
  BY DEF ScreensInv
<1> QED BY <1>1, <1>2, PTL

-----------------------------------------------------------------------------
(* The studio's video processor.                                           *)

\* What lies under a chosen name: nothing, or a movie that a run has begun to copy there.
Begun == [by : Runs, whole : BOOLEAN]
SavedInv == saved \in [Outputs -> Begun \cup {Nothing}]

\* A run that encodes, moves or copies knows what, a movie has a name to go to, a copy
\* has a file to add to, and the second clip comes after the first.
WellRun(f, files, clips) ==
  /\ f.step \in {"encode", "move", "copy"} => "what" \in DOMAIN f
  /\ f.step \in {"encode", "move", "copy"} /\ f.what = "movie" =>
       "output" \in DOMAIN f /\ f.output \in Outputs
  /\ f.step = "copy" => f.what = "movie" /\ files[f.output] # Nothing
  /\ f.step \in {"encode", "move"} /\ f.what = "after" => clips.before # Nothing

RunsInv == run = [r \in Runs |-> run[r]] /\ \A r \in Runs : WellRun(run[r], saved, clip)

ClipsInv == clip = [before |-> clip.before, after |-> clip.after]

\* What is offered exists.
JobInv ==
  /\ DOMAIN job = {"phase", "output", "child", "approved", "cancelled", "stamp"}
  /\ job.approved \in BOOLEAN
  /\ job.phase = "complete" => job.output \in Outputs /\ saved[job.output] # Nothing
                               /\ saved[job.output].whole = TRUE
  /\ job.approved = TRUE => clip.before # Nothing /\ clip.after # Nothing

EnhanceInv == SavedInv /\ RunsInv /\ ClipsInv /\ JobInv

LEMMA EnhanceInvInit == EnhancementInit => EnhanceInv
<1> SUFFICES ASSUME EnhancementInit PROVE EnhanceInv
  OBVIOUS
<1>1. SavedInv /\ ClipsInv
  BY DEF EnhancementInit, SavedInv, ClipsInv
<1>2. JobInv
  BY DEF EnhancementInit, JobInv
<1>3. RunsInv
  <2>1. \A r \in Runs : run[r].step = "none"
    BY DEF EnhancementInit, Away
  <2> QED BY <2>1 DEF EnhancementInit, RunsInv, WellRun
<1> QED BY <1>1, <1>2, <1>3 DEF EnhanceInv

\* Nothing that was produced goes away: names stay taken, whole movies whole, clips there.
Kept ==
  /\ saved' \in [Outputs -> Begun \cup {Nothing}]
  /\ \A o \in Outputs : saved[o] # Nothing =>
       saved'[o] # Nothing /\ (saved[o].whole = TRUE => saved'[o].whole = TRUE)
  /\ clip' = [before |-> clip'.before, after |-> clip'.after]
  /\ clip.before # Nothing => clip'.before # Nothing
  /\ clip.after # Nothing => clip'.after # Nothing

LEMMA FilesAlone ==
  ASSUME EnhanceInv, UNCHANGED <<saved, clip>>
  PROVE  Kept
BY DEF EnhanceInv, SavedInv, ClipsInv, Kept

\* One run goes on, the others and what they know stay.
LEMMA RunGoesOn ==
  ASSUME EnhanceInv, Kept, NEW r \in Runs, NEW f, Spawn(r, f), WellRun(f, saved', clip')
  PROVE  RunsInv'
<1>1. run' = [q \in Runs |-> IF q = r THEN f ELSE run[q]]
  BY DEF Spawn, EnhanceInv, RunsInv
<1>2. ASSUME NEW q \in Runs
      PROVE  WellRun(run'[q], saved', clip')
  <2>1. CASE q = r
    BY <1>1, <2>1
  <2>2. CASE q # r
    <3>1. run'[q] = run[q] /\ WellRun(run[q], saved, clip)
      BY <1>1, <2>2 DEF EnhanceInv, RunsInv
    <3> QED BY <3>1 DEF WellRun, Kept
  <2> QED BY <2>1, <2>2
<1> QED BY <1>1, <1>2 DEF RunsInv

LEMMA RunsStay ==
  ASSUME EnhanceInv, Kept, run' = run
  PROVE  RunsInv'
<1>1. ASSUME NEW q \in Runs
      PROVE  WellRun(run'[q], saved', clip')
  <2>1. run'[q] = run[q] /\ WellRun(run[q], saved, clip)
    BY DEF EnhanceInv, RunsInv
  <2> QED BY <2>1 DEF WellRun, Kept
<1> QED BY <1>1 DEF RunsInv, EnhanceInv

\* A job that announces nothing new still has what it announced.
JobBusy == job' = job \/
  /\ DOMAIN job' = DOMAIN job
  /\ job'.phase = "complete" => job.phase = "complete" /\ job'.output = job.output
  /\ job'.approved \in {job.approved, FALSE}

LEMMA BusyKeepsJob ==
  ASSUME EnhanceInv, Kept, JobBusy
  PROVE  JobInv'
BY DEF EnhanceInv, JobInv, Kept, JobBusy

LEMMA KeptInv ==
  ASSUME Kept, RunsInv', JobInv'
  PROVE  EnhanceInv'
BY DEF Kept, EnhanceInv, SavedInv, ClipsInv

\* What the panel asks for starts a run or stops one.
LEMMA AskedKeepsOffers ==
  ASSUME EnhanceInv, NEW r \in Runs, NEW o,
         preview(r) \/ (o \in Outputs /\ (full(r, o) \/ convert(r, o)))
  PROVE  EnhanceInv'
<1>1. UNCHANGED <<saved, clip>>
  BY DEF preview, full, convert
<1>2. Kept
  BY <1>1, FilesAlone
<1>3. JobBusy
  BY DEF preview, full, convert, JobBusy, EnhanceInv, JobInv
<1>4. PICK f : /\ \/ f = [step |-> "encode", what |-> "before"]
                  \/ o \in Outputs /\ f = [step |-> "encode", what |-> "movie", output |-> o]
               /\ Spawn(r, f)
  BY DEF preview, full, convert
<1>5. WellRun(f, saved', clip')
  BY <1>4 DEF WellRun
<1>6. RunsInv'
  BY <1>2, <1>4, <1>5, RunGoesOn
<1> QED BY <1>2, <1>3, <1>6, BusyKeepsJob, KeptInv

\* The panel, the poll and the source's file.
LEMMA PanelKeepsOffers ==
  ASSUME EnhanceInv, cancelJob \/ Approve \/ Poll \/ SourceChanges
  PROVE  EnhanceInv'
<1>1. UNCHANGED <<saved, clip>> /\ run' = run
  BY DEF cancelJob, Approve, Poll, SourceChanges
<1>2. Kept
  BY <1>1, FilesAlone
<1>3. JobBusy
  <2>1. CASE cancelJob
    BY <2>1 DEF cancelJob, JobBusy, EnhanceInv, JobInv
  <2>2. CASE Approve \/ Poll \/ SourceChanges
    BY <2>2 DEF Approve, Poll, SourceChanges, JobBusy
  <2> QED BY <2>1, <2>2
<1> QED BY <1>1, <1>2, <1>3, BusyKeepsJob, RunsStay, KeptInv

Finished == [step |-> "over"]

\* A run that ends, or gives up what it was about to do.
LEMMA EndingKeepsOffers ==
  ASSUME EnhanceInv, NEW r \in Runs,
         (\E ok \in BOOLEAN : Close(r, ok)) \/ Fail(r) \/ MoveFails(r) \/ CopyFails(r)
  PROVE  EnhanceInv'
<1>1. UNCHANGED <<saved, clip>>
  BY DEF Close, Fail, MoveFails, CopyFails
<1>2. Kept
  BY <1>1, FilesAlone
<1>3. JobBusy
  <2>1. ASSUME NEW ok \in BOOLEAN, Close(r, ok)
        PROVE  JobBusy
    <3>1. job' = [job EXCEPT !.child = Nothing]
      BY <2>1 DEF Close
    <3> QED BY <3>1 DEF JobBusy, EnhanceInv, JobInv
  <2>2. CASE Fail(r)
    BY <2>2 DEF Fail, JobBusy, EnhanceInv, JobInv
  <2>3. CASE MoveFails(r) \/ CopyFails(r)
    BY <2>3 DEF MoveFails, CopyFails, JobBusy
  <2> QED BY <2>1, <2>2, <2>3
<1>4. PICK f : Spawn(r, f) /\ (f = Finished \/ \E s \in {"move", "unlink"} :
                                              /\ run[r].step \in {"encode", "move", "copy"}
                                              /\ s = "move" => run[r].step = "encode"
                                              /\ f = [run[r] EXCEPT !.step = s])
  BY DEF Close, Fail, MoveFails, CopyFails, JobAt, Over, Finished
<1>5. WellRun(f, saved', clip')
  <2>1. CASE f = Finished
    BY <2>1 DEF WellRun, Finished
  <2>2. CASE f # Finished
    <3>1. PICK s \in {"move", "unlink"} :
            /\ run[r].step \in {"encode", "move", "copy"}
            /\ s = "move" => run[r].step = "encode"
            /\ f = [run[r] EXCEPT !.step = s]
      BY <1>4, <2>2
    <3>2. WellRun(run[r], saved, clip)
      BY DEF EnhanceInv, RunsInv
    <3> QED BY <3>1, <3>2, <1>2 DEF WellRun, Kept
  <2> QED BY <2>1, <2>2
<1>6. RunsInv'
  BY <1>2, <1>4, <1>5, RunGoesOn
<1> QED BY <1>2, <1>3, <1>6, BusyKeepsJob, KeptInv

\* The first clip comes to its place and the second is begun, or nobody wants it any more.
LEMMA MoveBeforeKeepsOffers ==
  ASSUME EnhanceInv, NEW r \in Runs, MoveBefore(r)
  PROVE  EnhanceInv'
<1>1. saved' = saved /\ clip' = [clip EXCEPT !.before = r] /\ r # Nothing
  BY NothingIsNone DEF MoveBefore
<1>2. Kept
  BY <1>1 DEF Kept, EnhanceInv, SavedInv, ClipsInv
<1>3. JobBusy
  BY DEF MoveBefore, JobBusy, EnhanceInv, JobInv
<1>4. PICK f \in {Finished, [step |-> "encode", what |-> "after"]} : Spawn(r, f)
  BY DEF MoveBefore, Over, Finished
<1>5. WellRun(f, saved', clip')
  BY <1>1, <1>4 DEF WellRun, Finished, EnhanceInv, ClipsInv
<1>6. RunsInv'
  BY <1>2, <1>4, <1>5, RunGoesOn
<1> QED BY <1>2, <1>3, <1>6, BusyKeepsJob, KeptInv

\* The second clip comes to its place: the sample is up for approval with both.
LEMMA MoveAfterKeepsOffers ==
  ASSUME EnhanceInv, NEW r \in Runs, MoveAfter(r)
  PROVE  EnhanceInv'
<1>1. saved' = saved /\ clip' = [clip EXCEPT !.after = r] /\ r # Nothing
  BY NothingIsNone DEF MoveAfter
<1>2. Kept
  BY <1>1 DEF Kept, EnhanceInv, SavedInv, ClipsInv
<1>3. clip.before # Nothing
  BY DEF MoveAfter, JobAt, EnhanceInv, RunsInv, WellRun
<1>4. clip'.before # Nothing /\ clip'.after # Nothing
  BY <1>1, <1>3 DEF EnhanceInv, ClipsInv
<1>5. JobInv'
  <2>1. CASE job' = job
    BY <1>1, <1>4, <2>1 DEF EnhanceInv, JobInv
  <2>2. CASE job' = [job EXCEPT !.approved = TRUE, !.phase = "review"]
    <3>1. DOMAIN job' = DOMAIN job /\ job'.approved = TRUE /\ job'.phase = "review"
      BY <2>2 DEF EnhanceInv, JobInv
    <3> QED BY <1>4, <3>1 DEF EnhanceInv, JobInv
  <2> QED BY <2>1, <2>2 DEF MoveAfter
<1>6. RunsInv'
  BY <1>2, RunGoesOn DEF MoveAfter, Over, WellRun
<1> QED BY <1>2, <1>5, <1>6, KeptInv

\* A copy only begins under a name that is free.
LEMMA BeginCopyKeepsOffers ==
  ASSUME EnhanceInv, NEW r \in Runs, BeginCopy(r)
  PROVE  EnhanceInv'
<1> DEFINE o == run[r].output
<1>0. WellRun(run[r], saved, clip) /\ run[r].step = "move" /\ run[r].what = "movie"
  BY DEF BeginCopy, JobAt, EnhanceInv, RunsInv
<1>1. o \in Outputs /\ job' = job /\ clip' = clip
  BY <1>0 DEF BeginCopy, WellRun
<1>2. CASE saved[o] = Nothing
  <2>1. saved' = [saved EXCEPT ![o] = [by |-> r, whole |-> FALSE]]
        /\ Spawn(r, [run[r] EXCEPT !.step = "copy"])
    BY <1>2 DEF BeginCopy
  <2>2. [by |-> r, whole |-> FALSE] \in Begun /\ Nothing \notin Begun
    BY NothingIsNone DEF Begun
  <2>3. Kept /\ saved'[o] # Nothing
    BY <1>1, <1>2, <2>1, <2>2 DEF Kept, EnhanceInv, SavedInv, ClipsInv
  <2>4. PICK f : f = [run[r] EXCEPT !.step = "copy"]
    OBVIOUS
  <2>5. WellRun(f, saved', clip')
    BY <1>0, <1>1, <2>3, <2>4 DEF WellRun
  <2>6. RunsInv'
    BY <2>1, <2>3, <2>4, <2>5, RunGoesOn
  <2> QED BY <1>1, <2>3, <2>6, BusyKeepsJob, KeptInv DEF JobBusy
<1>3. CASE saved[o] # Nothing
  <2>1. saved' = saved /\ Spawn(r, [run[r] EXCEPT !.step = "unlink"])
    BY <1>3 DEF BeginCopy
  <2>2. Kept
    BY <1>1, <2>1, FilesAlone
  <2>3. PICK f : f = [run[r] EXCEPT !.step = "unlink"]
    OBVIOUS
  <2>4. WellRun(f, saved', clip')
    BY <1>0, <2>3 DEF WellRun
  <2>5. RunsInv'
    BY <2>1, <2>2, <2>3, <2>4, RunGoesOn
  <2> QED BY <1>1, <2>2, <2>5, BusyKeepsJob, KeptInv DEF JobBusy
<1> QED BY <1>2, <1>3

\* The copy has come to its end: only now is the movie announced.
LEMMA CopiedKeepsOffers ==
  ASSUME EnhanceInv, NEW r \in Runs, Copied(r)
  PROVE  EnhanceInv'
<1> DEFINE o == run[r].output
<1>0. WellRun(run[r], saved, clip) /\ run[r].step = "copy"
  BY DEF Copied, JobAt, EnhanceInv, RunsInv
<1>1. o \in Outputs /\ saved[o] # Nothing /\ clip' = clip
  BY <1>0 DEF Copied, WellRun
<1>2. saved[o] \in Begun /\ saved' = [saved EXCEPT ![o].whole = TRUE]
  BY <1>1 DEF Copied, EnhanceInv, SavedInv
<1>3. /\ saved' \in [Outputs -> Begun \cup {Nothing}]
      /\ saved'[o].whole = TRUE /\ saved'[o] \in Begun
      /\ \A p \in Outputs : p # o => saved'[p] = saved[p]
  BY <1>1, <1>2 DEF Begun, EnhanceInv, SavedInv
<1>4. saved'[o] # Nothing
  BY <1>3, NothingIsNone DEF Begun
<1>5. Kept
  BY <1>1, <1>3, <1>4 DEF Kept, EnhanceInv, ClipsInv
<1>6. JobInv'
  <2>1. CASE job' = job
    BY <1>5, <2>1, BusyKeepsJob DEF JobBusy
  <2>2. CASE job' = [job EXCEPT !.phase = "complete", !.output = o]
    <3>1. /\ DOMAIN job' = DOMAIN job /\ job'.approved = job.approved
          /\ job'.output = o
      BY <2>2 DEF EnhanceInv, JobInv
    <3> QED BY <1>1, <1>3, <1>4, <3>1 DEF EnhanceInv, JobInv
  <2> QED BY <2>1, <2>2 DEF Copied
<1>7. RunsInv'
  BY <1>5, RunGoesOn DEF Copied, Over, WellRun
<1> QED BY <1>5, <1>6, <1>7, KeptInv

LEMMA EnhanceInvStep == EnhanceInv /\ [EnhancementNext]_enhanceVars => EnhanceInv'
<1> SUFFICES ASSUME EnhanceInv, [EnhancementNext]_enhanceVars
             PROVE  EnhanceInv'
  OBVIOUS
<1>1. CASE UNCHANGED enhanceVars
  BY <1>1, FilesAlone, RunsStay, BusyKeepsJob, KeptInv DEF enhanceVars, JobBusy
<1>2. ASSUME NEW r \in Runs, preview(r) \/ \E o \in Outputs : full(r, o) \/ convert(r, o)
      PROVE  EnhanceInv'
  <2>1. PICK o : preview(r) \/ (o \in Outputs /\ (full(r, o) \/ convert(r, o)))
    BY <1>2
  <2> QED BY <2>1, AskedKeepsOffers
<1>3. CASE EnhancementNext
  BY <1>2, <1>3, PanelKeepsOffers, EndingKeepsOffers, MoveBeforeKeepsOffers,
     MoveAfterKeepsOffers, BeginCopyKeepsOffers, CopiedKeepsOffers DEF EnhancementNext
<1> QED BY <1>1, <1>3

\* However runs and cancels overlap, a movie the studio reports as saved is whole, and a
\* sample it puts up for approval has both its clips (enhancement.ts, encode).
THEOREM OffersAreWhole == EnhancementSpec => []OfferedIsWhole
<1>1. EnhancementSpec => []EnhanceInv
  BY EnhanceInvInit, EnhanceInvStep, PTL DEF EnhancementSpec
<1>2. EnhanceInv => OfferedIsWhole
  BY NothingIsNone DEF EnhanceInv, JobInv, OfferedIsWhole
<1> QED BY <1>1, <1>2, PTL

=============================================================================
