------------------------------- MODULE MCApps -------------------------------
(***************************************************************************)
(* The wallet and the client applications, one scenario each, chosen at    *)
(* the start: top-ups and transfers, the web wallet's form over them, the  *)
(* television's screens, players and their heartbeats, a movie's upload,   *)
(* the Studio's video processor, encoders and players of adaptive streams. *)
(***************************************************************************)
EXTENDS WalletPage, TvScreens, Players, Uploads, Enhancement, Streaming, TLC

VARIABLE part
coinVars == <<ledgerVars, coinWalletVars>>
allVars == <<coinVars, pageVars, screenVars, playersAll, uploadVars, enhanceVars, streamVars, part>>

CONSTANT k1    \* the key the first form draws

MCFiles == {[kind |-> "video", type |-> "mp4", size |-> 2], [kind |-> "poster", type |-> "jpg", size |-> 1],
            [kind |-> "video", type |-> "mkv", size |-> 1]}
MCTypes == [video |-> {"mp4"}, poster |-> {"jpg"}]
MCMaxSize == [video |-> 2, poster |-> 1]
MCSize == ("master" :> 1) @@ ("360p" :> 2)

-----------------------------------------------------------------------------
(* The wallet: transfers of one key race.  The page: first a top-up, so    *)
(* that there are coins to send, then any use of the form.                 *)

OneKey == \A c \in Calls : call[c].op \in {"transfer", "sent"} => call[c].key = k1

TopupOfThePage(c, r) ==
  /\ form.edits = 0
  /\ \/ StartTopup(Sender, r, 2) \/ InitializeCharge(r) \/ SettleCharge(r, "paid")
     \/ ReceiveWebhook(c, r) \/ CreditTopup(c)
  /\ \A q \in TopupRefs : topup'[q] # NoTopup => q = r
  /\ UNCHANGED pageVars

UsingThePage ==
  \/ \E c \in Calls, r \in TopupRefs : TopupOfThePage(c, r)
  \/ PageNext /\ Cardinality(ledger) > 0

-----------------------------------------------------------------------------
(* Streams: encoders publish while a player asks for playback, or players  *)
(* stream a build that is there while another takes its place.             *)

AStoredBuild ==
  /\ source = MaxFingerprint /\ encodable = 1..MaxFingerprint
  /\ encoder = [e \in Encoders |-> EncoderIdle]
  /\ stored = [b \in Builds |-> HlsFiles]
  /\ \E b \in Builds : marker = [fingerprint |-> source, build |-> b]
  /\ ready = None /\ playlist = [held |-> {}, bytes |-> 0]
  /\ viewer = [v \in Streamers |-> Watching]
  /\ streamNow = 0 /\ crashes = 0

AnotherBuild ==
  /\ \E b \in Builds : marker' = [marker EXCEPT !.build = b]
  /\ UNCHANGED <<source, encodable, encoder, stored, crashes, deliverVars, streamNow>>

OneStreamer == {CHOOSE v \in Streamers : TRUE}

Ask ==
  /\ \E v \in OneStreamer, end \in TicketEnds : AskPlayback(v, end, "play") \/ ReadMarker(v)
  /\ UNCHANGED <<encodeVars, streamNow>>

Ticking == StreamTick /\ UNCHANGED <<encodeVars, deliverVars>>

EncodingNext == (EncodeNext /\ UNCHANGED <<deliverVars, streamNow>>) \/ Ask \/ Ticking
DeliveringNext == (DeliverNext /\ UNCHANGED <<encodeVars, streamNow>>) \/ AnotherBuild \/ Ticking

-----------------------------------------------------------------------------

\* Bound: the browser's player reports once, when it is left.
OnceFromBrowser == \A p \in WebPlayers : player[p].step = "open" => player[p].sent = 0

Start ==
  /\ part \in {"wallet", "page", "screens", "players", "upload", "processor", "encode", "deliver"}
  /\ WalletStart /\ PageInit /\ form.key = k1
  /\ ScreensStart /\ PlayersStart /\ UploadsInit /\ EnhancementInit
  /\ IF part = "encode" THEN StreamingInit ELSE AStoredBuild

Step ==
  /\ UNCHANGED part
  /\ \/ /\ part \in {"wallet", "page"}
        /\ \/ part = "wallet" /\ WalletNext /\ OneKey' /\ UNCHANGED pageVars
           \/ part = "page" /\ UsingThePage
        /\ UNCHANGED <<screenVars, playersAll, uploadVars, enhanceVars, streamVars>>
     \/ /\ \/ part = "screens" /\ ScreensNext /\ UNCHANGED playersAll
           \/ part = "players" /\ PlayersNext /\ OnceFromBrowser' /\ UNCHANGED screenVars
        /\ UNCHANGED <<coinVars, pageVars, uploadVars, enhanceVars, streamVars>>
     \/ /\ \/ part = "upload" /\ UploadsNext /\ UNCHANGED <<enhanceVars, streamVars>>
           \/ part = "processor" /\ EnhancementNext /\ UNCHANGED <<uploadVars, streamVars>>
           \/ part = "encode" /\ EncodingNext /\ UNCHANGED <<uploadVars, enhanceVars>>
           \/ part = "deliver" /\ DeliveringNext /\ UNCHANGED <<uploadVars, enhanceVars>>
        /\ UNCHANGED <<coinVars, pageVars, screenVars, playersAll>>

AppsSpec == Start /\ [][Step]_allVars

UploadsOnly == Start /\ part = "upload" /\ [][Step]_allVars

-----------------------------------------------------------------------------

Symmetry == Permutations(Builds) \cup Permutations(Encoders) \cup Permutations(Views)

=============================================================================
