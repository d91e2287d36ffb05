----------------------------- MODULE PublishGate -----------------------------
(* What pvd::RtmpStream does with the messages of a connection: when it        *)
(* announces the tracks of the stream, and which messages reach the callback   *)
(* as samples.                                                                 *)
(*                                                                             *)
(* Media messages are cached until the stream knows its tracks: both audio and *)
(* video have come, or more than half of MAX_STREAM_MESSAGE_COUNT messages of  *)
(* one kind.  Publishing replays the cache.  The tracks are announced with the *)
(* first sample that finds every track's codec configuration known; samples    *)
(* before it are dropped, it and all after it are forwarded.                   *)
(*                                                                             *)
(* A handler that refuses a message ends the call of ReceiveChunkPacket with   *)
(* -1: nothing is cut off _remained_data, and the next block starts again with *)
(* the first message that is still there.  Messages are numbered as they       *)
(* arrive, whole; RtmpIngest and the chunk parser cut them out of the blocks.  *)
EXTENDS Naturals, Sequences

CONSTANTS MaxMessages,  \* bound: messages the client sends
          MaxBlock,     \* bound: messages a block completes
          HalfCache     \* MAX_STREAM_MESSAGE_COUNT / 2

ASSUME GateAssumption == MaxMessages \in Nat /\ MaxBlock \in Nat /\ HalfCache \in Nat

VARIABLES
  stream,            \* the messages that have arrived
  cut,               \* how many of them have been cut off _remained_data
  next,              \* the message in the handler, 0 between two calls
  replaying,         \* the cached message PublishStream replays, 0 outside
  named,             \* whether _stream_name is set
  coming,            \* the kinds whose *_stream_coming is set
  cache,             \* _stream_message_cache
  video_count,       \* _stream_message_cache_video_count
  audio_count,       \* _stream_message_cache_audio_count
  published_,        \* published_
  tracks,            \* the kinds that have a track in _tracks
  extradata,         \* for each kind the message its track's codec extradata is of, 0: none
  track_info_sent_,  \* whether onRtmpAppStreamName and onTrack have been called
  forwarded,         \* the messages onSample was called with
  refused            \* history: whether a call of ReceiveChunkPacket failed

inputVars == <<stream, cut, next, refused>>
cacheVars == <<cache, video_count, audio_count, replaying>>
publishVars == <<named, coming, published_, tracks>>
trackVars == <<extradata, track_info_sent_, forwarded>>
vars == <<inputVars, cacheVars, publishVars, trackVars>>

-----------------------------------------------------------------------------
MediaTypes == {"video", "audio"}

(* What the handlers tell apart.  A command names the stream (FCPublish,       *)
(* publish) or does not; "config" is a sequence header that parses, "frame"    *)
(* any other packet with a payload, "other_codec" video that is not AVC,       *)
(* "short" one the size check refuses.                                         *)
Messages ==
  [type : {"command"}, content : {"name", "other"}]
  \cup [type : {"video"}, content : {"config", "frame", "end", "other_codec", "short"}]
  \cup [type : {"audio"}, content : {"config", "frame", "short"}]

Blocks == UNION {[1..k -> Messages] : k \in 1..MaxBlock}

(* The tracks whose GetCodecExtradata is not empty.                            *)
Configured == {kind \in MediaTypes : extradata[kind] # 0}

TypeOK ==
  /\ stream \in Seq(Messages)
  /\ cut \in 0..Len(stream)
  /\ next \in 0..Len(stream) + 1
  /\ replaying \in 0..Len(cache) + 1
  /\ named \in BOOLEAN
  /\ coming \subseteq MediaTypes
  /\ cache \in Seq(1..Len(stream))
  /\ video_count \in Nat
  /\ audio_count \in Nat
  /\ published_ \in BOOLEAN
  /\ tracks \subseteq coming
  /\ extradata \in [MediaTypes -> 0..Len(stream)]
  /\ Configured \subseteq tracks
  /\ track_info_sent_ \in BOOLEAN
  /\ forwarded \in Seq(1..Len(stream))
  /\ refused \in BOOLEAN

Init ==
  /\ stream = <<>>
  /\ cut = 0
  /\ next = 0
  /\ replaying = 0
  /\ named = FALSE
  /\ coming = {}
  /\ cache = <<>>
  /\ video_count = 0
  /\ audio_count = 0
  /\ published_ = FALSE
  /\ tracks = {}
  /\ extradata = [kind \in MediaTypes |-> 0]
  /\ track_info_sent_ = FALSE
  /\ forwarded = <<>>
  /\ refused = FALSE

-----------------------------------------------------------------------------
(* A call of ReceiveChunkPacket.                                               *)

AppendBlock ==
  /\ next = 0
  /\ \E block \in Blocks :
       /\ Len(stream) + Len(block) <= MaxMessages
       /\ stream' = stream \o block
  /\ next' = cut + 1
  /\ UNCHANGED <<cut, refused, cacheVars, publishVars, trackVars>>

Handles(type) == next \in 1..Len(stream) /\ replaying = 0 /\ stream[next].type = type

Accept == next' = next + 1 /\ UNCHANGED <<stream, cut, refused>>

Refuse == next' = 0 /\ refused' = TRUE /\ UNCHANGED <<stream, cut>>

CallReturns ==
  /\ next = Len(stream) + 1
  /\ cut' = Len(stream)
  /\ next' = 0
  /\ UNCHANGED <<stream, refused, cacheVars, publishVars, trackVars>>

(* Only the first name counts.                                                 *)
ReceiveCommand ==
  /\ Handles("command")
  /\ named' = (named \/ stream[next].content = "name")
  /\ Accept
  /\ UNCHANGED <<cacheVars, coming, published_, tracks, trackVars>>

-----------------------------------------------------------------------------
(* ReceiveVideoMessage and ReceiveAudioMessage.                                *)

HandlesMedia == \E type \in MediaTypes : Handles(type)

SizeFail ==
  /\ HandlesMedia /\ stream[next].content = "short"
  /\ Refuse
  /\ UNCHANGED <<cacheVars, publishVars, trackVars>>

ComingWith(n) == coming \cup {stream[n].type}

CheckReadyToPublish(kinds) ==
  \/ kinds = MediaTypes
  \/ "video" \in kinds /\ video_count > HalfCache
  \/ "audio" \in kinds /\ audio_count > HalfCache

(* Mutant: each kind counted as the other one.                                 *)
CacheMiscounted ==
  /\ HandlesMedia /\ stream[next].content # "short"
  /\ ~published_ /\ ~CheckReadyToPublish(ComingWith(next))
  /\ coming' = ComingWith(next)
  /\ cache' = Append(cache, next)
  /\ IF stream[next].type = "audio"
     THEN video_count' = video_count + 1 /\ UNCHANGED audio_count
     ELSE audio_count' = audio_count + 1 /\ UNCHANGED video_count
  /\ Accept
  /\ UNCHANGED <<replaying, named, published_, tracks, trackVars>>

(* Both handlers count the message as video.                                   *)
CacheMessage ==
  /\ HandlesMedia /\ stream[next].content # "short"
  /\ ~published_ /\ ~CheckReadyToPublish(ComingWith(next))
  /\ coming' = ComingWith(next)
  /\ cache' = Append(cache, next)
  /\ video_count' = video_count + 1
  /\ Accept
  /\ UNCHANGED <<replaying, audio_count, named, published_, tracks, trackVars>>

(* Mutant: the cache dropped instead of replayed.                              *)
PublishWithoutReplay ==
  /\ HandlesMedia /\ stream[next].content # "short"
  /\ ~published_ /\ CheckReadyToPublish(ComingWith(next))
  /\ coming' = ComingWith(next)
  /\ published_' = TRUE
  /\ IF named
     THEN tracks' = coming' /\ replaying' = Len(cache) + 1 /\ UNCHANGED inputVars
     ELSE Refuse /\ UNCHANGED <<tracks, replaying>>
  /\ UNCHANGED <<cache, video_count, audio_count, named, trackVars>>

(* published_ is set before the name is looked at.                             *)
PublishStream ==
  /\ HandlesMedia /\ stream[next].content # "short"
  /\ ~published_ /\ CheckReadyToPublish(ComingWith(next))
  /\ coming' = ComingWith(next)
  /\ published_' = TRUE
  /\ IF named
     THEN tracks' = coming' /\ replaying' = 1 /\ UNCHANGED inputVars
     ELSE Refuse /\ UNCHANGED <<tracks, replaying>>
  /\ UNCHANGED <<cache, video_count, audio_count, named, trackVars>>

(* Mutant: the sample sent whether or not the tracks have been.                *)
SendFrameAnyway(n) ==
  /\ track_info_sent_' = (track_info_sent_ \/ tracks \subseteq Configured)
  /\ forwarded' = Append(forwarded, n)
  /\ UNCHANGED extradata

(* The tracks are announced by the first sample that finds all of them         *)
(* configured, and this sample is forwarded.                                   *)
SendFrame(n) ==
  /\ track_info_sent_' = (track_info_sent_ \/ tracks \subseteq Configured)
  /\ forwarded' = IF track_info_sent_' THEN Append(forwarded, n) ELSE forwarded
  /\ UNCHANGED extradata

SetCodecExtradata(n) == extradata' = [extradata EXCEPT ![stream[n].type] = n]

(* Mutant: a later configuration replaces the first.                           *)
ConvertToLatest(n) ==
  IF stream[n].content = "config"
  THEN SetCodecExtradata(n) /\ UNCHANGED <<track_info_sent_, forwarded>>
  ELSE SendFrame(n)

(* The first configuration of a track is kept, a later one is a sample.        *)
ConvertToSnyMediaSample(n) ==
  IF stream[n].content = "config" /\ stream[n].type \notin Configured
  THEN SetCodecExtradata(n) /\ UNCHANGED <<track_info_sent_, forwarded>>
  ELSE SendFrame(n)

(* A kind that was not coming when the stream was published is ignored; one    *)
(* that has no track, and video that is not AVC, is refused.                   *)
Ignored(m) == m.type \notin coming \/ (m.content = "end" /\ m.type \in tracks)
Unusable(m) == m.type \in coming /\ (m.content = "other_codec" \/ m.type \notin tracks)

Deliver(n) == IF Ignored(stream[n]) \/ Unusable(stream[n])
              THEN UNCHANGED trackVars
              ELSE ConvertToSnyMediaSample(n)

DeliverMessage ==
  /\ HandlesMedia /\ stream[next].content # "short" /\ published_
  /\ Deliver(next)
  /\ IF Unusable(stream[next]) THEN Refuse ELSE Accept
  /\ UNCHANGED <<cacheVars, publishVars>>

(* Mutant: the cache replayed from its end.                                    *)
ReplayBackwards ==
  /\ replaying \in 1..Len(cache)
  /\ Deliver(cache[Len(cache) + 1 - replaying])
  /\ replaying' = replaying + 1
  /\ UNCHANGED <<inputVars, cache, video_count, audio_count, publishVars>>

(* The loop of PublishStream; what the handlers return is not looked at.       *)
Replay ==
  /\ replaying \in 1..Len(cache)
  /\ Deliver(cache[replaying])
  /\ replaying' = replaying + 1
  /\ UNCHANGED <<inputVars, cache, video_count, audio_count, publishVars>>

(* Mutant: the message that published the stream dropped after the replay.     *)
ReplayDoneDrops ==
  /\ replaying = Len(cache) + 1
  /\ cache' = <<>>
  /\ replaying' = 0
  /\ Accept
  /\ UNCHANGED <<video_count, audio_count, publishVars, trackVars>>

ReplayDone ==
  /\ replaying = Len(cache) + 1
  /\ cache' = <<>>
  /\ replaying' = 0
  /\ UNCHANGED <<inputVars, video_count, audio_count, publishVars, trackVars>>

-----------------------------------------------------------------------------
ParserStep == CallReturns \/ ReceiveCommand \/ SizeFail \/ CacheMessage \/ PublishStream
              \/ DeliverMessage \/ Replay \/ ReplayDone

(* The client has sent everything and the parse thread waits for more.         *)
Finished == next = 0 /\ Len(stream) = MaxMessages /\ UNCHANGED vars

Next == AppendBlock \/ ParserStep \/ Finished

Spec == Init /\ [][Next]_vars

(* The parse thread keeps running; the client need not send.                   *)
FairSpec == Spec /\ WF_vars(ParserStep)

-----------------------------------------------------------------------------
(* What must hold.                                                             *)

Increasing(s) == \A i, j \in 1..Len(s) : i < j => s[i] < s[j]
InSeq(n, s) == \E i \in 1..Len(s) : s[i] = n

(* The messages the handlers have finished with: all of those before Done.     *)
Done == IF replaying \in 1..Len(cache) THEN cache[replaying]
        ELSE IF next = 0 THEN cut + 1 ELSE next

(* Until the stream is published its cache is the media of the stream, every   *)
(* message once and in order, if none was refused: nothing that comes before   *)
(* the tracks are known is lost to the replay.  A stream that is video only is *)
(* published as soon as more than HalfCache messages wait (CheckReadyToPublish *)
(* against the counter the two handlers advance).                              *)
CacheHoldsTheStream ==
  /\ ~published_ /\ ~refused =>
       /\ Increasing(cache)
       /\ \A n \in 1..Len(stream) :
            InSeq(n, cache) <=> (n < Done /\ stream[n].type \in MediaTypes)
  /\ ~published_ /\ coming = {"video"} => Len(cache) <= HalfCache + 1
  /\ published_ /\ named /\ tracks # {} /\ replaying = 0 => cache = <<>>

(* The callback hears of the tracks before the first sample, only when every   *)
(* track is configured, and of samples of these tracks only: what              *)
(* SnyMultiRTMPPublish builds its queues and muxers on.                        *)
TracksBeforeSamples ==
  /\ track_info_sent_ <=> forwarded # <<>>
  /\ track_info_sent_ => tracks # {} /\ Configured = tracks /\ named /\ published_
  /\ \A i \in 1..Len(forwarded) : stream[forwarded[i]].type \in tracks

(* The messages with a configuration of that kind.                             *)
ConfigsOf(kind) == {n \in 1..Len(stream) : stream[n].type = kind /\ stream[n].content = "config"}

(* The configuration of a track is the first one its client sent, also when it *)
(* was cached and only the replay reaches it, and whatever configurations came *)
(* after it before the stream was published (what H264AvccToAnnexB and         *)
(* AACLatmToAdts made of it is what the muxers are opened with), as long as no *)
(* message was refused.                                                        *)
ConfiguredByTheFirst ==
  ~refused =>
    \A kind \in tracks : \A n \in ConfigsOf(kind) :
      n < Done => extradata[kind] \in ConfigsOf(kind) /\ extradata[kind] <= n

(* Announced tracks are final: whatever comes and is refused, no message takes *)
(* a track away or puts another configuration in the place of the one the      *)
(* muxers were opened with.                                                    *)
AnnouncedTracksAreFinal ==
  [][track_info_sent_ => track_info_sent_' /\ UNCHANGED <<tracks, extradata>>]_vars

(* Samples leave in the order their messages came, none twice, the replay of   *)
(* the cache included, as long as no message was refused.                      *)
ForwardedInOrder ==
  ~refused => Increasing(forwarded) /\ \A i \in 1..Len(forwarded) : forwarded[i] < Done

(* From the first sample on, every frame of an announced track is forwarded.   *)
NoFrameLostAfterTracks ==
  ~refused /\ forwarded # <<>> =>
    \A n \in forwarded[1]..Len(stream) :
      n < Done /\ stream[n].type \in tracks /\ stream[n].content = "frame"
        => InSeq(n, forwarded)

(* A stream with both kinds, named first, gets its tracks announced once both  *)
(* configurations and a video frame after them have come, unless a message of  *)
(* it was refused.                                                             *)
HasBothConfigured ==
  /\ Len(stream) > 0 /\ stream[1] = [type |-> "command", content |-> "name"]
  /\ \E v, a, f \in 1..Len(stream) :
       /\ stream[v] = [type |-> "video", content |-> "config"]
       /\ stream[a] = [type |-> "audio", content |-> "config"]
       /\ stream[f] = [type |-> "video", content |-> "frame"]
       /\ v < f /\ a < f

CompleteStreamIsAnnounced == HasBothConfigured ~> (track_info_sent_ \/ refused)

(* "It makes this stream audio only": a stream without video is published too, *)
(* once more than HalfCache of its messages have been cached.                  *)
AudioOnlyIsPublished ==
  ~published_ /\ coming = {"audio"} => Len(cache) <= HalfCache + 1
=============================================================================
