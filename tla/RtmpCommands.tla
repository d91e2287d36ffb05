---------------------------- MODULE RtmpCommands ----------------------------
(* The dialogue of a publishing client with pvd::RtmpStream: the AMF commands,  *)
(* the answers to them, the metadata the tracks are built from, and the         *)
(* acknowledgement of what has been received.                                  *)
(*                                                                             *)
(* Messages are handled as in PublishGate: the handlers of a call of            *)
(* ReceiveChunkPacket run one after the other, and one that refuses its        *)
(* message ends the call with -1 and nothing cut off.  PublishGate says which  *)
(* media message publishes the stream; here it is the first.  Sizes are        *)
(* counted in messages.                                                        *)
EXTENDS AmfDocument

CONSTANTS Requests,         \* what a client may send after its first connect
          Connects,         \* what it may connect with
          MaxMessages,      \* bound: messages the client sends
          MaxBlock,         \* bound: messages a block completes
          RTMP_DEFAULT_ACKNOWNLEDGEMENT_SIZE,
          EncodeAmf(_),     \* AmfDocument::Encode
          DecodeAmf(_),     \* AmfDocument::Decode
          ClientAmf(_),     \* how the client encodes
          strtol(_)         \* the number a text begins with

(* The text without characters.                                                *)
Empty == ""

(* A property has one type, and a document is a sequence of properties.        *)
IsProperty(property) == property = [type \in {GetType(property)} |-> property[type]]
IsDocument(document) ==
  /\ document \in Seq(Range(document))
  /\ \A i \in 1..Len(document) : IsProperty(document[i])

ASSUME DialogueAssumption ==
  /\ MaxMessages \in Nat /\ MaxBlock \in Nat /\ RTMP_DEFAULT_ACKNOWNLEDGEMENT_SIZE \in Nat
  /\ \A request \in Requests \cup Connects :
       /\ IsDocument(request.document) /\ request.value \in Nat
       /\ request.type = "command" => request.document # <<>>
  /\ \A connect \in Connects :
       connect.type = "command" /\ Head(connect.document) = String("connect")

VARIABLES
  stream,        \* the messages that have arrived
  cut,           \* how many of them have been cut off _remained_data
  next,          \* the message in the handler, 0 between two calls
  refused,       \* history: whether a call of ReceiveChunkPacket failed
  _tc_url,       \* what kind of URL the stream's names are appended to
  _stream_name,
  _media_info,   \* the fields of _media_info the metadata sets
  _device_string,
  published_,
  _tracks,       \* the track of each kind, NoTracks before
  _acknowledgement_size,
  _acknowledgement_traffic,
  sent           \* the messages sent to the client

callVars == <<stream, cut, next, refused>>
nameVars == <<_tc_url, _stream_name>>
mediaVars == <<_media_info, _device_string>>
trackVars == <<published_, _tracks>>
ackVars == <<_acknowledgement_size, _acknowledgement_traffic>>
vars == <<callVars, nameVars, mediaVars, trackVars, ackVars, sent>>

-----------------------------------------------------------------------------
(* The client.  Message n has chunk stream and transaction id of its own.      *)

Csid(n) == n + 2

Numbered(request, n) ==
  IF request.type = "command"
  THEN <<Head(request.document), Number(n)>> \o Tail(request.document)
  ELSE request.document

Document(n) == Numbered(stream[n], n)

IsCall(n, name) == stream[n].type = "command" /\ Head(stream[n].document) = String(name)

(* What the server gets of a document: an empty string that comes last is not  *)
(* decoded.                                                                    *)
Received(document) ==
  IF document # <<>> /\ Last(document) = String(Empty) THEN Front(document) ELSE document

(* Every client connects first, with a URL.                                    *)
Blocks == UNION {[1..k -> Requests \cup Connects] : k \in 1..MaxBlock}

-----------------------------------------------------------------------------
(* The answers.                                                                *)

URGENT == 2
_client_id == 12345
_rtmp_stream_id == 1

Sent(csid, type, stream_id, value, body) ==
  [csid |-> csid, type |-> type, stream_id |-> stream_id, value |-> value, body |-> body]

SendWindowAcknowledgementSize ==
  Sent(URGENT, "window_acknowledgement_size", _rtmp_stream_id, RTMP_DEFAULT_ACKNOWNLEDGEMENT_SIZE, <<>>)
SendSetPeerBandwidth == Sent(URGENT, "set_peer_bandwidth", _rtmp_stream_id, 0, <<>>)
SendStreamBegin == Sent(URGENT, "stream_begin", 0, _rtmp_stream_id, <<>>)
SendAcknowledgementSize(traffic) == Sent(URGENT, "acknowledgement", 0, traffic, <<>>)

SendAmfCommand(csid, stream_id, document) == Sent(csid, "command", stream_id, 0, EncodeAmf(document))

ConnectResult(transaction_id, object_encoding) ==
  <<String("_result"), Number(transaction_id),
    Object(<< <<"mode", Number(1)>> >>),
    Object(<< <<"code", String("Success")>>, <<"clientid", Number(_client_id)>>,
              <<"objectEncoding", Number(object_encoding)>>,
              <<"data", Array(<< <<"version", String("3,5")>> >>)>> >>)>>

(* Mutant: the stream in the place of the transaction.                         *)
CreateStreamResultSwapped(transaction_id) ==
  <<String("_result"), Number(_rtmp_stream_id), Null, Number(transaction_id)>>

CreateStreamResult(transaction_id) ==
  <<String("_result"), Number(transaction_id), Null, Number(_rtmp_stream_id)>>

Status(name, code) ==
  <<String(name), Number(0), Null,
    Object(<< <<"code", String(code)>>, <<"clientid", Number(_client_id)>> >>)>>

SendAmfConnectResult(csid, transaction_id, object_encoding) ==
  SendAmfCommand(csid, _rtmp_stream_id, ConnectResult(transaction_id, object_encoding))
SendAmfCreateStreamResult(csid, transaction_id) ==
  SendAmfCommand(csid, 0, CreateStreamResult(transaction_id))
SendAmfOnFCPublish(csid) == SendAmfCommand(csid, _rtmp_stream_id, Status("onFCPublish", "Start"))
SendAmfOnStatus(csid, code) == SendAmfCommand(csid, _rtmp_stream_id, Status("onStatus", code))

(* The object of a connect, and what it says of the object encoding.           *)
ObjectOf(document) == IF IsType(document, 2, "Object") THEN document[3].Object ELSE <<>>
ObjectEncoding(document) == Get(ObjectOf(document), "objectEncoding", "Number", 0)

(* The two codecs fit together for what is said in the dialogue.               *)
ASSUME CodecAssumption ==
  \A n \in 1..MaxMessages :
    /\ \A request \in Requests \cup Connects :
         /\ request.type \in {"command", "data"} =>
              DecodeAmf(ClientAmf(Numbered(request, n))) = Received(Numbered(request, n))
         /\ LET result == ConnectResult(n, ObjectEncoding(Numbered(request, n)))
            IN  DecodeAmf(EncodeAmf(result)) = result
    /\ DecodeAmf(EncodeAmf(CreateStreamResult(n))) = CreateStreamResult(n)
    /\ \A name \in {"onFCPublish", "onStatus"}, code \in {"Start", "Rejected"} :
         DecodeAmf(EncodeAmf(Status(name, code))) = Status(name, code)

-----------------------------------------------------------------------------
NoMedia ==
  [codecs |-> <<"H264", "AAC">>, width |-> 0, rate |-> 0, video_bitrate |-> 0,
   audio_bitrate |-> 0, channels |-> 0, encoder_type |-> "Custom"]

(* SetTrackInfo: the codecs are always these, whatever the metadata said, and  *)
(* the bit rates are given in thousands.                                       *)
LayoutOf(channels) ==
  CASE channels = 1 -> "LayoutMono"
    [] channels = 2 -> "LayoutStereo"
    [] OTHER -> "LayoutUnknown"

VideoTrack(info) ==
  [codec |-> "H264", width |-> info.width, rate |-> info.rate, bitrate |-> 1000 * info.video_bitrate]
AudioTrack(info) ==
  [codec |-> "AAC", layout |-> LayoutOf(info.channels), bitrate |-> 1000 * info.audio_bitrate]

TracksOf(kinds, info) ==
  [kind \in kinds |-> IF kind = "video" THEN VideoTrack(info) ELSE AudioTrack(info)]

NoTracks == TracksOf({}, NoMedia)

Init ==
  /\ stream = <<>> /\ cut = 0 /\ next = 0 /\ refused = FALSE
  /\ _tc_url = Empty /\ _stream_name = Empty
  /\ _media_info = NoMedia /\ _device_string = Empty
  /\ published_ = FALSE /\ _tracks = NoTracks
  /\ _acknowledgement_size = RTMP_DEFAULT_ACKNOWNLEDGEMENT_SIZE \div 2
  /\ _acknowledgement_traffic = 0
  /\ sent = <<>>

-----------------------------------------------------------------------------
(* A call of ReceiveChunkPacket.                                               *)

AppendBlock ==
  /\ next = 0
  /\ \E block \in Blocks :
       /\ Len(stream) + Len(block) <= MaxMessages
       /\ stream = <<>> => block[1] \in Connects
       /\ stream' = stream \o block
  /\ next' = cut + 1
  /\ UNCHANGED <<cut, refused, nameVars, mediaVars, trackVars, ackVars, sent>>

Handles(type) == next \in 1..Len(stream) /\ stream[next].type = type

Accept == next' = next + 1 /\ UNCHANGED <<stream, cut, refused>>
Refuse == next' = 0 /\ refused' = TRUE /\ UNCHANGED <<stream, cut>>

(* Mutant: the count goes on after an acknowledgement.                         *)
AcknowledgeOnAndOn(traffic) ==
  IF traffic > _acknowledgement_size
  THEN sent' = Append(sent, SendAcknowledgementSize(traffic)) /\ _acknowledgement_traffic' = traffic
  ELSE _acknowledgement_traffic' = traffic /\ UNCHANGED sent

Acknowledge(traffic) ==
  IF traffic > _acknowledgement_size
  THEN sent' = Append(sent, SendAcknowledgementSize(traffic)) /\ _acknowledgement_traffic' = 0
  ELSE _acknowledgement_traffic' = traffic /\ UNCHANGED sent

(* What a call that fails has processed is counted by none.                    *)
CallReturns ==
  /\ next = Len(stream) + 1
  /\ cut' = Len(stream)
  /\ next' = 0
  /\ Acknowledge(_acknowledgement_traffic + Len(stream) - cut)
  /\ UNCHANGED <<stream, refused, nameVars, mediaVars, trackVars, _acknowledgement_size>>

(* An acknowledgement is due after half of the window.                         *)
Half(window) == window \div 2

(* What a call has processed before this message is still added at its end.    *)
ReceiveWindowAcknowledgementSize ==
  /\ Handles("window")
  /\ IF stream[next].value = 0 THEN UNCHANGED ackVars
     ELSE _acknowledgement_size' = Half(stream[next].value) /\ _acknowledgement_traffic' = 0
  /\ Accept
  /\ UNCHANGED <<nameVars, mediaVars, trackVars, sent>>

-----------------------------------------------------------------------------
(* The commands.                                                               *)

TcUrlOf(object) == Get(object, "tcUrl", "String", _tc_url)

OnAmfConnect(document, transaction_id) ==
  /\ _tc_url' = TcUrlOf(ObjectOf(document))
  /\ sent' = sent \o <<SendWindowAcknowledgementSize, SendSetPeerBandwidth, SendStreamBegin,
                       SendAmfConnectResult(Csid(next), transaction_id, ObjectEncoding(document))>>
  /\ UNCHANGED _stream_name

OnAmfCreateStream(transaction_id) ==
  /\ sent' = Append(sent, SendAmfCreateStreamResult(Csid(next), transaction_id))
  /\ UNCHANGED nameVars

(* Url::Parse of "<tcUrl>/<name>" and its third token.  Behind a tcUrl without *)
(* an application the name is taken for it, behind one with a query for a part *)
(* of the query.                                                               *)
StreamOf(name) == IF _tc_url = "app" THEN name ELSE Empty

HasName(document) == IsType(document, 3, "String")

(* Mutant: every FCPublish renames the stream.                                 *)
FCPublishRenames(document) == HasName(document)

FCPublishNames(document) == _stream_name = Empty /\ HasName(document)

OnAmfFCPublish(document) ==
  IF FCPublishNames(document)
  THEN /\ sent' = Append(sent, SendAmfOnFCPublish(Csid(next)))
       /\ _stream_name' = StreamOf(document[4].String)
       /\ UNCHANGED _tc_url
  ELSE UNCHANGED <<sent, nameVars>>

(* Mutant: no answer to a publish without a name.                              *)
RejectSilently == UNCHANGED <<sent, nameVars>>

RejectPublish ==
  /\ sent' = Append(sent, SendAmfOnStatus(Csid(next), "Rejected"))
  /\ UNCHANGED nameVars

(* A stream that has its name is not asked for it again, and one whose URL     *)
(* yields none is told to start as well.                                       *)
OnAmfPublish(document) ==
  IF _stream_name = Empty /\ ~HasName(document)
  THEN RejectPublish
  ELSE /\ sent' = sent \o <<SendStreamBegin, SendAmfOnStatus(Csid(next), "Start")>>
       /\ _stream_name' = IF _stream_name = Empty THEN StreamOf(document[4].String) ELSE _stream_name
       /\ UNCHANGED _tc_url

(* releaseStream, ping and deleteStream change nothing, nor does a command the *)
(* server does not know.                                                       *)
ReceiveAmfCommandMessage ==
  /\ Handles("command")
  /\ LET document == DecodeAmf(ClientAmf(Document(next)))
         message_name == IF IsType(document, 0, "String") THEN document[1].String ELSE Empty
         transaction_id == IF IsType(document, 1, "Number") THEN document[2].Number ELSE 0
     IN  CASE message_name = "connect" -> OnAmfConnect(document, transaction_id)
           [] message_name = "createStream" -> OnAmfCreateStream(transaction_id)
           [] message_name = "FCPublish" -> OnAmfFCPublish(document)
           [] message_name = "publish" -> OnAmfPublish(document)
           [] OTHER -> UNCHANGED <<nameVars, sent>>
  /\ Accept
  /\ UNCHANGED <<mediaVars, trackVars, ackVars>>

-----------------------------------------------------------------------------
(* ReceiveAmfDataMessage and OnAmfMetaData.                                    *)

FirstOf(object, name1, name2, default) ==
  Get(object, name1, "Number", Get(object, name2, "Number", default))

VideoCodec(object) ==
  IF Get(object, "videocodecid", "String", Empty) \in {"avc1", "H264Avc"}
     \/ Get(object, "videocodecid", "Number", 0) = 7 THEN "H264" ELSE "Unknown"

AudioCodec(object) ==
  LET name == Get(object, "audiocodecid", "String", Empty)
      number == Get(object, "audiocodecid", "Number", 0)
  IN  IF name = "mp4a" \/ number = 10 THEN "AAC"
      ELSE IF name \in {"mp3", ".mp3"} \/ number = 2 THEN "MP3"
      ELSE IF name = "speex" \/ number = 11 THEN "SPEEX" ELSE "Unknown"

(* The device, and what kind of encoder it is.  A device is here the text of   *)
(* these that it contains.                                                     *)
NamesDevice(object) == Has(object, "videodevice", "String") \/ Has(object, "encoder", "String")

DeviceOf(object, device) ==
  Get(object, "videodevice", "String", Get(object, "encoder", "String", device))

EncoderTypeOf(device) ==
  CASE device \in {"OpenBroadcaster", "obs-output"} -> "OBS"
    [] device = "XSplitBroadcaster" -> "Xsplit"
    [] device = "Lavf" -> "Lavf"
    [] OTHER -> "Custom"

(* The one given as a text comes before the numbers.                           *)
VideoBitrate(object) ==
  IF Has(object, "maxBitrate", "String") THEN strtol(Get(object, "maxBitrate", "String", Empty))
  ELSE FirstOf(object, "bitrate", "videodatarate", 0)

Channels(object) ==
  IF Get(object, "audiochannels", "String", Empty) = "stereo" THEN 2
  ELSE Get(object, "audiochannels", "Number", 1)

(* Mutant: a width the metadata does not give is kept.                         *)
MediaInfoKept(object, device) ==
  [codecs |-> <<VideoCodec(object), AudioCodec(object)>>,
   width |-> Get(object, "width", "Number", _media_info.width),
   rate |-> FirstOf(object, "framerate", "videoframerate", 30),
   video_bitrate |-> VideoBitrate(object),
   audio_bitrate |-> FirstOf(object, "audiodatarate", "audiobitrate", 0),
   channels |-> Channels(object),
   encoder_type |-> EncoderTypeOf(device)]

(* The width stands for the height and for the rate and the size of the        *)
(* samples, which are read in the same way.                                    *)
MediaInfo(object, device) ==
  [codecs |-> <<VideoCodec(object), AudioCodec(object)>>,
   width |-> Get(object, "width", "Number", 0),
   rate |-> FirstOf(object, "framerate", "videoframerate", 30),
   video_bitrate |-> VideoBitrate(object),
   audio_bitrate |-> FirstOf(object, "audiodatarate", "audiobitrate", 0),
   channels |-> Channels(object),
   encoder_type |-> EncoderTypeOf(device)]

IsMetaData(document) ==
  /\ IsType(document, 0, "String") /\ document[1].String = "@setDataFrame"
  /\ IsType(document, 1, "String") /\ document[2].String = "onMetaData"
  /\ IsType(document, 2, "Object") \/ IsType(document, 2, "Array")

OnAmfMetaData(object) ==
  /\ _device_string' = DeviceOf(object, _device_string)
  /\ _media_info' = MediaInfo(object, _device_string')

ReceiveAmfDataMessage ==
  /\ Handles("data")
  /\ LET document == DecodeAmf(ClientAmf(Document(next)))
     IN  IF IsMetaData(document) THEN OnAmfMetaData(document[3][GetType(document[3])])
         ELSE UNCHANGED mediaVars
  /\ Accept
  /\ UNCHANGED <<nameVars, trackVars, ackVars, sent>>

(* PublishStream.  Without a name there will be no tracks.                     *)
ReceiveMedia ==
  /\ Handles("media")
  /\ published_' = TRUE
  /\ _tracks' = IF ~published_ /\ _stream_name # Empty
                THEN TracksOf(stream[next].kinds, _media_info) ELSE _tracks
  /\ IF DOMAIN _tracks' = {} THEN Refuse ELSE Accept
  /\ UNCHANGED <<nameVars, mediaVars, ackVars, sent>>

-----------------------------------------------------------------------------
ParserStep ==
  \/ CallReturns \/ ReceiveWindowAcknowledgementSize
  \/ ReceiveAmfCommandMessage \/ ReceiveAmfDataMessage \/ ReceiveMedia

(* The client has sent everything and the parse thread waits for more.         *)
Finished == next = 0 /\ Len(stream) = MaxMessages /\ UNCHANGED vars

Next == AppendBlock \/ ParserStep \/ Finished

Spec == Init /\ [][Next]_vars

-----------------------------------------------------------------------------
(* What must hold, as the client sees it: it knows what it sent and decodes    *)
(* what it receives.                                                           *)

(* Between two calls, and none has failed: all before cut has been handled.    *)
Settled == next = 0 /\ ~refused

CallsTo(names, m) == {n \in 1..m : \E name \in names : IsCall(n, name)}

(* The answers of that name, what they say and the call whose chunk stream     *)
(* they are on.                                                                *)
Answer(i) == DecodeAmf(sent[i].body)
IsNamed(answer, name) == IsType(answer, 0, "String") /\ answer[1].String = name
InfoOf(answer) == IF IsType(answer, 3, "Object") THEN answer[4].Object ELSE <<>>
CallOf(i) == CHOOSE n \in 1..MaxMessages : Csid(n) = sent[i].csid
Answers(name) == {i \in 1..Len(sent) : sent[i].type = "command" /\ IsNamed(Answer(i), name)}

(* Each of the calls has one of the answers, in their order.                   *)
OneEach(answers, calls) ==
  /\ {CallOf(i) : i \in answers} = calls
  /\ \A i, j \in answers : i < j => CallOf(i) < CallOf(j)

IsResultOf(answer, n) ==
  /\ Len(answer) = 4 /\ answer[2] = Number(n)
  /\ IsCall(n, "createStream") => answer[4] = Number(_rtmp_stream_id)
  /\ IsCall(n, "connect") =>
       /\ Get(InfoOf(answer), "objectEncoding", "Number", -1) = ObjectEncoding(Document(n))
       /\ FindName(Get(InfoOf(answer), "data", "Array", <<>>), "version") = 1

CallsAnsweredTo(m) ==
  LET results == Answers("_result")
  IN  /\ OneEach(results, CallsTo({"connect", "createStream"}, m))
      /\ \A i \in results : IsResultOf(Answer(i), CallOf(i))

(* Every connect and createStream gets one _result, on its chunk stream, with  *)
(* its transaction id, in the order of the calls, and it decodes to what the   *)
(* client needs: the object encoding it asked for and the version data behind  *)
(* it, the id of the stream (ReceiveAmfCommandMessage, both codecs and the     *)
(* Send functions together).                                                   *)
CallsAnswered == Settled => CallsAnsweredTo(cut)

(* The calls that asked for a name; an empty string that comes last is not     *)
(* decoded.                                                                    *)
AsksForName(n) ==
  /\ Len(Document(n)) > 3 /\ GetType(Document(n)[4]) = "String"
  /\ Len(Document(n)) > 4 \/ Document(n)[4] # String(Empty)

Asked(m) == {n \in CallsTo({"FCPublish", "publish"}, m) : AsksForName(n)}
NameAsked(n) == Document(n)[4].String

UsualClient(m) ==
  /\ \A n \in CallsTo({"connect"}, m) : Get(ObjectOf(Document(n)), "tcUrl", "String", Empty) = "app"
  /\ \A n \in Asked(m) : NameAsked(n) # Empty

PublishToldTo(m) ==
  LET statuses == Answers("onStatus")
      usual == UsualClient(m)
  IN  /\ OneEach(statuses, CallsTo({"publish"}, m))
      /\ \A i \in statuses :
           LET started == Get(InfoOf(Answer(i)), "code", "String", Empty) = "Start"
           IN  /\ AsksForName(CallOf(i)) => started
               /\ usual => (started <=> \E n \in Asked(m) : n <= CallOf(i))

(* Every publish is told whether it may start: always if it gives a name, and  *)
(* a usual client, whose URL has an application and whose names are not empty, *)
(* also if it has given one before, never otherwise.                           *)
PublishTold == Settled => PublishToldTo(cut)

NamedTo(m) ==
  UsualClient(m) => _stream_name = IF Asked(m) = {} THEN Empty ELSE NameAsked(Min(Asked(m)))

(* A usual client is published under the first name it gave, in FCPublish or   *)
(* publish, whatever it asks for later.                                        *)
NamedByTheFirst == Settled => NamedTo(cut)

IsMeta(n) == stream[n].type = "data" /\ IsMetaData(Document(n))

(* The metadata among the first m messages, and what one of them says.         *)
Metas(m) == {n \in 1..m : IsMeta(n)}
MetaObject(n) == Document(n)[3][GetType(Document(n)[3])]

(* The track of that kind such an object describes.                            *)
Described(kind, object) ==
  IF kind = "video"
  THEN [codec |-> "H264",
        width |-> Get(object, "width", "Number", 0),
        rate |-> FirstOf(object, "framerate", "videoframerate", 30),
        bitrate |-> 1000 * VideoBitrate(object)]
  ELSE [codec |-> "AAC",
        layout |-> LayoutOf(Channels(object)),
        bitrate |-> 1000 * FirstOf(object, "audiodatarate", "audiobitrate", 0)]

TracksSaid(kinds, m) ==
  IF Metas(m) = {} THEN TracksOf(kinds, NoMedia)
  ELSE [kind \in kinds |-> Described(kind, MetaObject(Max(Metas(m))))]

(* The device named last.                                                      *)
DeviceSaid(m) ==
  LET naming == {n \in Metas(m) : NamesDevice(MetaObject(n))}
  IN  IF naming = {} THEN Empty ELSE DeviceOf(MetaObject(Max(naming)), Empty)

(* The tracks are those the last metadata before the publishing media          *)
(* describes, each field of each track: what earlier metadata said and this    *)
(* one leaves out is forgotten, and what comes later changes nothing.  Only    *)
(* the device outlives its metadata, so the encoder is the one named last      *)
(* (OnAmfMetaData, PublishStream, SetTrackInfo).                               *)
TracksMatchMetadata ==
  LET media == {n \in 1..Len(stream) : stream[n].type = "media"}
  IN  /\ ~refused /\ published_ =>
           media # {} /\ _tracks = TracksSaid(stream[Min(media)].kinds, Min(media))
      /\ Settled => _media_info.encoder_type = EncoderTypeOf(DeviceSaid(cut))

(* What all the acknowledgements sent add up to.                               *)
Acknowledged ==
  LET sum[i \in 0..Len(sent)] ==
        IF i = 0 THEN 0
        ELSE sum[i - 1] + (IF sent[i].type = "acknowledgement" THEN sent[i].value ELSE 0)
  IN  sum[Len(sent)]

(* The window the client announced last, or the default.                       *)
WindowAt(m) ==
  LET windows == {n \in 1..m : stream[n].type = "window" /\ stream[n].value # 0}
  IN  IF windows = {} THEN RTMP_DEFAULT_ACKNOWNLEDGEMENT_SIZE ELSE stream[Max(windows)].value

(* No byte is acknowledged twice, and none is forgotten unless the client      *)
(* changes its window; between two calls the client is never left with more    *)
(* than half of its window unacknowledged.                                     *)
AcknowledgedOnceInTime ==
  /\ Acknowledged + _acknowledgement_traffic <= cut
  /\ (\A n \in 1..Len(stream) : stream[n].type # "window")
       => Acknowledged + _acknowledgement_traffic = cut
  /\ Settled => 2 * _acknowledgement_traffic <= WindowAt(cut)
=============================================================================
