------------------------------ MODULE MCLibrary ------------------------------
(* The parts of common/src that the proxy's threads do not share, each used on *)
(* its own: "subject" is the one that is used, and the others stay as they are. *)
EXTENDS SnyDemuxer, FileDemuxer, TsMuxer, FfmpegMuxers,
        OvData, DataStream, SnyDataBuffer, GfBitStream, ByteStream

S(dts, sync, desc, units) == [dts |-> dts, sync |-> sync, desc |-> desc, units |-> units]
Track(id, kind, codec, samples) ==
  [id |-> id, kind |-> kind, codec |-> codec, samples |-> samples]

Avc == <<S(0, TRUE, 1, <<"aud", "idr">>), S(2, FALSE, 1, <<"slice">>),
         S(4, TRUE, 2, <<"idr", "slice">>)>>
Hevc == <<S(1, TRUE, 1, <<"idr">>), S(3, FALSE, 2, <<"slice", "cut">>), S(5, TRUE, 2, <<"idr">>)>>
Long == <<S(0, TRUE, 1, <<"raw">>), S(2, TRUE, 1, <<"raw">>), S(3, TRUE, 1, <<"raw">>),
          S(5, TRUE, 1, <<"raw">>)>>
Short == <<S(0, TRUE, 1, <<"raw">>), S(2, TRUE, 1, <<>>), S(3, TRUE, 1, <<"raw">>)>>

MCDemuxFiles == {[fragmented |-> f, tracks |-> t] : f \in BOOLEAN,
                 t \in {<<Track(1, "video", "avc", Avc), Track(2, "audio", "mp4a", Long)>>,
                        <<Track(1, "audio", "ac3", Short), Track(2, "video", "hevc", Hevc)>>,
                        <<Track(1, "audio", "opus", Long), Track(2, "video", "avc", Avc)>>}}

Extra(size, hvcc, config) == [size |-> size, hvcc |-> hvcc, config |-> config]
Stream(codec, tag, extra) == [codec |-> codec, tag |-> tag, extra |-> extra]
Packets(streams) == [n \in 1..Len(streams) |->
                      [stream |-> streams[n], dts |-> n \div 2, key |-> n # 2]]
AvFile(found, streams, of) == [infoFound |-> found, streams |-> streams, packets |-> Packets(of)]

MCAvFiles ==
  [video_audio |-> AvFile(TRUE, <<Stream("h264", "avc1", Extra(30, TRUE, <<>>)),
                                  Stream("aac", "mp4a", Extra(2, FALSE, <<2, 4, 2>>))>>,
                          <<1, 2, 1, 2>>),
   audio_video |-> AvFile(TRUE, <<Stream("aac", "mp4a", Extra(5, FALSE, <<5, 11, 1>>)),
                                  Stream("h265", "hev1", Extra(30, TRUE, <<>>)),
                                  Stream("subtitle", "text", Extra(0, FALSE, <<>>))>>,
                          <<3, 2, 1, 3>>),
   unknown |-> AvFile(TRUE, <<Stream("h264", "avc1", Extra(600, TRUE, <<>>)),
                              Stream("opus", "opus", Extra(0, FALSE, <<>>))>>, <<1, 2>>),
   broken |-> AvFile(FALSE, <<>>, <<>>)]

MCTsTracks == <<[type |-> "video", codec |-> "h264", extradata |-> "good"],
                [type |-> "audio", codec |-> "aac", extradata |-> "good"],
                [type |-> "video", codec |-> "h265", extradata |-> "none"],
                [type |-> "video", codec |-> "h264", extradata |-> "bad"]>>

TsSample(track, format, units, cut) ==
  [track |-> track, format |-> format, units |-> units, cut |-> cut]

(* 131 + 20 + 25 bytes fill the first packet of a video PES, 155 + 7 + 14 of   *)
(* an audio PES.                                                               *)
MCTsSamples == <<TsSample(1, "avcc", <<<<"idr", 131>>>>, FALSE),
                 TsSample(1, "annexb", <<<<"slice", 152>>>>, FALSE),
                 TsSample(1, "avcc", <<<<"slice", 9>>>>, TRUE),
                 TsSample(2, "latm", <<<<"raw", 155>>>>, FALSE),
                 TsSample(2, "adts", <<<<"raw", 346>>>>, FALSE),
                 TsSample(2, "latm", <<<<"raw", 3000>>>>, FALSE),
                 TsSample(3, "annexb", <<<<"slice", 9>>>>, FALSE),
                 TsSample(4, "avcc", <<<<"idr", 335>>>>, FALSE),
                 TsSample(4, "avcc", <<<<"slice", 334>>>>, FALSE)>>

MCAvTracks == <<"video", "audio", "subtitle", "audio">>

-----------------------------------------------------------------------------
MCOriginal == <<4, 5>>
MCGiven == {<<1, 2>>, <<3>>}

MCLoads == {<<1, 2>>}

Value(kind, bytes) == [kind |-> kind, bytes |-> bytes]
MCStreamValues ==
  {Value("number", <<1, 2>>), Value("string", <<>>), Value("string", <<7>>),
   Value("bytes32", <<3, 4>>), Value("bytes64", <<5, 6>>),
   Value("uint24", <<0, 1, 2, 3>>), Value("int24", <<255, 4, 5, 6>>)}

MCNumbers == {<<1, 0, 1>>, <<0, 1, 1, 0, 1, 0, 0, 1>>, <<1, 1, 0, 1, 0, 0, 1, 0, 1, 1, 0>>}
MCContents == {<<1, 0, 1, 1, 0, 0, 1, 1, 0, 1, 1, 1, 0, 1, 0, 1, 1, 1, 1, 0, 0, 1, 0, 1>>}

MCTypedNumbers == {<<1, 2>>, <<3, 4, 5>>}

VARIABLE subject

mediaVars == <<demuxerVars, fileDemuxerVars, tsMuxerVars, ffmpegMuxersVars>>
bufferVars == <<dataVars, dataBufferVars, streamVars, bitVars, byteStreamVars>>

(* Only the subject's own beginnings are told apart.                           *)
Init ==
  /\ DemuxerInit /\ FileDemuxerInit /\ TsMuxerInit /\ FfmpegMuxersInit
  /\ DataInit /\ DataBufferInit /\ StreamInit /\ BitInit /\ ByteStreamInit
  /\ subject \in {"demuxer", "file demuxer", "ts muxer", "ffmpeg muxer", "rtmp writer",
                  "data", "data buffer", "data stream", "bit stream", "byte stream"}
  /\ subject # "data stream" => stream = NewStream("queue", "little", <<>>, TRUE)
  /\ subject # "bit stream" => bs.mode = "dynamic"
  /\ subject # "byte stream" => \A s \in ByteStreams : byteStreams[s].writable

Next ==
  /\ UNCHANGED subject
  /\ \/ subject = "demuxer" /\ DemuxerNext
        /\ UNCHANGED <<fileDemuxerVars, tsMuxerVars, ffmpegMuxersVars, bufferVars>>
     \/ subject = "file demuxer" /\ FileDemuxerNext
        /\ UNCHANGED <<demuxerVars, tsMuxerVars, ffmpegMuxersVars, bufferVars>>
     \/ subject = "ts muxer" /\ TsMuxerNext
        /\ UNCHANGED <<demuxerVars, fileDemuxerVars, ffmpegMuxersVars, bufferVars>>
     \/ subject = "ffmpeg muxer" /\ FfMuxerNext
        /\ UNCHANGED <<demuxerVars, fileDemuxerVars, tsMuxerVars, bufferVars>>
     \/ subject = "rtmp writer" /\ RtmpWriterNext
        /\ UNCHANGED <<demuxerVars, fileDemuxerVars, tsMuxerVars, bufferVars>>
     \/ subject = "data" /\ DataNext
        /\ UNCHANGED <<dataBufferVars, streamVars, bitVars, byteStreamVars, mediaVars>>
     \/ subject = "data buffer" /\ DataBufferNext
        /\ UNCHANGED <<dataVars, streamVars, bitVars, byteStreamVars, mediaVars>>
     \/ subject = "data stream" /\ StreamNext
        /\ UNCHANGED <<dataVars, dataBufferVars, bitVars, byteStreamVars, mediaVars>>
     \/ subject = "bit stream" /\ BitNext
        /\ UNCHANGED <<dataVars, dataBufferVars, streamVars, byteStreamVars, mediaVars>>
     \/ subject = "byte stream" /\ ByteStreamNext
        /\ UNCHANGED <<dataVars, dataBufferVars, streamVars, bitVars, mediaVars>>

Spec == Init /\ [][Next]_<<mediaVars, bufferVars, subject>>
=============================================================================
