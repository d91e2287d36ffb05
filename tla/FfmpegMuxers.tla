---------------------------- MODULE FfmpegMuxers ----------------------------
(* The two muxers over libavformat: sny::SnyMuxerImplFFMpeg, which the         *)
(* publishers write with, and RtmpWriter.  Their operations do not overlap:    *)
(* a publisher's thread owns its muxer, RtmpWriter holds _lock.                *)
(*                                                                             *)
(* An AVFormatContext is external: the tracks its streams were made for, in    *)
(* the order of their index, whether its output is open and its header         *)
(* written, and the packets [stream, track, data] it took.  Both objects keep  *)
(* a map from track ids to stream indices that outlives the context.           *)
(* Failures of libavformat are free choices.                                   *)
EXTENDS Integers, Sequences, FiniteSets, SequencesExt

CONSTANTS AvTracks,    \* the tracks by id: their media type
          MaxAvCalls   \* bound: the calls of one object

ASSUME AvAssumption == DOMAIN AvTracks \subseteq Int

VARIABLES ffMuxer,     \* SnyMuxerImplFFMpeg
          rtmpWriter   \* RtmpWriter

ffmpegMuxersVars == <<ffMuxer, rtmpWriter>>

NoContext == [allocated |-> FALSE, streams |-> <<>>, pb |-> FALSE, header |-> FALSE,
              packets |-> <<>>]
NewContext == [NoContext EXCEPT !.allocated = TRUE]

FfmpegMuxersInit ==
  /\ ffMuxer = [media_tracks_ |-> {}, index |-> <<>>, oc_ |-> NoContext, opened |-> FALSE,
                calls |-> 0]
  /\ rtmpWriter = [track_map |-> <<>>, context |-> NoContext, added |-> {},
                   started |-> FALSE, calls |-> 0]

Supported(id) == AvTracks[id] \in {"video", "audio"}
HasData(format) == format \in {"avcc", "latm"}
Assigned(map, id, value) == [i \in DOMAIN map \cup {id} |-> IF i = id THEN value ELSE map[i]]

(* The ids in the order a std::map keeps them.                                 *)
InOrder(ids) ==
  [k \in 1..Cardinality(ids) |-> CHOOSE id \in ids : Cardinality({i \in ids : i < id}) = k - 1]

(* av_write_frame on the stream of a track.  A sample that is in neither of    *)
(* the two forms is written without data.  (added: the track was added to this *)
(* context.)                                                                   *)
Written(context, index, id, format, added) ==
  [context EXCEPT !.packets = Append(@, [stream |-> index, track |-> id, added |-> added,
                                         data |-> HasData(format)])]

-----------------------------------------------------------------------------
(* SnyMuxerImplFFMpeg.                                                         *)

AddMediaTrack(id) ==
  ffMuxer' = [ffMuxer EXCEPT !.media_tracks_ = @ \cup {id}, !.calls = @ + 1]

(* Mutant: an index that is in the map stays.                                  *)
InitMediaTrackInserting(m) ==
  LET ids == InOrder(m.media_tracks_)
      bad == SelectInSeq(ids, LAMBDA id : ~Supported(id))
      made == IF bad = 0 THEN ids ELSE SubSeq(ids, 1, bad - 1)
  IN [m EXCEPT !.oc_ = [NewContext EXCEPT !.streams = made],
               !.opened = bad = 0,
               !.index = [id \in DOMAIN @ \cup ToSet(made) |->
                            IF id \in DOMAIN m.index THEN m.index[id]
                            ELSE SelectInSeq(made, LAMBDA i : i = id)]]

(* initMediaTrack, in a new context: a stream per track in the order of the    *)
(* ids, up to the first that is of no supported type, where it fails.          *)
InitMediaTrack(m) ==
  LET ids == InOrder(m.media_tracks_)
      bad == SelectInSeq(ids, LAMBDA id : ~Supported(id))
      made == IF bad = 0 THEN ids ELSE SubSeq(ids, 1, bad - 1)
  IN [m EXCEPT !.oc_ = [NewContext EXCEPT !.streams = made],
               !.opened = bad = 0,
               !.index = [id \in DOMAIN @ \cup ToSet(made) |->
                            IF id \in ToSet(made) THEN SelectInSeq(made, LAMBDA i : i = id)
                            ELSE m.index[id]]]

(* internalOpen: avio_open2, then avformat_write_header.                       *)
InternalOpen(m, io, header) ==
  IF ~m.opened THEN m
  ELSE [m EXCEPT !.oc_.pb = io, !.oc_.header = io /\ header, !.opened = io /\ header]

(* open() with an empty path, or a format FFmpeg does not know: the context    *)
(* that is there stays, with its streams and packets.                          *)
OpenRefused == ffMuxer' = [ffMuxer EXCEPT !.opened = FALSE, !.calls = @ + 1]

(* open().  A context that is there already is not closed first; when a later  *)
(* step fails the new one stays behind.                                        *)
OpenMuxer(allocated, io, header) ==
  ffMuxer' = [IF allocated THEN InternalOpen(InitMediaTrack(ffMuxer), io, header)
              ELSE [ffMuxer EXCEPT !.oc_ = NoContext, !.opened = FALSE]
              EXCEPT !.calls = @ + 1]

CloseMuxer ==
  ffMuxer' = [ffMuxer EXCEPT !.oc_ = NoContext, !.opened = FALSE, !.calls = @ + 1]

(* writeSample of a muxer that opened: SnyMultiRTMPPublish gives up when it    *)
(* did not.  A track that is not in the map is ignored.                        *)
WriteMediaSample(id, format) ==
  /\ ffMuxer.opened
  /\ ffMuxer' = [ffMuxer EXCEPT !.calls = @ + 1,
                   !.oc_ = IF id \in DOMAIN ffMuxer.index
                           THEN Written(@, ffMuxer.index[id], id, format, TRUE) ELSE @]

FfMuxerNext ==
  /\ ffMuxer.calls < MaxAvCalls
  /\ \/ \E id \in DOMAIN AvTracks : AddMediaTrack(id)
     \/ \E allocated, io, header \in BOOLEAN : OpenMuxer(allocated, io, header)
     \/ OpenRefused \/ CloseMuxer
     \/ \E id \in DOMAIN AvTracks, format \in {"avcc", "annexb"} : WriteMediaSample(id, format)
  /\ UNCHANGED rtmpWriter

-----------------------------------------------------------------------------
(* RtmpWriter.                                                                 *)

(* SetPath: the old context goes, the maps stay.                               *)
SetPath(allocated) ==
  rtmpWriter' = [rtmpWriter EXCEPT !.context = IF allocated THEN NewContext ELSE NoContext,
                                   !.added = {}, !.started = FALSE, !.calls = @ + 1]

AddWriterTrack(id) ==
  /\ rtmpWriter.context.allocated
  /\ rtmpWriter' =
       IF ~Supported(id) THEN [rtmpWriter EXCEPT !.calls = @ + 1]
       ELSE [rtmpWriter EXCEPT !.context.streams = Append(@, id),
               !.track_map = Assigned(@, id, Len(rtmpWriter.context.streams) + 1),
               !.added = @ \cup {id}, !.calls = @ + 1]

Start(io, header) ==
  /\ rtmpWriter.context.allocated /\ ~rtmpWriter.context.header
  /\ rtmpWriter' = [rtmpWriter EXCEPT !.context.pb = io, !.context.header = io /\ header,
                                      !.started = io /\ header, !.calls = @ + 1]

Stop ==
  rtmpWriter' = [rtmpWriter EXCEPT !.context = NoContext, !.added = {}, !.started = FALSE,
                                   !.calls = @ + 1]

(* PutData of a started writer.                                                *)
PutData(id, format) ==
  /\ rtmpWriter.started
  /\ rtmpWriter' = [rtmpWriter EXCEPT !.calls = @ + 1,
                      !.context = IF id \in DOMAIN rtmpWriter.track_map
                                  THEN Written(@, rtmpWriter.track_map[id], id, format,
                                               id \in rtmpWriter.added)
                                  ELSE @]

RtmpWriterNext ==
  /\ rtmpWriter.calls < MaxAvCalls
  /\ \/ \E allocated \in BOOLEAN : SetPath(allocated)
     \/ \E id \in DOMAIN AvTracks : AddWriterTrack(id)
     \/ \E io, header \in BOOLEAN : Start(io, header)
     \/ Stop
     \/ \E id \in DOMAIN AvTracks, format \in {"avcc", "annexb"} : PutData(id, format)
  /\ UNCHANGED ffMuxer

FfmpegMuxersSpec == FfmpegMuxersInit /\ [][FfMuxerNext \/ RtmpWriterNext]_ffmpegMuxersVars

-----------------------------------------------------------------------------
(* Properties.                                                                 *)

OnTheirStreams(context) ==
  \A k \in 1..Len(context.packets) :
    LET packet == context.packets[k]
    IN packet.added =>
         /\ packet.stream \in 1..Len(context.streams)
         /\ context.streams[packet.stream] = packet.track

(* Although both objects keep their map from track to stream index when they   *)
(* are opened again, with other tracks in between and after opens that failed  *)
(* half way, a packet goes to the stream that its own context made for its     *)
(* track; for RtmpWriter as long as the track was added since SetPath, which   *)
(* leaves the indices of the old context in the map.                           *)
PacketsOnTheirStreams ==
  /\ OnTheirStreams(ffMuxer.oc_)
  /\ OnTheirStreams(rtmpWriter.context)
=============================================================================
