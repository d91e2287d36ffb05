---------------------------- MODULE FileDemuxer ----------------------------
(* The file demuxer over FFmpeg: FileDemuxerBase with FileDemuxerFfmpegImpl,   *)
(* the bit-stream filters of FfmpegHelper and the ADTS headers of AACUtils.    *)
(*                                                                             *)
(* One object can open one file after another.  A file is its streams and its  *)
(* packets in file order; libavformat and libavcodec are external: a context   *)
(* is the file it was opened on and the number of the next packet, a filter    *)
(* turns a packet into one packet or refuses it.  A sample is the packet it    *)
(* was made of, what was done to it and the ADTS header put in front of it.    *)
EXTENDS Integers, Sequences, FiniteSets, SequencesExt

CONSTANTS AvFiles,       \* the files by path: [infoFound, streams, packets]
          MaxFileCalls   \* bound: the calls of setFilePath, open, close and seek

ASSUME AvFilesAssumption ==
  \A path \in DOMAIN AvFiles :
    LET file == AvFiles[path]
    IN /\ \A i \in DOMAIN file.streams : file.streams[i].extra.size \in Nat
       /\ file.packets \in Seq([stream : DOMAIN file.streams, dts : Int, key : BOOLEAN])

VARIABLES fileDemuxer,   \* the object
          fileRead       \* history: the samples since open or the last seek

fileDemuxerVars == <<fileDemuxer, fileRead>>

NoAvContext == [file |-> "", next |-> 0]
NoAdts == <<>>
kMaxExtraDataSize == 500

FileDemuxerInit ==
  /\ fileDemuxer = [file_path_ |-> "", opened_ |-> FALSE, eof_ |-> FALSE,
                    fmt_ctx_ |-> NoAvContext, media_tracks_ |-> {}, filtered |-> {},
                    aac_adts_ |-> <<>>, opens |-> 0, calls |-> 0]
  /\ fileRead = [samples |-> <<>>, from |-> 1, refused |-> {}]

OpenFileOf(d) == AvFiles[d.fmt_ctx_.file]

Called(d) == [d EXCEPT !.calls = @ + 1]

SetFilePath(path) ==
  /\ fileDemuxer.calls < MaxFileCalls
  /\ fileDemuxer' = Called([fileDemuxer EXCEPT !.file_path_ = path])
  /\ UNCHANGED fileRead

-----------------------------------------------------------------------------
(* Opening.                                                                    *)

h264_is_annexb(stream) == stream.tag # "avc1"
h265_is_annexb(stream) == stream.extra.size < 23 \/ ~stream.extra.hvcc

(* A stream whose codec is known and whose extradata is not too large becomes  *)
(* a track.                                                                    *)
IsTrack(stream) ==
  stream.extra.size < kMaxExtraDataSize /\ stream.codec \in {"h264", "h265", "aac"}

(* Its packets go through a filter when they are not in Annex B form and the   *)
(* filter could be made; otherwise they stay in the form they have.            *)
NeedsFilter(stream) ==
  \/ stream.codec = "h264" /\ ~h264_is_annexb(stream)
  \/ stream.codec = "h265" /\ ~h265_is_annexb(stream)

(* Streams that are there already when the tables are filled keep their        *)
(* entries; a context that a failed open left behind is opened over.           *)
OpenImpl(made) ==
  LET path == fileDemuxer.file_path_
      streams == AvFiles[path].streams
      tracks == {i \in DOMAIN streams : IsTrack(streams[i])}
      filtered == {i \in tracks : NeedsFilter(streams[i])} \cap made
      new == tracks \ fileDemuxer.media_tracks_
  IN IF path \notin DOMAIN AvFiles THEN [fileDemuxer EXCEPT !.fmt_ctx_ = NoAvContext]
     ELSE IF ~AvFiles[path].infoFound
     THEN [fileDemuxer EXCEPT !.fmt_ctx_ = [file |-> path, next |-> 1]]
     ELSE [fileDemuxer EXCEPT !.fmt_ctx_ = [file |-> path, next |-> 1],
             !.media_tracks_ = @ \cup tracks,
             !.filtered = @ \cup (filtered \cap new),
             !.opened_ = fileDemuxer.media_tracks_ \cup tracks # {},
             !.opens = @ + 1]

OpenFile ==
  /\ fileDemuxer.calls < MaxFileCalls
  /\ \E made \in SUBSET (1..2) :
       fileDemuxer' = Called(IF fileDemuxer.opened_ THEN fileDemuxer ELSE OpenImpl(made))
  /\ fileRead' = IF fileDemuxer.opened_ THEN fileRead
                 ELSE [samples |-> <<>>, from |-> 1, refused |-> {}]

(* Mutant: the tracks of the closed file stay in the table.                    *)
CloseFileKeepingTracks ==
  /\ fileDemuxer.calls < MaxFileCalls /\ fileDemuxer.opened_
  /\ fileDemuxer' = Called([fileDemuxer EXCEPT !.fmt_ctx_ = NoAvContext, !.filtered = {},
                                               !.opened_ = FALSE, !.eof_ = FALSE])
  /\ fileRead' = [samples |-> <<>>, from |-> 1, refused |-> {}]

(* close() of an open file; the ADTS headers stay.                             *)
CloseFile ==
  /\ fileDemuxer.calls < MaxFileCalls /\ fileDemuxer.opened_
  /\ fileDemuxer' = Called([fileDemuxer EXCEPT !.fmt_ctx_ = NoAvContext,
                              !.media_tracks_ = {}, !.filtered = {},
                              !.opened_ = FALSE, !.eof_ = FALSE])
  /\ fileRead' = [samples |-> <<>>, from |-> 1, refused |-> {}]

-----------------------------------------------------------------------------
(* Reading.                                                                    *)

SampleRates == <<96000, 88200, 64000, 48000, 44100, 32000, 24000, 22050, 16000,
                 12000, 11025, 8000, 7350>>
RateLimits == <<92017, 75132, 55426, 46009, 37566, 27713, 23004, 18783, 13856, 11502, 9391>>

aac_get_sample_rate_by_index(index) == IF index <= 12 THEN SampleRates[index + 1] ELSE 0

aac_get_index_by_sample_rate(rate) ==
  LET reached == SelectInSeq(RateLimits, LAMBDA limit : limit <= rate)
  IN IF reached = 0 THEN 11 ELSE reached - 1

(* The fields of the extradata: <<object type, frequency index, channels>>.    *)
aac_parse_extra_data(extra) ==
  <<extra.config[1], aac_get_sample_rate_by_index(extra.config[2]), extra.config[3]>>

(* The fields of the header: <<profile, frequency index, channels>>.           *)
aac_make_adts_header(adts) ==
  <<(adts[1] - 1) % 4, aac_get_index_by_sample_rate(adts[2]),
    IF adts[3] = 8 THEN 7 ELSE adts[3]>>

(* The headers known before packet n of stream i gets one: parsed once for a   *)
(* stream number, from the extradata it has then.                              *)
AdtsFor(d, i) ==
  LET extra == OpenFileOf(d).streams[i].extra
  IN IF extra.size >= 2 /\ i \notin DOMAIN d.aac_adts_
     THEN [k \in DOMAIN d.aac_adts_ \cup {i} |->
             IF k = i THEN aac_parse_extra_data(extra) ELSE d.aac_adts_[k]]
     ELSE d.aac_adts_

(* readSampleImpl: packets are taken from the file until one gives a sample.   *)
(* Packets of other streams and packets that the filter refuses give none.     *)
ReadFileSample ==
  /\ fileDemuxer.opened_
  /\ LET ctx == fileDemuxer.fmt_ctx_
         packets == OpenFileOf(fileDemuxer).packets
         left == {n \in ctx.next..Len(packets) :
                    packets[n].stream \in fileDemuxer.media_tracks_}
         filterable == {n \in left : packets[n].stream \in fileDemuxer.filtered}
     IN \E refused \in SUBSET filterable :
          LET giving == left \ refused
              n == CHOOSE k \in giving : \A j \in giving : k <= j
              i == packets[n].stream
              aac == OpenFileOf(fileDemuxer).streams[i].codec = "aac"
              headers == IF aac THEN AdtsFor(fileDemuxer, i) ELSE fileDemuxer.aac_adts_
              sample == [n |-> n, filtered |-> i \in fileDemuxer.filtered,
                         adts |-> IF aac /\ i \in DOMAIN headers
                                  THEN aac_make_adts_header(headers[i]) ELSE NoAdts]
          IN \/ /\ giving = {}
                /\ fileDemuxer' = [fileDemuxer EXCEPT !.eof_ = TRUE,
                                     !.fmt_ctx_.next = Len(packets) + 1]
                /\ fileRead' = [fileRead EXCEPT !.refused = @ \cup refused]
             \/ /\ giving # {} /\ \A k \in refused : k < n
                /\ fileDemuxer' = [fileDemuxer EXCEPT !.fmt_ctx_.next = n + 1,
                                                      !.aac_adts_ = headers]
                /\ fileRead' = [fileRead EXCEPT !.samples = Append(@, sample),
                                                !.refused = @ \cup refused]

-----------------------------------------------------------------------------
(* Seeking.                                                                    *)

(* av_seek_frame with AVSEEK_FLAG_BACKWARD: the last key packet at or before   *)
(* the position.                                                               *)
SeekTarget(packets, pos) ==
  SelectLastInSeq(packets, LAMBDA p : p.key /\ p.dts <= pos)

(* seek(pos): a failed one leaves the file where it is, and eof_ reset.        *)
SeekFile(pos) ==
  /\ fileDemuxer.calls < MaxFileCalls /\ fileDemuxer.opened_
  /\ LET target == SeekTarget(OpenFileOf(fileDemuxer).packets, pos)
     IN \/ /\ target # 0
           /\ fileDemuxer' = Called([fileDemuxer EXCEPT !.eof_ = FALSE,
                                                        !.fmt_ctx_.next = target])
           /\ fileRead' = [samples |-> <<>>, from |-> target, refused |-> {}]
        \/ /\ fileDemuxer' = Called([fileDemuxer EXCEPT !.eof_ = FALSE])
           /\ UNCHANGED fileRead

FileDemuxerNext ==
  \/ \E path \in DOMAIN AvFiles \cup {""} : SetFilePath(path)
  \/ OpenFile
  \/ CloseFile
  \/ ReadFileSample
  \/ \E pos \in 0..2 : SeekFile(pos)

FileDemuxerSpec == FileDemuxerInit /\ [][FileDemuxerNext]_fileDemuxerVars

-----------------------------------------------------------------------------
(* Properties.                                                                 *)

(* Whatever files the object was opened on before, with failed opens and seeks *)
(* in between: from open or the last seek on, readSample gives exactly the     *)
(* packets of the tracks of the file that is open, in file order, each once,   *)
(* without those its filter refused; those that need a filter have been        *)
(* through it when there is one.  The ADTS header in front of an AAC packet    *)
(* is the one its stream's extradata describes, as long as the object has      *)
(* opened no other file: the headers of a file that was closed are not         *)
(* forgotten.  isEof() holds only when all of the packets have been given.     *)
FileSamplesInOrder ==
  fileDemuxer.opened_ =>
    LET file == OpenFileOf(fileDemuxer)
        Due == {n \in fileRead.from..Len(file.packets) :
                  IsTrack(file.streams[file.packets[n].stream])} \ fileRead.refused
        Handed == {fileRead.samples[k].n : k \in 1..Len(fileRead.samples)}
    IN /\ Handed = {n \in Due : n < fileDemuxer.fmt_ctx_.next}
       /\ \A k \in 1..Len(fileRead.samples) - 1 :
            fileRead.samples[k].n < fileRead.samples[k + 1].n
       /\ fileDemuxer.eof_ => Handed = Due
       /\ \A k \in 1..Len(fileRead.samples) :
            LET sample == fileRead.samples[k]
                stream == file.streams[file.packets[sample.n].stream]
            IN /\ sample.filtered => NeedsFilter(stream)
               /\ stream.codec = "aac" /\ fileDemuxer.opens = 1
                 /\ (stream.extra.size >= 2 => stream.extra.config[1] <= 4) =>
                    sample.adts = IF stream.extra.size < 2 THEN NoAdts
                                  ELSE <<stream.extra.config[1] - 1, stream.extra.config[2],
                                         stream.extra.config[3]>>
=============================================================================
