------------------------------ MODULE TsMuxer ------------------------------
(* The MPEG-TS muxer, sny::SnyMuxerImplTS, with its streams and the two        *)
(* conversions it calls, SnyH264AvccToAnnexB and SnyAACLatmToAdts.             *)
(*                                                                             *)
(* writeSample converts the sample it is given in place and cuts one PES into  *)
(* packets.  A sample is [track, format, units, cut]: units are its pieces     *)
(* <<kind, size>>, cut says that its last length does not fit.  A packet is    *)
(* [pid, start, cc, adaptation, pcr, from, size, pes]: it carries the bytes    *)
(* from+1 to from+size of PES number pes of its output (0: a table).  The      *)
(* bits of PAT, PMT, CRC and time stamps are left out.                         *)
EXTENDS Integers, Sequences, FiniteSets, SequencesExt

CONSTANTS TsTracks,   \* the tracks by id: [type, codec, extradata]
          TsSamples,  \* the samples a caller holds, as they are at first
          MaxTsCalls  \* bound: the calls of addMediaTrack, open, close, writeSample

(* The kinds of pieces of a video access unit or an audio frame.               *)
TsKinds == {"aud", "sps", "pps", "idr", "slice", "sei", "adts", "raw"}
TsUnits == TsKinds \X Nat

ASSUME TsAssumption ==
  /\ DOMAIN TsTracks \subseteq Int /\ IsFiniteSet(DOMAIN TsTracks)
  /\ \A s \in DOMAIN TsSamples :
       TsSamples[s] \in [track : DOMAIN TsTracks, format : {"avcc", "annexb", "latm", "adts"},
                        units : Seq(TsUnits), cut : BOOLEAN]
  /\ MaxTsCalls \in Nat

VARIABLES tsMuxer,    \* the muxer
          tsSamples,  \* the samples, converted in place
          tsFile      \* the output in use: its packets, PMT and the PES put into it

tsMuxerVars == <<tsMuxer, tsSamples, tsFile>>

PacketSize == 188
PacketPayloadSize == 184
PcrAdaptationSize == 6
PidPat == 0
PidPmt == 256
PidAudio == 257
PidVideo == 513

NoTsFile == [packets |-> <<>>, pmt |-> {}, pes |-> <<>>]

TsMuxerInit ==
  /\ tsMuxer = [media_tracks_ |-> {}, media_streams_ |-> <<>>, output_ |-> FALSE,
                audio_stream_pid_ |-> PidAudio, video_stream_pid_ |-> PidVideo,
                pat |-> 0, pmt |-> 0, calls |-> 0]
  /\ tsSamples = TsSamples
  /\ tsFile = NoTsFile

AddTsTrack(id) ==
  /\ tsMuxer.calls < MaxTsCalls
  /\ tsMuxer' = [tsMuxer EXCEPT !.media_tracks_ = @ \cup {id}, !.calls = @ + 1]
  /\ UNCHANGED <<tsSamples, tsFile>>

-----------------------------------------------------------------------------
(* Packets.                                                                    *)

(* Mutant: the payload is not clamped when the PCR takes room.                 *)
WritePacketHeaderUnclamped(stream, start, pes, from, wanted, pcr) ==
  LET field == IF pcr THEN 2 + PcrAdaptationSize ELSE 0
      adaptation == IF field + wanted < PacketPayloadSize
                    THEN PacketPayloadSize - wanted ELSE field
  IN [pid |-> stream.pid, start |-> start, cc |-> stream.cc % 16, pcr |-> pcr,
      adaptation |-> adaptation, pes |-> pes, from |-> from, size |-> wanted]

(* The packet for at most `wanted' bytes: the payload is clamped to what the   *)
(* adaptation field leaves, and the field is stuffed when the payload is small.*)
WritePacketHeader(stream, start, pes, from, wanted, pcr) ==
  LET field == IF pcr THEN 2 + PcrAdaptationSize ELSE 0
      size == IF wanted + field > PacketPayloadSize THEN PacketPayloadSize - field ELSE wanted
      adaptation == IF field + size < PacketPayloadSize THEN PacketPayloadSize - size ELSE field
  IN [pid |-> stream.pid, start |-> start, cc |-> stream.cc % 16, pcr |-> pcr,
      adaptation |-> adaptation, pes |-> pes, from |-> from, size |-> size]

AtMostPayload(size) == IF size > PacketPayloadSize THEN PacketPayloadSize ELSE size

(* The packets of PES number pes of the given size: the first one has the PCR. *)
WritePES(stream, total, pes) ==
  LET packet[n \in 0..total] ==
        IF n = 0 THEN WritePacketHeader(stream, TRUE, pes, 0, AtMostPayload(total), TRUE)
        ELSE LET before == packet[n - 1]
                 from == before.from + before.size
             IN WritePacketHeader([stream EXCEPT !.cc = @ + n], FALSE, pes, from,
                                  AtMostPayload(total - from), FALSE)
      count == CHOOSE n \in 1..total : /\ packet[n - 1].from + packet[n - 1].size >= total
                                       /\ \A k \in 1..n - 1 :
                                            packet[k - 1].from + packet[k - 1].size < total
  IN [n \in 1..count |-> packet[n - 1]]

TablePacket(pid, cc) ==
  WritePacketHeader([pid |-> pid, cc |-> cc], TRUE, 0, 0, PacketPayloadSize, FALSE)

-----------------------------------------------------------------------------
(* Opening and closing.                                                        *)

Muxable(id) == <<TsTracks[id].type, TsTracks[id].codec>> \in {<<"audio", "aac">>, <<"video", "h264">>}

(* Every open makes new streams with the next PIDs, in the order of the track  *)
(* ids; a track that has a stream keeps the one it has.                        *)
StreamsOf(m) ==
  LET Of(type) == {id \in m.media_tracks_ : Muxable(id) /\ TsTracks[id].type = type}
      Rank(id) == Cardinality({i \in Of(TsTracks[id].type) : i < id})
      Base(id) == IF TsTracks[id].type = "audio" THEN m.audio_stream_pid_ ELSE m.video_stream_pid_
      old == m.media_streams_
  IN [id \in DOMAIN old \cup Of("audio") \cup Of("video") |->
        IF id \in DOMAIN old THEN old[id] ELSE [pid |-> Base(id) + Rank(id), cc |-> 0]]

(* open: with a stream at least the output is created, which may fail, and the *)
(* two tables are written.  A caller opens a muxer that is not open.           *)
OpenTs(created) ==
  /\ tsMuxer.calls < MaxTsCalls /\ ~tsMuxer.output_
  /\ LET streams == StreamsOf(tsMuxer)
         Made(type) == Cardinality({id \in tsMuxer.media_tracks_ :
                                      Muxable(id) /\ TsTracks[id].type = type})
         success == streams # <<>> /\ created
     IN /\ tsMuxer' = [tsMuxer EXCEPT !.calls = @ + 1, !.media_streams_ = streams,
                         !.audio_stream_pid_ = @ + Made("audio"),
                         !.video_stream_pid_ = @ + Made("video"),
                         !.output_ = success,
                         !.pat = IF success THEN @ + 1 ELSE @,
                         !.pmt = IF success THEN @ + 1 ELSE @]
        /\ tsFile' = IF ~success THEN tsFile
                     ELSE [pes |-> <<>>, pmt |-> {streams[id].pid : id \in DOMAIN streams},
                           packets |-> <<TablePacket(PidPat, tsMuxer.pat),
                                         TablePacket(PidPmt, tsMuxer.pmt)>>]
  /\ UNCHANGED tsSamples

CloseTs ==
  /\ tsMuxer.calls < MaxTsCalls
  /\ tsMuxer' = [tsMuxer EXCEPT !.output_ = FALSE, !.calls = @ + 1]
  /\ tsFile' = NoTsFile
  /\ UNCHANGED tsSamples

-----------------------------------------------------------------------------
(* Writing.                                                                    *)

HasIdr(units) == \E i \in 1..Len(units) : units[i][1] = "idr"

(* What Convert makes of an AVCC or LATM sample, and whether it succeeds.      *)
AvccToAnnexB(sample, extradata) ==
  LET parameters == extradata # "none" /\ HasIdr(sample.units)
  IN [ok |-> ~sample.cut /\ (parameters => extradata = "good"),
      format |-> sample.format,
      units |-> (IF parameters THEN <<<<"sps", 12>>, <<"pps", 8>>>> ELSE <<>>) \o sample.units]

LatmToAdts(sample, extradata) ==
  [ok |-> TRUE, format |-> sample.format,
   units |-> (IF extradata = "none" THEN <<>> ELSE <<<<"adts", 7>>>>) \o sample.units]

(* Mutant: the sample keeps the format it had.                                 *)
ConvertedUnmarked(sample, extradata) ==
  CASE sample.format = "avcc" -> AvccToAnnexB(sample, extradata)
    [] sample.format = "latm" -> LatmToAdts(sample, extradata)
    [] OTHER -> [ok |-> TRUE, format |-> sample.format, units |-> sample.units]

Converted(sample, extradata) ==
  CASE sample.format = "avcc" -> [AvccToAnnexB(sample, extradata) EXCEPT !.format = "annexb"]
    [] sample.format = "latm" -> [LatmToAdts(sample, extradata) EXCEPT !.format = "adts"]
    [] OTHER -> [ok |-> TRUE, format |-> sample.format, units |-> sample.units]

SizeOf(units) ==
  LET size[n \in 0..Len(units)] == IF n = 0 THEN 0 ELSE size[n - 1] + units[n][2]
  IN size[Len(units)]

(* WriteSample of the two streams: a video PES has a DTS and a delimiter.      *)
PesOf(s, pid, units) ==
  IF TsTracks[tsSamples[s].track].type = "video"
  THEN [sample |-> s, pid |-> pid, header |-> 19, units |-> <<<<"aud", 6>>>> \o units]
  ELSE [sample |-> s, pid |-> pid, header |-> 14, units |-> units]

(* writeSample of an open muxer: an unknown track is ignored, a sample that    *)
(* cannot be converted is refused and stays as it is.  A sample of a track     *)
(* without a stream is not written: its stream is a null pointer.              *)
WriteTsSample(s) ==
  LET sample == tsSamples[s]
      id == sample.track
      to == Converted(sample, TsTracks[id].extradata)
      pes == PesOf(s, tsMuxer.media_streams_[id].pid, to.units)
      packets == WritePES(tsMuxer.media_streams_[id], pes.header + SizeOf(pes.units),
                          Len(tsFile.pes) + 1)
      muxer == [tsMuxer EXCEPT !.calls = @ + 1]
  IN /\ tsMuxer.calls < MaxTsCalls /\ tsMuxer.output_
     /\ \/ /\ id \notin tsMuxer.media_tracks_ \/ ~to.ok
           /\ tsMuxer' = muxer
           /\ UNCHANGED <<tsSamples, tsFile>>
        \/ /\ id \in tsMuxer.media_tracks_ /\ to.ok /\ id \in DOMAIN tsMuxer.media_streams_
           /\ tsMuxer' = [muxer EXCEPT !.media_streams_[id].cc = @ + Len(packets)]
           /\ tsSamples' = [tsSamples EXCEPT ![s].format = to.format, ![s].units = to.units]
           /\ tsFile' = [tsFile EXCEPT !.packets = @ \o packets, !.pes = Append(@, pes)]

TsMuxerNext ==
  \/ \E id \in DOMAIN TsTracks : AddTsTrack(id)
  \/ \E created \in BOOLEAN : OpenTs(created)
  \/ CloseTs
  \/ \E s \in DOMAIN TsSamples : WriteTsSample(s)

TsMuxerSpec == TsMuxerInit /\ [][TsMuxerNext]_tsMuxerVars

-----------------------------------------------------------------------------
(* Properties.                                                                 *)

(* What a demultiplexer that knows nothing of the muxer gets out of its file:  *)
(* packets of 188 bytes, of every PID with consecutive counters although the   *)
(* counters outlive the file they were started in, on the PIDs the tables name *)
(* only; and from each PES, from a packet that starts it, every byte once and  *)
(* in order, with no other PES begun between its packets.                      *)
DemultiplexesToTheSamples ==
  LET sent == tsFile.packets
      Begins(k) == k = 1 \/ sent[k - 1].pes # sent[k].pes
      Ends(k) == k = Len(sent) \/ sent[k + 1].pes # sent[k].pes
      Follows(k, j) == sent[j].pid = sent[k].pid /\ \A i \in j + 1..k - 1 : sent[i].pid # sent[k].pid
  IN /\ \A k \in 1..Len(sent) : /\ sent[k].pid \in {PidPat, PidPmt} \cup tsFile.pmt
                                /\ 4 + sent[k].adaptation + sent[k].size = PacketSize
                                /\ sent[k].pcr => sent[k].adaptation >= 2 + PcrAdaptationSize
     /\ \A k \in 1..Len(sent) : \A j \in 1..k - 1 :
          Follows(k, j) => sent[k].cc = (sent[j].cc + 1) % 16
     /\ \A n \in 1..Len(tsFile.pes) : \E k \in 1..Len(sent) : sent[k].pes = n
     /\ \A k \in 1..Len(sent) :
          LET of == tsFile.pes[sent[k].pes]
          IN sent[k].pes # 0 =>
               /\ sent[k].pid = of.pid
               /\ sent[k].start <=> Begins(k)
               /\ sent[k].from = IF Begins(k) THEN 0 ELSE sent[k - 1].from + sent[k - 1].size
               /\ Ends(k) => sent[k].from + sent[k].size = of.header + SizeOf(of.units)
     /\ \A k \in 1..Len(sent) - 1 : sent[k].pes <= sent[k + 1].pes

(* Conversion changes the caller's sample: however often a sample is written,  *)
(* into however many files, its access unit has the parameter sets of its      *)
(* track once, before its slices, and its audio frame one ADTS header; the     *)
(* pieces the caller gave are all there, in order and once.                    *)
ConvertedOnce ==
  \A n \in 1..Len(tsFile.pes) :
    LET pes == tsFile.pes[n]
        sample == TsSamples[pes.sample]
        extra == TsTracks[sample.track].extradata # "none"
        added == Len(pes.units) - Len(sample.units)
        Added(kind) == Cardinality({i \in 1..added : pes.units[i][1] = kind})
    IN /\ added >= 0
       /\ \A i \in 1..Len(sample.units) : pes.units[added + i] = sample.units[i]
       /\ \A i \in 1..added : pes.units[i][1] \in {"aud", "sps", "pps", "adts"}
       /\ \A kind \in {"sps", "pps"} :
            Added(kind) = IF sample.format = "avcc" /\ extra /\ HasIdr(sample.units) THEN 1 ELSE 0
       /\ Added("adts") = IF sample.format = "latm" /\ extra THEN 1 ELSE 0
=============================================================================
